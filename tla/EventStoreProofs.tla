-------------------------- MODULE EventStoreProofs --------------------------
(* Proofs about EventStore: whatever an append is about to publish extends a  *)
(* genuine stream by one sealed event; accepted events stay; between          *)
(* publications the snapshot is the replay of the stream.                     *)
EXTENDS EventStore, WellFoundedInduction, TLAPS

EventsFile == Streams \cup {Missing}
SnapshotFile == Snapshots \cup {Missing, Garbled}
Contents == EventsFile \cup SnapshotFile

OpRecords == [file : File, expected : Contents, result : Contents]
TxRecords == [phase : {"none", "begun", "prepared", "publishing"}, ops : Seq(OpRecords), done : Nat]
DraftRecords == [body : Drafts, prior : Nat]
Writes == [content : Snapshots, expectedDigest : SnapshotFile]

\* Where a command can stand: observing the run, preparing an append, repairing,
\* and driving its transaction.
Observing == {"observeSnapshot", "observeEvents"}
Preparing == {"snapshotRequest", "inspectEvents", "inspectSnapshot", "inspected", "readEvents", "readSnapshot"}
Repairing == {"refreshSnapshot", "refreshEvents", "preview", "preflightApply", "decide"}
Settled == {"preflight", "fresh", "preflightExecute", "declare", "mark"}
Driving == {"precheck", "authorize", "publish", "apply"}
Places == {"idle"} \cup Observing \cup Preparing \cup Repairing \cup Settled \cup Driving

ProcRecords ==
    [pc : Places, kind : {"append", "repair"}, draft : DraftRecords \cup {Missing},
     lineage : Lineage \cup {Missing}, seen : [File -> Contents], text : EventsFile,
     plan : SUBSET Writes, ops : Seq(OpRecords)]

Answers == {"none", "committed", "orientation", "refused", "state_corrupt", "revision_conflict",
            "recovery_required", "internal_failure"}

\* The two operations of an append: the stream it expects and one sealed event,
\* the replay of the one and the replay of the other.
Before(o) == IF o.expected = Missing THEN <<>> ELSE o.expected

AppendOps(ops) ==
    /\ Len(ops) = 2 /\ ops[1].file = "events" /\ ops[2].file = "snapshot"
    /\ Before(ops[1]) \in Streams
    /\ ops[1].result \in Streams
    /\ ops[1].result = Append(Before(ops[1]), ops[1].result[Len(ops[1].result)])
    /\ Genuine(ops[1].result) /\ Len(ops[1].result) <= MaxCount
    /\ \E l \in Lineage :
         /\ ops[2].result = replayEventStream(ops[1].result, l)
         /\ ops[2].expected = IF Before(ops[1]) = <<>> THEN Missing
                              ELSE replayEventStream(Before(ops[1]), l)

\* The operation of a repair, or none.
RepairOnly(ops) ==
    \/ Len(ops) = 0
    \/ Len(ops) = 1 /\ ops[1].file = "snapshot" /\ ops[1].result \in Snapshots

OpsSound(ops) == RepairOnly(ops) \/ AppendOps(ops)

-----------------------------------------------------------------------------
(* The invariant *)

\* A transaction has written no more than its operations, and nothing before it
\* is authorised.
TxOK(t) ==
    /\ t.done <= Len(t.ops) /\ OpsSound(t.ops)
    /\ t.phase # "publishing" => t.done = 0
    /\ t.phase = "none" => t.ops = <<>>

CommandOK(c) ==
    /\ c.seen["events"] \in EventsFile /\ c.seen["snapshot"] \in SnapshotFile
    /\ OpsSound(c.ops)

FilesTyped ==
    /\ files \in [File -> Contents]
    /\ files["events"] \in EventsFile /\ StreamOK(files["events"])
    /\ files["snapshot"] \in SnapshotFile

TxTyped == tx \in [Proc -> TxRecords] /\ \A p \in Proc : TxOK(tx[p])

ProcTyped == proc \in [Proc -> ProcRecords] /\ \A p \in Proc : CommandOK(proc[p])

RestTyped ==
    /\ work \in [Proc -> Seq({"append", "repair"})]
    /\ answer \in [Proc -> Answers]
    /\ accepted \subseteq Events /\ \A e \in accepted : e.result \in 1 .. MaxCount
    /\ clash \in BOOLEAN /\ repaired \in BOOLEAN
    /\ budget \in [crash : 0 .. MaxCrash, edits : 0 .. MaxEdits]

Typed == FilesTyped /\ TxTyped /\ ProcTyped /\ RestTyped

\* What a command holds at each place.
Held(c) ==
    /\ c.pc \in Preparing \cup {"fresh", "declare"} => c.kind = "append"
    /\ c.pc \in Repairing => c.kind = "repair"
    /\ c.kind = "append" /\ c.pc \in Preparing \cup {"preflight"} =>
          c.draft \in DraftRecords /\ c.lineage \in Lineage
    /\ c.kind = "repair" /\ c.pc \in Repairing \cup {"preflight"} => c.plan # {}
    /\ c.pc = "readEvents" => c.seen["events"] # Missing
    /\ c.pc = "readSnapshot" => c.seen["events"] # Missing /\ c.text = c.seen["events"]

\* Where a command stands says in which phase its transaction is.
Placed(c, t) ==
    /\ c.pc \notin Driving \cup {"idle"} => t.phase = "none"
    /\ c.pc = "precheck" => t.phase = "begun"
    /\ c.pc = "authorize" => t.phase = "prepared"
    /\ c.pc \in {"publish", "apply"} => t.phase = "publishing"
    /\ c.pc = "apply" => t.done < Len(t.ops)

Sound == \A p \in Proc : Held(proc[p]) /\ Placed(proc[p], tx[p])

Quiet == ~clash /\ ~Edited

\* Without a clash one transaction publishes at a time.
Alone == ~clash => \A p, q \in Proc : tx[p].phase = "publishing" /\ tx[q].phase = "publishing" => p = q

\* What was looked at still stands when it is replaced.
Stands == Quiet => \A p \in Proc : proc[p].pc = "apply" => ExpectedStands(NextOp(p))

\* The snapshot is the replay of the stream.
Agree ==
    \/ files = [f \in File |-> Missing]
    \/ /\ files["snapshot"] # Missing /\ Genuine(files["events"])
       /\ files["snapshot"] = replayEventStream(files["events"], files["snapshot"].lineage)

\* While an append publishes, the files are the old pair, the new stream with
\* either snapshot, or the new pair.
Paired ==
    Quiet /\ ~repaired =>
        /\ (\A p \in Proc : tx[p].phase # "publishing") => Agree
        /\ \A p \in Proc : tx[p].phase = "publishing" =>
             /\ tx[p].done = 0 => Agree
             /\ Len(tx[p].ops) = 2 /\ tx[p].done >= 1 => files["events"] = tx[p].ops[1].result
             /\ Len(tx[p].ops) = 2 /\ tx[p].done = 2 => files["snapshot"] = tx[p].ops[2].result

Inv == Typed /\ Sound /\ Alone /\ Stands /\ NothingLost /\ Paired

-----------------------------------------------------------------------------
(* The chain *)

\* A set of numbers has a least one: induction, stated without an operator.
LEMMA LeastNat ==
  ASSUME NEW T, T \subseteq Nat, T # {}
  PROVE  \E x \in T : \A y \in T : x <= y
<1> DEFINE R == {ss \in Nat \X Nat : ss[1] < ss[2]}
<1>1. IsWellFoundedOn(R, Nat)
  BY NatLessThanWellFounded DEF OpToRel
<1> HIDE DEF R
<1>2. \E x \in T : \A y \in T : ~(<<y, x>> \in R)
  BY <1>1, WFMin
<1>3. PICK x \in T : \A y \in T : ~(<<y, x>> \in R)
  BY <1>2
<1>4. ASSUME NEW y \in T PROVE x <= y
  <2>1. x \in Nat /\ y \in Nat /\ ~(<<y, x>> \in R)
    BY <1>3
  <2>2. y < x => <<y, x>> \in R
    BY <2>1 DEF R
  <2>3. QED
    BY <2>1, <2>2
<1>5. QED
  BY <1>3, <1>4

Cursors == [revision : Nat, hash : Hashes]

LEMMA EventsEqual ==
  ASSUME NEW e \in Events, NEW f \in Events,
         e.prior = f.prior, e.result = f.result, e.prev = f.prev, e.body = f.body, e.hash = f.hash
  PROVE  e = f
  BY DEF Events

LEMMA EventFields ==
  ASSUME NEW e \in Events
  PROVE  /\ e.prior \in Nat /\ e.result \in Nat /\ e.prev \in Hashes /\ e.body \in Drafts
         /\ e.hash \in Hashes
  BY DEF Events

\* A sealed event is an event that follows its cursor.
LEMMA SealedEvent ==
  ASSUME NEW body \in Drafts, NEW prior \in Nat, NEW cursor \in Cursors, NEW e,
         e = sealEvent([body |-> body, prior |-> prior], cursor)
  PROVE  /\ e \in Events /\ e.prior = prior /\ e.result = prior + 1 /\ e.prev = cursor.hash
         /\ e.body = body /\ e.hash = Append(cursor.hash, <<prior, prior + 1, body>>)
<1> DEFINE prev == cursor.hash
           result == prior + 1
           hash == Append(prev, <<prior, result, body>>)
<1>1. prev \in Hashes /\ result \in Nat
  BY DEF Cursors
<1>2. hash \in Hashes
  BY <1>1 DEF Hashes
<1>3. e = [prior |-> prior, result |-> result, prev |-> prev, body |-> body, hash |-> hash]
  BY DEF sealEvent, Digest
<1> HIDE DEF prev, result, hash
<1>4. e \in Events /\ e.prior = prior /\ e.result = result /\ e.prev = prev /\ e.body = body /\ e.hash = hash
  BY <1>1, <1>2, <1>3 DEF Events
<1>5. QED
  BY <1>4 DEF prev, result, hash

LEMMA StreamFacts ==
  ASSUME NEW s \in Streams
  PROVE  /\ Len(s) \in Nat /\ DOMAIN s = 1 .. Len(s)
         /\ \A i \in 1 .. Len(s) : s[i] \in Events \/ s[i] = Garbled
         /\ s = <<>> <=> Len(s) = 0
         /\ s # Missing
  BY ContentsAssumption DEF Streams

LEMMA CursorOf ==
  ASSUME NEW s \in Streams, s # <<>>, s[Len(s)] \in Events
  PROVE  /\ Cursor(s) \in Cursors
         /\ Cursor(s).revision = s[Len(s)].result /\ Cursor(s).hash = s[Len(s)].hash
<1> DEFINE revision == s[Len(s)].result
           hash == s[Len(s)].hash
<1>1. revision \in Nat /\ hash \in Hashes
  BY EventFields
<1>2. Cursor(s) = [revision |-> revision, hash |-> hash]
  BY DEF Cursor
<1> HIDE DEF revision, hash
<1>3. Cursor(s) \in Cursors /\ Cursor(s).revision = revision /\ Cursor(s).hash = hash
  BY <1>1, <1>2 DEF Cursors
<1>4. QED
  BY <1>3 DEF revision, hash

LEMMA GenesisCursor == Genesis \in Cursors /\ Cursor(<<>>) = Genesis /\ Genesis.revision = 0
<1>1. <<>> \in Hashes
  BY DEF Hashes
<1>2. QED
  BY <1>1 DEF Genesis, Cursors, Cursor

\* The cursor before an event is that of the event before it.
LEMMA CursorBefore ==
  ASSUME NEW s \in Streams, NEW i \in 1 .. Len(s)
  PROVE  Cursor(SubSeq(s, 1, i - 1)) =
            IF i = 1 THEN Genesis ELSE [revision |-> s[i - 1].result, hash |-> s[i - 1].hash]
<1>1. Len(s) \in Nat
  BY StreamFacts
<1>2. CASE i = 1
  <2>1. SubSeq(s, 1, i - 1) = <<>>
    BY <1>2 DEF Streams
  <2>2. QED
    BY <1>2, <2>1, GenesisCursor
<1>3. CASE i # 1
  <2> DEFINE t == SubSeq(s, 1, i - 1)
  <2>1. Len(t) = i - 1 /\ t[i - 1] = s[i - 1] /\ t # <<>>
    BY <1>1, <1>3 DEF Streams
  <2> HIDE DEF t
  <2>2. Cursor(t) = [revision |-> s[i - 1].result, hash |-> s[i - 1].hash]
    BY <2>1 DEF Cursor
  <2>3. QED
    BY <1>3, <2>2 DEF t
<1>4. QED
  BY <1>2, <1>3

\* A stream that verifies counts its events from one.
LEMMA VerifiedCounts ==
  ASSUME NEW s \in Streams, verifyEventStream(s)
  PROVE  \A i \in 1 .. Len(s) : s[i] \in Events /\ s[i].result = i /\ s[i].prior = i - 1
<1>1. \A i \in 1 .. Len(s) : s[i] \in Events
  BY StreamFacts DEF verifyEventStream, parseEventLines
<1>2. Len(s) \in Nat
  BY StreamFacts
<1>3. \A i \in 1 .. Len(s) : /\ s[i].prior = Cursor(SubSeq(s, 1, i - 1)).revision
                             /\ s[i].result = Cursor(SubSeq(s, 1, i - 1)).revision + 1
  BY DEF verifyEventStream, FollowsExactly
<1>4. ASSUME NEW i \in 1 .. Len(s)
      PROVE  Cursor(SubSeq(s, 1, i - 1)).revision = IF i = 1 THEN 0 ELSE s[i - 1].result
  <2>1. CASE i = 1
    BY <2>1, CursorBefore, GenesisCursor
  <2>2. CASE i # 1
    <3>1. Cursor(SubSeq(s, 1, i - 1)) = [revision |-> s[i - 1].result, hash |-> s[i - 1].hash]
      BY <2>2, CursorBefore
    <3>2. QED
      BY <2>2, <3>1
  <2>3. QED
    BY <2>1, <2>2
<1> DEFINE Bad == {i \in 1 .. Len(s) : s[i].result # i}
<1>5. Bad = {}
  <2>1. SUFFICES ASSUME Bad # {} PROVE FALSE
    OBVIOUS
  <2>2. Bad \subseteq Nat
    OBVIOUS
  <2>3. PICK i \in Bad : \A j \in Bad : i <= j
    <3> HIDE DEF Bad
    <3>1. QED
      BY <2>1, <2>2, LeastNat
  <2>4. i \in 1 .. Len(s) /\ s[i].result # i
    OBVIOUS
  <2>5. CASE i = 1
    BY <1>3, <1>4, <2>4, <2>5
  <2>6. CASE i # 1
    <3>1. i - 1 \in 1 .. Len(s) /\ ~(i <= i - 1)
      BY <1>2, <2>4, <2>6
    <3>2. i - 1 \notin Bad
      BY <2>3, <3>1
    <3>3. s[i - 1].result = i - 1
      BY <3>1, <3>2
    <3>4. s[i].result = s[i - 1].result + 1
      BY <1>3, <1>4, <2>4, <2>6
    <3>5. QED
      BY <2>4, <3>3, <3>4
  <2>7. QED
    BY <2>5, <2>6
<1>6. ASSUME NEW i \in 1 .. Len(s) PROVE s[i].result = i /\ s[i].prior = i - 1
  <2>1. s[i].result = i
    BY <1>5
  <2>2. s[i].prior \in Nat /\ s[i].result = s[i].prior + 1
    BY <1>1, <1>3, EventFields
  <2>3. QED
    BY <2>1, <2>2
<1>7. QED
  BY <1>1, <1>6

\* A stream that verifies is one nobody tampered with.
LEMMA VerifiedIsGenuine ==
  ASSUME NEW s \in Streams, verifyEventStream(s)
  PROVE  Genuine(s) /\ Len(s) <= MaxCount
<1>1. Len(s) <= MaxCount /\ Len(s) \in Nat /\ s # Missing
  BY StreamFacts DEF verifyEventStream, parseEventLines
<1>2. ASSUME NEW i \in 1 .. Len(s)
      PROVE  s[i] # Garbled /\ s[i] = sealEvent([body |-> s[i].body, prior |-> i - 1],
                                                IF i = 1 THEN Genesis
                                                ELSE [revision |-> i - 1, hash |-> s[i - 1].hash])
  <2> DEFINE cursor == IF i = 1 THEN Genesis ELSE [revision |-> i - 1, hash |-> s[i - 1].hash]
             body == s[i].body
             prior == i - 1
             e == sealEvent([body |-> body, prior |-> prior], cursor)
  <2>1. s[i] \in Events /\ s[i].result = i /\ s[i].prior = i - 1
    BY VerifiedCounts
  <2>2. i # 1 => i - 1 \in 1 .. Len(s) /\ s[i - 1] \in Events /\ s[i - 1].result = i - 1
    BY <1>1, VerifiedCounts
  <2>3. cursor = Cursor(SubSeq(s, 1, i - 1))
    BY <2>2, CursorBefore
  <2>4. cursor \in Cursors
    <3>1. CASE i = 1
      BY <3>1, GenesisCursor
    <3>2. CASE i # 1
      <4> DEFINE hash == s[i - 1].hash
      <4>1. hash \in Hashes /\ i - 1 \in Nat
        BY <2>2, <3>2, EventFields
      <4>2. cursor = [revision |-> i - 1, hash |-> hash]
        BY <3>2
      <4> HIDE DEF hash
      <4>3. QED
        BY <4>1, <4>2 DEF Cursors
    <3>3. QED
      BY <3>1, <3>2
  <2>5. s[i].prev = cursor.hash /\ s[i].hash = Append(s[i].prev, <<s[i].prior, s[i].result, s[i].body>>)
    BY <2>3 DEF verifyEventStream, FollowsExactly, Digest
  <2>6. body \in Drafts /\ prior \in Nat
    BY <2>1, EventFields
  <2>7. prior + 1 = i
    OBVIOUS
  <2> HIDE DEF cursor, body, prior
  <2>8. /\ e \in Events /\ e.prior = prior /\ e.result = prior + 1 /\ e.prev = cursor.hash
        /\ e.body = body /\ e.hash = Append(cursor.hash, <<prior, prior + 1, body>>)
    BY <2>4, <2>6, SealedEvent
  <2> HIDE DEF e
  <2>9. s[i] = e
    BY <2>1, <2>5, <2>7, <2>8, EventsEqual DEF body, prior
  <2>10. QED
    BY <2>1, <2>9, ContentsAssumption DEF e, cursor, body, prior
<1>3. QED
  BY <1>1, <1>2 DEF Genuine


\* The same of a genuine stream.
LEMMA GenuineEvents ==
  ASSUME NEW s \in Streams, Genuine(s), NEW i \in 1 .. Len(s)
  PROVE  s[i] \in Events /\ s[i].result = i /\ s[i].prior = i - 1
<1> DEFINE cursor == IF i = 1 THEN Genesis ELSE [revision |-> i - 1, hash |-> s[i - 1].hash]
           body == s[i].body
           prior == i - 1
<1>1. \A j \in 1 .. Len(s) : s[j] \in Events
  BY StreamFacts DEF Genuine
<1>2. Len(s) \in Nat
  BY StreamFacts
<1>3. body \in Drafts /\ prior \in Nat /\ prior + 1 = i
  BY <1>1, <1>2, EventFields
<1>4. cursor \in Cursors
  <2>1. CASE i = 1
    BY <2>1, GenesisCursor
  <2>2. CASE i # 1
    <3> DEFINE hash == s[i - 1].hash
    <3>1. i - 1 \in 1 .. Len(s)
      BY <1>2, <2>2
    <3>2. hash \in Hashes /\ i - 1 \in Nat
      BY <1>1, <3>1, EventFields
    <3>3. cursor = [revision |-> i - 1, hash |-> hash]
      BY <2>2
    <3> HIDE DEF hash
    <3>4. QED
      BY <3>2, <3>3 DEF Cursors
  <2>3. QED
    BY <2>1, <2>2
<1>5. s[i] = sealEvent([body |-> body, prior |-> prior], cursor)
  BY DEF Genuine
<1> HIDE DEF cursor, body, prior
<1>6. s[i].prior = prior /\ s[i].result = prior + 1
  BY <1>3, <1>4, <1>5, SealedEvent
<1>7. QED
  BY <1>1, <1>3, <1>6 DEF prior

\* The replay of a stream of events is a snapshot.
LEMMA ReplaySnapshot ==
  ASSUME NEW s \in Streams, s # <<>>, \A i \in 1 .. Len(s) : s[i] \in Events, NEW l \in Lineage
  PROVE  /\ replayEventStream(s, l) \in Snapshots
         /\ replayEventStream(s, l).lineage = l /\ replayEventStream(s, l).cursor = Cursor(s)
<1> DEFINE policy == s[Len(s)].body.policy
           state == [i \in 1 .. Len(s) |-> s[i].body.reason]
           cursor == Cursor(s)
           r == replayEventStream(s, l)
<1>1. Len(s) \in Nat /\ Len(s) \in 1 .. Len(s)
  BY StreamFacts
<1>2. cursor \in Cursors
  BY <1>1, CursorOf
<1>3. \A i \in 1 .. Len(s) : s[i].body \in Drafts
  BY EventFields
<1>4. policy \in {b.policy : b \in Drafts}
  BY <1>1, <1>3
<1>5. state \in Seq({b.reason : b \in Drafts})
  <2>1. \A i \in 1 .. Len(s) : s[i].body.reason \in {b.reason : b \in Drafts}
    BY <1>3
  <2>2. QED
    BY <1>1, <2>1
<1>6. r = [cursor |-> cursor, policy |-> policy, lineage |-> l, state |-> state]
  BY DEF replayEventStream
<1> HIDE DEF policy, state, cursor, r
<1>7. r \in Snapshots
  BY <1>2, <1>4, <1>5, <1>6 DEF Snapshots, Cursors
<1>8. r.lineage = l /\ r.cursor = cursor
  BY <1>6
<1>9. QED
  BY <1>7, <1>8 DEF r, cursor

\* A stream whose lines are readable or not, and as many as n.
LineOK(x) ==
    x = Garbled \/ (x.prior \in 0 .. MaxCount /\ x.result = x.prior + 1 /\ x.body \in Drafts)

LinesOK(s, n) == Len(s) <= n /\ \A i \in 1 .. Len(s) : LineOK(s[i])

LEMMA GenuineLines ==
  ASSUME NEW s \in Streams, Genuine(s), Len(s) <= MaxCount, NEW n \in Nat, MaxCount <= n
  PROVE  LinesOK(s, n)
<1>1. Len(s) \in Nat /\ MaxCount \in Nat
  BY StreamFacts, ChainAssumption
<1>2. ASSUME NEW i \in 1 .. Len(s)
      PROVE  s[i].prior \in 0 .. MaxCount /\ s[i].result = s[i].prior + 1 /\ s[i].body \in Drafts
  BY <1>1, GenuineEvents, EventFields
<1>3. QED
  BY <1>1, <1>2 DEF LinesOK, LineOK

-----------------------------------------------------------------------------
(* The operations of an append *)

LEMMA DraftFields ==
  ASSUME NEW d \in DraftRecords
  PROVE  d.body \in Drafts /\ d.prior \in Nat /\ d = [body |-> d.body, prior |-> d.prior]
  BY DEF DraftRecords

\* What an append expected, as the two ways to it leave it.
Prior(before, shot, prior, l) ==
    \/ before = Missing /\ shot = Missing /\ prior = <<>>
    \/ before = prior /\ Readable(prior) /\ shot = replayEventStream(prior, l)

LEMMA ReadableEvents ==
  ASSUME NEW s \in Streams, Readable(s)
  PROVE  s # <<>> /\ verifyEventStream(s) /\ \A i \in 1 .. Len(s) : s[i] \in Events
<1>1. verifyEventStream(s) /\ s # <<>>
  BY DEF Readable, Replayable
<1>2. QED
  BY <1>1, VerifiedCounts

LEMMA OpFields ==
  ASSUME NEW f \in File, NEW before \in Contents, NEW after \in Contents, NEW o, o = Op(f, before, after)
  PROVE  o \in OpRecords /\ o.file = f /\ o.expected = before /\ o.result = after
  BY DEF Op, OpRecords

LEMMA PreparedSound ==
  ASSUME NEW prior \in Streams, NEW before \in EventsFile, NEW shot \in SnapshotFile, NEW l \in Lineage,
         NEW draft \in DraftRecords, Prior(before, shot, prior, l),
         NEW event, event = sealEvent(draft, Cursor(prior)),
         Readable(Append(prior, event)),
         NEW ops, ops = <<Op("events", before, Append(prior, event)),
                          Op("snapshot", shot, replayEventStream(Append(prior, event), l))>>
  PROVE  ops \in Seq(OpRecords) /\ AppendOps(ops)
<1> DEFINE extended == Append(prior, event)
           first == Op("events", before, extended)
           after == replayEventStream(extended, l)
           second == Op("snapshot", shot, after)
<1>1. Cursor(prior) \in Cursors
  <2>1. CASE prior = <<>>
    BY <2>1, GenesisCursor
  <2>2. CASE prior # <<>>
    <3>1. Readable(prior)
      BY <2>2 DEF Prior
    <3>2. Len(prior) \in 1 .. Len(prior)
      BY <2>2, StreamFacts
    <3>3. prior[Len(prior)] \in Events
      BY <3>1, <3>2, ReadableEvents
    <3>4. QED
      BY <2>2, <3>3, CursorOf
  <2>3. QED
    BY <2>1, <2>2
<1>2. event \in Events
  <2> DEFINE body == draft.body
             n == draft.prior
             cursor == Cursor(prior)
  <2>1. body \in Drafts /\ n \in Nat /\ draft = [body |-> body, prior |-> n] /\ cursor \in Cursors
    BY <1>1, DraftFields
  <2>2. event = sealEvent([body |-> body, prior |-> n], cursor)
    BY <2>1
  <2> HIDE DEF body, n, cursor
  <2>3. QED
    BY <2>1, <2>2, SealedEvent
<1>3. extended \in Streams /\ Len(extended) = Len(prior) + 1 /\ extended[Len(prior) + 1] = event
  BY <1>2 DEF Streams
<1>4. Readable(extended)
  OBVIOUS
<1>5. ops = <<first, second>>
  OBVIOUS
<1>6. extended = Append(prior, extended[Len(extended)])
  BY <1>3
<1> HIDE DEF extended
<1>7. /\ Genuine(extended) /\ Len(extended) <= MaxCount /\ extended # <<>>
      /\ \A i \in 1 .. Len(extended) : extended[i] \in Events
  BY <1>3, <1>4, ReadableEvents, VerifiedIsGenuine
<1>8. after \in Snapshots
  BY <1>3, <1>7, ReplaySnapshot
<1>9. "events" \in File /\ "snapshot" \in File /\ before \in Contents /\ extended \in Contents
      /\ shot \in Contents /\ after \in Contents
  BY <1>3, <1>8 DEF File, Contents, EventsFile, SnapshotFile
<1>10. first \in OpRecords /\ first.file = "events" /\ first.expected = before /\ first.result = extended
  BY <1>9, OpFields
<1>11. second \in OpRecords /\ second.file = "snapshot" /\ second.expected = shot /\ second.result = after
  BY <1>9, OpFields
<1>12. Before(first) = prior
  <2>1. CASE before = Missing
    BY <1>10, <2>1, StreamFacts DEF Before, Prior
  <2>2. CASE before # Missing
    BY <1>10, <2>2 DEF Before, Prior
  <2>3. QED
    BY <2>1, <2>2
<1>13. shot = IF prior = <<>> THEN Missing ELSE replayEventStream(prior, l)
  BY ReadableEvents DEF Prior
<1> HIDE DEF first, second
<1>14. ops \in Seq(OpRecords) /\ Len(ops) = 2 /\ ops[1] = first /\ ops[2] = second
  BY <1>5, <1>10, <1>11
<1>15. \E m \in Lineage : /\ ops[2].result = replayEventStream(ops[1].result, m)
                          /\ ops[2].expected = IF Before(ops[1]) = <<>> THEN Missing
                                               ELSE replayEventStream(Before(ops[1]), m)
  BY <1>10, <1>11, <1>12, <1>13, <1>14 DEF after
<1>16. QED
  BY <1>3, <1>6, <1>7, <1>10, <1>11, <1>12, <1>14, <1>15 DEF AppendOps

\* What ExactPrefix says of one transaction.
LEMMA AppendExact ==
  ASSUME NEW ops \in Seq(OpRecords), AppendOps(ops)
  PROVE  LET prior == IF ops[1].expected = Missing THEN <<>> ELSE ops[1].expected
         IN  /\ Genuine(ops[1].result)
             /\ Len(ops[1].result) = Len(prior) + 1
             /\ SubSeq(ops[1].result, 1, Len(prior)) = prior
             /\ ops[2].result.cursor = Cursor(ops[1].result)
             /\ IF prior = <<>> THEN ops[2].expected = Missing
                ELSE ops[2].expected = replayEventStream(prior, ops[2].result.lineage)
<1> DEFINE prior == Before(ops[1])
           stream == ops[1].result
           event == stream[Len(stream)]
<1>1. /\ prior \in Streams /\ stream \in Streams /\ stream = Append(prior, event) /\ Genuine(stream)
  BY DEF AppendOps
<1>2. Len(stream) = Len(prior) + 1 /\ SubSeq(stream, 1, Len(prior)) = prior
  <2> HIDE DEF prior, stream, event
  <2>1. Len(prior) \in Nat /\ prior \in Seq(Events \cup {Garbled}) /\ stream \in Seq(Events \cup {Garbled})
    BY <1>1, StreamFacts DEF Streams
  <2>2. Len(stream) = Len(prior) + 1 /\ \A i \in 1 .. Len(prior) : stream[i] = prior[i]
    BY <1>1, <2>1
  <2> DEFINE cut == SubSeq(stream, 1, Len(prior))
  <2>3. cut \in Seq(Events \cup {Garbled}) /\ Len(cut) = Len(prior)
    BY <2>1, <2>2
  <2>4. \A i \in 1 .. Len(prior) : cut[i] = stream[i]
    BY <2>1, <2>2
  <2> HIDE DEF cut
  <2>5. cut = prior
    BY <2>1, <2>2, <2>3, <2>4
  <2>6. QED
    BY <2>2, <2>5 DEF cut
<1>3. PICK l \in Lineage : /\ ops[2].result = replayEventStream(stream, l)
                           /\ ops[2].expected = IF prior = <<>> THEN Missing ELSE replayEventStream(prior, l)
  BY DEF AppendOps
<1>4. stream # <<>>
  BY <1>1, <1>2, StreamFacts
<1>5. ops[2].result.lineage = l /\ ops[2].result.cursor = Cursor(stream)
  BY <1>1, <1>3, <1>4, GenuineEvents, ReplaySnapshot
<1>6. prior = IF ops[1].expected = Missing THEN <<>> ELSE ops[1].expected
  BY DEF Before
<1> HIDE DEF prior
<1>7. QED
  BY <1>1, <1>2, <1>3, <1>5, <1>6

-----------------------------------------------------------------------------
(* Hands *)

LEMMA LineFields ==
  ASSUME NEW e \in Events, NEW b \in Drafts, NEW f, f = [e EXCEPT !.body = b]
  PROVE  f \in Events /\ f.prior = e.prior /\ f.result = e.result /\ f.body = b
<1>1. f \in Events
  BY DEF Events
<1>2. QED
  BY <1>1 DEF Events

\* An edit changes a line, and adds one at most.
LEMMA EditedLines ==
  ASSUME NEW s \in Streams, NEW n \in Nat, LinesOK(s, n), NEW t \in EditedEvents(s)
  PROVE  t = Missing \/ (t \in Streams /\ LinesOK(t, n + 1))
<1>1. /\ Len(s) \in Nat /\ Len(s) <= n /\ s \in Seq(Events \cup {Garbled})
      /\ \A i \in 1 .. Len(s) : s[i] \in Events \cup {Garbled} /\ LineOK(s[i])
  BY StreamFacts DEF LinesOK, Streams
<1>2. SUFFICES ASSUME t # Missing
               PROVE  /\ t \in Seq(Events \cup {Garbled}) /\ Len(t) <= n + 1
                      /\ \A i \in 1 .. Len(t) : LineOK(t[i])
  BY DEF LinesOK, Streams
<1>3. ASSUME NEW i \in 1 .. Len(s), NEW x \in Events \cup {Garbled}, LineOK(x), t = [s EXCEPT ![i] = x]
      PROVE  /\ t \in Seq(Events \cup {Garbled}) /\ Len(t) <= n + 1
             /\ \A j \in 1 .. Len(t) : LineOK(t[j])
  <2>1. t \in Seq(Events \cup {Garbled}) /\ Len(t) = Len(s)
    BY <1>1, <1>3
  <2>2. \A j \in 1 .. Len(s) : t[j] = IF j = i THEN x ELSE s[j]
    BY <1>1, <1>3
  <2>3. QED
    BY <1>1, <1>3, <2>1, <2>2
<1>4. ASSUME NEW a \in Seq(Events \cup {Garbled}), NEW b \in Seq(Events \cup {Garbled}),
             Len(a) + Len(b) <= Len(s) + 1, \A i \in 1 .. Len(a) : LineOK(a[i]),
             \A i \in 1 .. Len(b) : LineOK(b[i]), t = a \o b
      PROVE  /\ t \in Seq(Events \cup {Garbled}) /\ Len(t) <= n + 1
             /\ \A j \in 1 .. Len(t) : LineOK(t[j])
  <2>1. Len(a) \in Nat /\ Len(b) \in Nat
    OBVIOUS
  <2>2. t \in Seq(Events \cup {Garbled}) /\ Len(t) = Len(a) + Len(b)
    BY <1>4
  <2>3. ASSUME NEW j \in 1 .. Len(t) PROVE LineOK(t[j])
    <3>1. CASE j <= Len(a)
      <4>1. t[j] = a[j] /\ j \in 1 .. Len(a)
        BY <1>4, <2>1, <2>2, <3>1
      <4>2. QED
        BY <1>4, <4>1
    <3>2. CASE ~(j <= Len(a))
      <4>1. t[j] = b[j - Len(a)] /\ j - Len(a) \in 1 .. Len(b)
        BY <1>4, <2>1, <2>2, <3>2
      <4>2. QED
        BY <1>4, <4>1
    <3>3. QED
      BY <3>1, <3>2
  <2>4. QED
    BY <1>1, <1>4, <2>1, <2>2, <2>3
<1>5. ASSUME NEW i \in 1 .. Len(s) + 1, NEW j \in 0 .. Len(s), i <= j + 1
      PROVE  LET cut == SubSeq(s, i, j)
             IN  /\ cut \in Seq(Events \cup {Garbled}) /\ Len(cut) = j - i + 1
                 /\ \A k \in 1 .. Len(cut) : LineOK(cut[k])
  <2> DEFINE cut == SubSeq(s, i, j)
  <2>1. cut \in Seq(Events \cup {Garbled}) /\ Len(cut) = j - i + 1
    BY <1>1, <1>5
  <2>2. ASSUME NEW k \in 1 .. Len(cut) PROVE LineOK(cut[k])
    <3>1. i <= j /\ k \in 1 .. (j - i + 1)
      BY <1>1, <2>1
    <3>2. cut[k] = s[i + k - 1] /\ i + k - 1 \in 1 .. Len(s)
      BY <1>1, <3>1
    <3>3. QED
      BY <1>1, <3>2
  <2>3. QED
    BY <2>1, <2>2
<1>6. CASE \E i \in 1 .. Len(s) : t = [s EXCEPT ![i] = Garbled]
  BY <1>3, <1>6 DEF LineOK
<1>7. CASE \E i \in 1 .. Len(s) : t = SubSeq(s, 1, i - 1) \o SubSeq(s, i + 1, Len(s))
  <2>1. PICK i \in 1 .. Len(s) : t = SubSeq(s, 1, i - 1) \o SubSeq(s, i + 1, Len(s))
    BY <1>7
  <2> DEFINE a == SubSeq(s, 1, i - 1)
             b == SubSeq(s, i + 1, Len(s))
  <2>2. /\ 1 \in 1 .. Len(s) + 1 /\ i - 1 \in 0 .. Len(s) /\ i + 1 \in 1 .. Len(s) + 1
        /\ Len(s) \in 0 .. Len(s) /\ 1 <= i - 1 + 1 /\ i + 1 <= Len(s) + 1
    BY <1>1
  <2>3. /\ a \in Seq(Events \cup {Garbled}) /\ Len(a) = i - 1 - 1 + 1
        /\ \A k \in 1 .. Len(a) : LineOK(a[k])
    BY <1>5, <2>2
  <2>4. /\ b \in Seq(Events \cup {Garbled}) /\ Len(b) = Len(s) - (i + 1) + 1
        /\ \A k \in 1 .. Len(b) : LineOK(b[k])
    BY <1>5, <2>2
  <2>5. Len(a) + Len(b) <= Len(s) + 1
    <3>1. Len(a) \in Nat /\ Len(b) \in Nat
      BY <2>3, <2>4
    <3> HIDE DEF a, b
    <3>2. QED
      BY <1>1, <2>3, <2>4, <3>1
  <2> HIDE DEF a, b
  <2>6. t = a \o b
    BY <2>1 DEF a, b
  <2>7. QED
    BY <1>4, <2>3, <2>4, <2>5, <2>6
<1>8. CASE \E i \in 1 .. Len(s) : t = SubSeq(s, 1, i) \o SubSeq(s, i, Len(s))
  <2>1. PICK i \in 1 .. Len(s) : t = SubSeq(s, 1, i) \o SubSeq(s, i, Len(s))
    BY <1>8
  <2> DEFINE a == SubSeq(s, 1, i)
             b == SubSeq(s, i, Len(s))
  <2>2. /\ 1 \in 1 .. Len(s) + 1 /\ i \in 0 .. Len(s) /\ i \in 1 .. Len(s) + 1 /\ Len(s) \in 0 .. Len(s)
        /\ 1 <= i + 1 /\ i <= Len(s) + 1
    BY <1>1
  <2>3. /\ a \in Seq(Events \cup {Garbled}) /\ Len(a) = i - 1 + 1
        /\ \A k \in 1 .. Len(a) : LineOK(a[k])
    BY <1>5, <2>2
  <2>4. /\ b \in Seq(Events \cup {Garbled}) /\ Len(b) = Len(s) - i + 1
        /\ \A k \in 1 .. Len(b) : LineOK(b[k])
    BY <1>5, <2>2
  <2>5. Len(a) + Len(b) <= Len(s) + 1
    <3>1. Len(a) \in Nat /\ Len(b) \in Nat
      BY <2>3, <2>4
    <3> HIDE DEF a, b
    <3>2. QED
      BY <1>1, <2>3, <2>4, <3>1
  <2> HIDE DEF a, b
  <2>6. t = a \o b
    BY <2>1 DEF a, b
  <2>7. QED
    BY <1>4, <2>3, <2>4, <2>5, <2>6
<1>9. CASE \E i \in 1 .. Len(s) : s[i] # Garbled /\ \E b \in Drafts : t = [s EXCEPT ![i].body = b]
  <2>1. PICK i \in 1 .. Len(s), b \in Drafts : s[i] # Garbled /\ t = [s EXCEPT ![i].body = b]
    BY <1>9
  <2> DEFINE e == s[i]
             f == [e EXCEPT !.body = b]
  <2>2. e \in Events /\ LineOK(e) /\ e # Garbled
    BY <1>1, <2>1
  <2>3. t = [s EXCEPT ![i] = f]
    BY <2>1
  <2> HIDE DEF e
  <2>4. f \in Events /\ f.prior = e.prior /\ f.result = e.result /\ f.body = b
    BY <2>2, LineFields
  <2> HIDE DEF f
  <2>5. LineOK(f)
    BY <2>2, <2>4 DEF LineOK
  <2>6. QED
    BY <1>3, <2>3, <2>4, <2>5
<1>10. QED
  BY <1>2, <1>6, <1>7, <1>8, <1>9 DEF EditedEvents

LEMMA EditedShots ==
  ASSUME NEW d \in Snapshots \cup {Garbled}, NEW e \in EditedSnapshots(d)
  PROVE  e \in SnapshotFile
<1>1. CASE e \in {Missing, Garbled}
  BY <1>1 DEF SnapshotFile
<1>2. CASE d # Garbled /\ e = [d EXCEPT !.state = <<>>]
  <2>1. <<>> \in Seq({b.reason : b \in Drafts})
    OBVIOUS
  <2>2. e \in Snapshots
    BY <1>2, <2>1 DEF Snapshots
  <2>3. QED
    BY <2>2 DEF SnapshotFile
<1>3. CASE d # Garbled /\ \E l \in Lineage : e = [d EXCEPT !.lineage = l]
  <2>1. PICK l \in Lineage : e = [d EXCEPT !.lineage = l]
    BY <1>3
  <2>2. e \in Snapshots
    BY <1>3, <2>1 DEF Snapshots
  <2>3. QED
    BY <2>2 DEF SnapshotFile
<1>4. QED
  BY <1>1, <1>2, <1>3 DEF EditedSnapshots

-----------------------------------------------------------------------------
(* Steps of one command *)

LEMMA FileNames == File = {"events", "snapshot"} /\ "events" \in File /\ "snapshot" \in File
  BY DEF File

LEMMA IdleCommand ==
  /\ Idle \in ProcRecords /\ Idle.pc = "idle" /\ CommandOK(Idle) /\ Held(Idle)
  /\ \A t : Placed(Idle, t)
<1> DEFINE nothing == [f \in File |-> Missing]
<1>1. /\ nothing \in [File -> Contents] /\ nothing["events"] = Missing /\ nothing["snapshot"] = Missing
  BY FileNames DEF Contents, EventsFile
<1>2. <<>> \in Seq(OpRecords) /\ Len(<<>>) = 0 /\ OpsSound(<<>>)
  BY DEF OpsSound, RepairOnly
<1>3. {} \subseteq Writes /\ Missing \in EventsFile /\ Missing \in SnapshotFile /\ "idle" \in Places
  BY DEF EventsFile, SnapshotFile, Places
<1>4. Idle = [pc |-> "idle", kind |-> "append", draft |-> Missing, lineage |-> Missing,
              seen |-> nothing, text |-> Missing, plan |-> {}, ops |-> <<>>]
  BY DEF Idle
<1> HIDE DEF nothing
<1>5. Idle \in ProcRecords
  BY <1>1, <1>2, <1>3, <1>4 DEF ProcRecords
<1>6. Idle.pc = "idle" /\ Idle.seen = nothing /\ Idle.ops = <<>>
  BY <1>4
<1>7. CommandOK(Idle)
  BY <1>1, <1>2, <1>3, <1>6 DEF CommandOK
<1>8. Held(Idle) /\ \A t : Placed(Idle, t)
  BY <1>6 DEF Held, Placed, Preparing, Repairing, Driving
<1>9. QED
  BY <1>5, <1>6, <1>7, <1>8

\* The command of p is replaced, and no other.
LEMMA CommandKeeps ==
  ASSUME ProcTyped, Sound, NEW p \in Proc, NEW c \in ProcRecords, CommandOK(c), Held(c), Placed(c, tx'[p]),
         proc' = [proc EXCEPT ![p] = c], \A q \in Proc \ {p} : tx'[q] = tx[q]
  PROVE  /\ ProcTyped' /\ Sound'
         /\ \A q \in Proc : proc'[q] = IF q = p THEN c ELSE proc[q]
<1>1. proc \in [Proc -> ProcRecords] /\ \A q \in Proc : CommandOK(proc[q])
  BY DEF ProcTyped
<1>2. proc' \in [Proc -> ProcRecords] /\ \A q \in Proc : proc'[q] = IF q = p THEN c ELSE proc[q]
  BY <1>1
<1>3. ProcTyped'
  BY <1>1, <1>2 DEF ProcTyped
<1>4. ASSUME NEW q \in Proc PROVE Held(proc'[q]) /\ Placed(proc'[q], tx'[q])
  <2>1. CASE q = p
    BY <1>2, <2>1
  <2>2. CASE q # p
    BY <1>2, <2>2 DEF Sound
  <2>3. QED
    BY <2>1, <2>2
<1>5. QED
  BY <1>2, <1>3, <1>4 DEF Sound

Same == files' = files /\ accepted' = accepted /\ clash' = clash /\ repaired' = repaired

LEMMA EditedSame ==
  ASSUME budget'.edits = budget.edits
  PROVE  Edited' = Edited /\ \A s : StreamOK(s)' <=> StreamOK(s)
  BY DEF Edited, StreamOK

\* A step that leaves the files and the transactions alone.
LEMMA CommandStep ==
  ASSUME Inv, NEW p \in Proc, NEW c \in ProcRecords, CommandOK(c), Held(c), Placed(c, tx[p]),
         proc' = [proc EXCEPT ![p] = c], c.pc = "apply" => ExpectedStands(NextOp(p)),
         UNCHANGED store, RestTyped', budget'.edits = budget.edits
  PROVE  Inv'
<1>1. Same /\ tx' = tx
  BY DEF store, Same
<1>2. ProcTyped' /\ Sound' /\ \A q \in Proc : proc'[q] = IF q = p THEN c ELSE proc[q]
  BY <1>1, CommandKeeps DEF Inv, Typed
<1>3. FilesTyped' /\ TxTyped'
  BY <1>1, EditedSame DEF Inv, Typed, FilesTyped, TxTyped, Same, StreamOK
<1>4. Edited' = Edited /\ Quiet' = Quiet
  BY <1>1, EditedSame DEF Quiet, Same
<1>5. Alone' /\ NothingLost'
  BY <1>1, <1>4 DEF Inv, Alone, NothingLost, Same
<1>6. Agree' = Agree
  BY <1>1 DEF Agree, Same
<1>7. Paired'
  BY <1>1, <1>4, <1>6 DEF Inv, Paired, Same
<1>8. Stands'
  <2>1. ASSUME NEW q \in Proc PROVE ExpectedStands(NextOp(q))' = ExpectedStands(NextOp(q))
    BY <1>1 DEF ExpectedStands, sameFingerprint, NextOp, Same
  <2>2. ASSUME Quiet', NEW q \in Proc, proc'[q].pc = "apply" PROVE ExpectedStands(NextOp(q))
    <3>1. CASE q = p
      BY <1>2, <2>2, <3>1
    <3>2. CASE q # p
      BY <1>2, <1>4, <2>2, <3>2 DEF Inv, Stands
    <3>3. QED
      BY <3>1, <3>2
  <2>3. QED
    BY <2>1, <2>2 DEF Stands
<1>9. QED
  BY <1>2, <1>3, <1>5, <1>7, <1>8 DEF Inv, Typed

\* The answer of one command, and the rest.
LEMMA RestKeeps ==
  ASSUME RestTyped, UNCHANGED <<work, accepted, clash, repaired, budget>>,
         \/ answer' = answer
         \/ \E q \in Proc, code \in Answers : answer' = [answer EXCEPT ![q] = code]
  PROVE  RestTyped'
<1>1. answer' \in [Proc -> Answers]
  BY DEF RestTyped
<1>2. QED
  BY <1>1 DEF RestTyped

LEMMA ReturnStep ==
  ASSUME Inv, NEW p \in Proc, NEW code \in Answers, Return(p, code), UNCHANGED <<store, work, budget>>
  PROVE  Inv'
<1>1. proc' = [proc EXCEPT ![p] = Idle] /\ answer' = [answer EXCEPT ![p] = code]
  BY DEF Return
<1>2. UNCHANGED <<work, accepted, clash, repaired, budget>>
  BY DEF store
<1>3. RestTyped'
  BY <1>1, <1>2, RestKeeps DEF Inv, Typed
<1>4. QED
  BY <1>1, <1>3, IdleCommand, CommandStep

LEMMA MovedFields ==
  ASSUME NEW c \in ProcRecords, NEW pc \in Places, NEW n, n = [c EXCEPT !.pc = pc]
  PROVE  /\ n \in ProcRecords /\ n.pc = pc /\ n.kind = c.kind /\ n.draft = c.draft /\ n.lineage = c.lineage
         /\ n.seen = c.seen /\ n.text = c.text /\ n.plan = c.plan /\ n.ops = c.ops
<1>1. n \in ProcRecords
  BY DEF ProcRecords
<1>2. QED
  BY <1>1 DEF ProcRecords

\* What the invariant knows of the command of p.
LEMMA CommandFacts ==
  ASSUME Inv, NEW p \in Proc
  PROVE  /\ proc[p] \in ProcRecords /\ CommandOK(proc[p]) /\ Held(proc[p]) /\ Placed(proc[p], tx[p])
         /\ tx[p] \in TxRecords /\ TxOK(tx[p])
         /\ proc[p].kind \in {"append", "repair"} /\ proc[p].seen \in [File -> Contents]
         /\ proc[p].plan \subseteq Writes /\ proc[p].ops \in Seq(OpRecords) /\ proc[p].text \in EventsFile
<1>1. proc[p] \in ProcRecords /\ CommandOK(proc[p]) /\ Held(proc[p]) /\ Placed(proc[p], tx[p])
  BY DEF Inv, Typed, ProcTyped, Sound
<1>2. tx[p] \in TxRecords /\ TxOK(tx[p])
  BY DEF Inv, Typed, TxTyped
<1>3. QED
  BY <1>1, <1>2 DEF ProcRecords

\* A command goes on, with the same in hand.
LEMMA GotoStep ==
  ASSUME Inv, NEW p \in Proc, NEW pc \in Places, Goto(p, pc), UNCHANGED <<store, work, budget>>,
         proc[p].pc \notin Driving \cup {"idle"}, pc \notin Driving,
         pc \in Preparing \cup {"fresh", "declare"} => proc[p].kind = "append",
         pc \in Repairing => proc[p].kind = "repair",
         proc[p].kind = "append" /\ pc \in Preparing \cup {"preflight"} =>
             proc[p].draft \in DraftRecords /\ proc[p].lineage \in Lineage,
         proc[p].kind = "repair" /\ pc \in Repairing \cup {"preflight"} => proc[p].plan # {},
         pc = "readEvents" => proc[p].seen["events"] # Missing,
         pc # "readSnapshot"
  PROVE  Inv'
<1> DEFINE c == proc[p]
           n == [c EXCEPT !.pc = pc]
<1>1. proc' = [proc EXCEPT ![p] = n] /\ answer' = answer
  BY DEF Goto
<1>2. c \in ProcRecords /\ CommandOK(c) /\ Placed(c, tx[p])
  BY CommandFacts
<1>3. c.pc \notin Driving \cup {"idle"} /\ tx[p].phase = "none"
  BY <1>2 DEF Placed
<1> HIDE DEF c
<1>4. /\ n \in ProcRecords /\ n.pc = pc /\ n.kind = c.kind /\ n.draft = c.draft /\ n.lineage = c.lineage
      /\ n.seen = c.seen /\ n.text = c.text /\ n.plan = c.plan /\ n.ops = c.ops
  BY <1>2, MovedFields
<1> HIDE DEF n
<1>5. CommandOK(n)
  BY <1>2, <1>4 DEF CommandOK
<1>6. Held(n)
  BY <1>4 DEF Held, c
<1>7. Placed(n, tx[p]) /\ n.pc # "apply"
  BY <1>3, <1>4 DEF Placed, Driving
<1>8. UNCHANGED store /\ budget'.edits = budget.edits /\ UNCHANGED <<work, accepted, clash, repaired, budget>>
  BY DEF store
<1>9. RestTyped'
  BY <1>1, <1>8, RestKeeps DEF Inv, Typed
<1>10. QED
  BY <1>1, <1>4, <1>5, <1>6, <1>7, <1>8, <1>9, CommandStep

LEMMA BeginStep ==
  ASSUME Inv, NEW p \in Proc, Begin(p)
  PROVE  Inv'
<1> DEFINE kind == Head(work[p])
           rest == Tail(work[p])
           n == [Idle EXCEPT !.pc = "observeSnapshot", !.kind = kind]
<1>1. work \in [Proc -> Seq({"append", "repair"})] /\ work[p] # <<>> /\ tx[p].phase = "none"
  BY DEF Inv, Typed, RestTyped, Begin, Incomplete
<1>2. kind \in {"append", "repair"} /\ rest \in Seq({"append", "repair"})
  BY <1>1
<1>3. /\ work' = [work EXCEPT ![p] = rest] /\ proc' = [proc EXCEPT ![p] = n]
      /\ answer' = [answer EXCEPT ![p] = "none"] /\ UNCHANGED <<store, budget>>
  BY DEF Begin
<1> HIDE DEF kind, rest
<1>4. n \in ProcRecords
  BY <1>2, IdleCommand DEF ProcRecords, Places, Observing
<1>5. /\ n.pc = "observeSnapshot" /\ n.seen = Idle.seen /\ n.ops = Idle.ops
  BY <1>2, <1>4, IdleCommand DEF ProcRecords
<1> HIDE DEF n
<1>6. CommandOK(n)
  BY <1>5, IdleCommand DEF CommandOK
<1>7. Held(n) /\ Placed(n, tx[p]) /\ n.pc # "apply"
  BY <1>1, <1>5 DEF Held, Placed, Preparing, Repairing, Driving
<1>8. RestTyped'
  <2>1. work' \in [Proc -> Seq({"append", "repair"})]
    BY <1>1, <1>2, <1>3
  <2>2. answer' \in [Proc -> Answers]
    BY <1>3 DEF Inv, Typed, RestTyped, Answers
  <2>3. QED
    BY <1>3, <2>1, <2>2 DEF Inv, Typed, RestTyped, store
<1>9. QED
  BY <1>3, <1>4, <1>6, <1>7, <1>8, CommandStep DEF store

\* A look at a file.
LEMMA Looked ==
  ASSUME NEW c \in ProcRecords, CommandOK(c), NEW f \in File, NEW content,
         f = "events" => content \in EventsFile, f = "snapshot" => content \in SnapshotFile,
         NEW seen, seen = [c.seen EXCEPT ![f] = content]
  PROVE  seen \in [File -> Contents] /\ seen["events"] \in EventsFile /\ seen["snapshot"] \in SnapshotFile
<1>1. c.seen \in [File -> Contents]
  BY DEF ProcRecords
<1>2. content \in Contents
  BY FileNames DEF Contents
<1>3. seen \in [File -> Contents]
  BY <1>1, <1>2
<1>4. QED
  BY <1>1, <1>3, FileNames DEF CommandOK

LEMMA FileFacts ==
  ASSUME Inv
  PROVE  files \in [File -> Contents] /\ files["events"] \in EventsFile /\ files["snapshot"] \in SnapshotFile
  BY DEF Inv, Typed, FilesTyped

LEMMA ObserveSnapshotStep ==
  ASSUME Inv, NEW p \in Proc, ObserveSnapshot(p)
  PROVE  Inv'
<1> DEFINE c == proc[p]
           content == files["snapshot"]
           pc == IF c.pc = "observeSnapshot" THEN "observeEvents" ELSE "refreshEvents"
           seen == [c.seen EXCEPT !["snapshot"] = content]
           n == [c EXCEPT !.seen = seen, !.pc = pc]
<1>1. c \in ProcRecords /\ CommandOK(c) /\ Held(c) /\ Placed(c, tx[p]) /\ content \in SnapshotFile
  BY CommandFacts, FileFacts
<1>2. c.pc \in {"observeSnapshot", "refreshSnapshot"} /\ pc \in Places
  BY DEF ObserveSnapshot, Places, Observing, Repairing
<1>3. proc' = [proc EXCEPT ![p] = n] /\ UNCHANGED <<store, work, answer, budget>>
  BY DEF ObserveSnapshot
<1>4. tx[p].phase = "none"
  BY <1>1, <1>2 DEF Placed, Driving
<1>5. c.pc = "refreshSnapshot" => c.kind = "repair" /\ c.plan # {}
  BY <1>1 DEF Held, Repairing
<1>6. pc = "refreshEvents" => c.pc = "refreshSnapshot"
  BY <1>2
<1>7. pc \in {"observeEvents", "refreshEvents"}
  OBVIOUS
<1> HIDE DEF c, content, pc
<1>8. /\ n \in ProcRecords /\ n.pc = pc /\ n.kind = c.kind /\ n.plan = c.plan /\ CommandOK(n)
  <2>1. seen \in [File -> Contents] /\ seen["events"] \in EventsFile /\ seen["snapshot"] \in SnapshotFile
    BY <1>1, FileNames, Looked
  <2> HIDE DEF seen
  <2>2. n \in ProcRecords
    BY <1>1, <1>2, <2>1 DEF ProcRecords
  <2>3. /\ n.pc = pc /\ n.kind = c.kind /\ n.draft = c.draft /\ n.lineage = c.lineage
        /\ n.plan = c.plan /\ n.ops = c.ops /\ n.seen = seen
    BY <1>1, <1>2, <2>1, <2>2 DEF ProcRecords
  <2>4. QED
    BY <1>1, <2>1, <2>2, <2>3 DEF CommandOK
<1> HIDE DEF n
<1>9. Held(n) /\ Placed(n, tx[p]) /\ n.pc # "apply"
  BY <1>4, <1>5, <1>6, <1>7, <1>8 DEF Held, Placed, Preparing, Repairing, Driving
<1>10. RestTyped'
  BY <1>3, RestKeeps DEF Inv, Typed, store
<1>11. QED
  BY <1>3, <1>8, <1>9, <1>10, CommandStep

LEMMA InspectStep ==
  ASSUME Inv, NEW p \in Proc, Inspect(p)
  PROVE  Inv'
<1> DEFINE c == proc[p]
           f == IF c.pc = "inspectEvents" THEN "events" ELSE "snapshot"
           content == files[f]
           pc == IF f = "events" THEN "inspectSnapshot" ELSE "inspected"
           seen == [c.seen EXCEPT ![f] = content]
           n == [c EXCEPT !.seen = seen, !.pc = pc]
<1>1. c \in ProcRecords /\ CommandOK(c) /\ Held(c) /\ Placed(c, tx[p])
  BY CommandFacts
<1>2. c.pc \in {"inspectEvents", "inspectSnapshot"} /\ pc \in Places
  BY DEF Inspect, Places, Preparing
<1>3. f \in File /\ (f = "events" => content \in EventsFile) /\ (f = "snapshot" => content \in SnapshotFile)
  BY FileFacts, FileNames
<1>4. proc' = [proc EXCEPT ![p] = n] /\ UNCHANGED <<store, work, answer, budget>>
  BY DEF Inspect
<1>5. tx[p].phase = "none"
  BY <1>1, <1>2 DEF Placed, Driving
<1>6. c.kind = "append" /\ c.draft \in DraftRecords /\ c.lineage \in Lineage
  BY <1>1, <1>2 DEF Held, Preparing
<1>7. pc \in {"inspectSnapshot", "inspected"}
  OBVIOUS
<1> HIDE DEF c, f, content, pc
<1>8. /\ n \in ProcRecords /\ n.pc = pc /\ n.kind = c.kind /\ n.draft = c.draft /\ n.lineage = c.lineage
      /\ CommandOK(n)
  <2>1. seen \in [File -> Contents] /\ seen["events"] \in EventsFile /\ seen["snapshot"] \in SnapshotFile
    BY <1>1, <1>3, Looked
  <2> HIDE DEF seen
  <2>2. n \in ProcRecords
    BY <1>1, <1>2, <2>1 DEF ProcRecords
  <2>3. /\ n.pc = pc /\ n.kind = c.kind /\ n.draft = c.draft /\ n.lineage = c.lineage
        /\ n.plan = c.plan /\ n.ops = c.ops /\ n.seen = seen
    BY <1>1, <1>2, <2>1, <2>2 DEF ProcRecords
  <2>4. QED
    BY <1>1, <2>1, <2>2, <2>3 DEF CommandOK
<1> HIDE DEF n
<1>9. Held(n) /\ Placed(n, tx[p]) /\ n.pc # "apply"
  BY <1>5, <1>6, <1>7, <1>8 DEF Held, Placed, Preparing, Repairing, Driving
<1>10. RestTyped'
  BY <1>4, RestKeeps DEF Inv, Typed, store
<1>11. QED
  BY <1>4, <1>8, <1>9, <1>10, CommandStep

\* What a command may make of two files it read.
LEMMA PresentFacts ==
  ASSUME NEW snapshot \in SnapshotFile, NEW events \in EventsFile, Observed(snapshot, events) = "present"
  PROVE  /\ events \in Streams /\ events # Missing /\ Readable(events)
         /\ snapshot \in Snapshots /\ snapshot.lineage \in Lineage
<1>1. events # Missing /\ snapshot \notin {Missing, Garbled} /\ Readable(events)
  BY DEF Observed
<1>2. events \in Streams /\ snapshot \in Snapshots
  BY <1>1 DEF EventsFile, SnapshotFile
<1>3. QED
  BY <1>1, <1>2 DEF Snapshots

LEMMA DecideAppendStep ==
  ASSUME Inv, NEW p \in Proc, NEW b \in Asks[p], DecideAppend(p, b)
  PROVE  Inv'
<1> DEFINE c == proc[p]
           shot == c.seen["snapshot"]
           events == files["events"]
           prior == IF events = Missing THEN 0 ELSE Cursor(events).revision
           draft == [body |-> b, prior |-> prior]
           lineage == IF events = Missing THEN WorkingLineage ELSE shot.lineage
           n == [c EXCEPT !.draft = draft, !.lineage = lineage, !.pc = "snapshotRequest"]
<1>1. /\ c \in ProcRecords /\ CommandOK(c) /\ Placed(c, tx[p])
      /\ shot \in SnapshotFile /\ events \in EventsFile
  BY CommandFacts, FileFacts DEF CommandOK
<1>2. c.pc = "observeEvents" /\ c.kind = "append" /\ Draftable(p, b)
  BY DEF DecideAppend, At
<1>3. Observed(shot, events) \in {"present", "absent"}
  BY <1>2 DEF Draftable
<1>4. events # Missing => Observed(shot, events) = "present"
  BY <1>3 DEF Observed
<1>5. prior \in Nat /\ lineage \in Lineage
  <2>1. CASE events = Missing
    BY <2>1, StoreAssumption
  <2>2. CASE events # Missing
    <3>1. events \in Streams /\ Readable(events) /\ shot.lineage \in Lineage
      BY <1>1, <1>4, <2>2, PresentFacts
    <3>2. events # <<>> /\ Len(events) \in 1 .. Len(events)
      BY <3>1, ReadableEvents, StreamFacts
    <3>3. events[Len(events)] \in Events
      BY <3>1, <3>2, ReadableEvents
    <3>4. Cursor(events).revision = events[Len(events)].result
      BY <3>1, <3>2, <3>3, CursorOf
    <3>5. events[Len(events)].result \in Nat
      BY <3>3, EventFields
    <3>6. QED
      BY <2>2, <3>1, <3>4, <3>5
  <2>3. QED
    BY <2>1, <2>2
<1>6. b \in Drafts
  BY DEF Drafts
<1>7. proc' = [proc EXCEPT ![p] = n] /\ UNCHANGED <<store, work, answer, budget>>
  BY DEF DecideAppend
<1>8. tx[p].phase = "none"
  BY <1>1, <1>2 DEF Placed, Driving
<1> HIDE DEF c, prior, lineage
<1>9. draft \in DraftRecords
  BY <1>5, <1>6 DEF DraftRecords
<1> HIDE DEF draft
<1>10. /\ n \in ProcRecords /\ n.pc = "snapshotRequest" /\ n.kind = c.kind /\ n.draft = draft
       /\ n.lineage = lineage /\ n.seen = c.seen /\ n.ops = c.ops
  <2>1. n \in ProcRecords
    BY <1>1, <1>5, <1>9 DEF ProcRecords, Places, Preparing
  <2>2. QED
    BY <1>1, <1>5, <1>9, <2>1 DEF ProcRecords
<1> HIDE DEF n
<1>11. CommandOK(n)
  BY <1>1, <1>10 DEF CommandOK
<1>12. Held(n) /\ Placed(n, tx[p]) /\ n.pc # "apply"
  BY <1>2, <1>5, <1>8, <1>9, <1>10 DEF Held, Placed, Preparing, Repairing, Driving
<1>13. RestTyped'
  BY <1>7, RestKeeps DEF Inv, Typed, store
<1>14. QED
  BY <1>7, <1>10, <1>11, <1>12, <1>13, CommandStep

LEMMA RefuseAppendStep ==
  ASSUME Inv, NEW p \in Proc, RefuseAppend(p)
  PROVE  Inv'
<1>1. "state_corrupt" \in Answers /\ "refused" \in Answers
  BY DEF Answers
<1>2. UNCHANGED <<store, work, budget>> /\ (Return(p, "state_corrupt") \/ Return(p, "refused"))
  BY DEF RefuseAppend
<1>3. QED
  BY <1>1, <1>2, ReturnStep

LEMMA SnapshotRequestStep ==
  ASSUME Inv, NEW p \in Proc, SnapshotRequest(p)
  PROVE  Inv'
<1>1. proc[p].pc = "snapshotRequest" /\ UNCHANGED <<store, work, budget>>
  BY DEF SnapshotRequest, At
<1>2. Return(p, "state_corrupt") \/ Goto(p, "preflight")
  BY DEF SnapshotRequest
<1>3. Held(proc[p])
  BY CommandFacts
<1>4. CASE Return(p, "state_corrupt")
  BY <1>1, <1>4, ReturnStep DEF Answers
<1>5. CASE Goto(p, "preflight")
  <2>1. "preflight" \in Places /\ "preflight" \notin Driving \cup Preparing \cup Repairing
    BY DEF Places, Settled, Driving, Preparing, Repairing
  <2>2. /\ proc[p].kind = "append" /\ proc[p].draft \in DraftRecords /\ proc[p].lineage \in Lineage
        /\ proc[p].pc \notin Driving \cup {"idle"}
    BY <1>1, <1>3 DEF Held, Preparing, Driving
  <2>3. QED
    BY <1>1, <1>5, <2>1, <2>2, GotoStep
<1>6. QED
  BY <1>2, <1>4, <1>5

LEMMA PreflightStep ==
  ASSUME Inv, NEW p \in Proc, Preflight(p)
  PROVE  Inv'
<1> DEFINE to == AfterPreflight(p)
<1>1. proc[p].pc \in {"preflight", "preflightApply", "preflightExecute"} /\ UNCHANGED <<store, work, budget>>
  BY DEF Preflight
<1>2. Return(p, "recovery_required") \/ Goto(p, to)
  BY DEF Preflight
<1>3. Held(proc[p]) /\ proc[p].kind \in {"append", "repair"} /\ proc[p].pc \notin Driving \cup {"idle"}
  BY <1>1, CommandFacts DEF Driving
<1>4. CASE Return(p, "recovery_required")
  BY <1>1, <1>4, ReturnStep DEF Answers
<1>5. CASE Goto(p, to)
  <2>1. /\ to \in {"inspectEvents", "preview", "decide", "declare", "mark"}
        /\ to = "inspectEvents" => proc[p].pc = "preflight" /\ proc[p].kind = "append"
        /\ to = "preview" => proc[p].pc = "preflight" /\ proc[p].kind = "repair"
        /\ to = "decide" => proc[p].pc = "preflightApply"
        /\ to = "declare" => proc[p].kind = "append"
    <3>1. CASE proc[p].pc = "preflight"
      BY <1>3, <3>1 DEF AfterPreflight
    <3>2. CASE proc[p].pc = "preflightApply"
      BY <1>3, <3>2 DEF AfterPreflight
    <3>3. CASE proc[p].pc = "preflightExecute"
      BY <1>3, <3>3 DEF AfterPreflight
    <3>4. QED
      BY <1>1, <3>1, <3>2, <3>3
  <2> HIDE DEF to
  <2>2. to \in Places /\ to \notin Driving
    BY <2>1 DEF Places, Preparing, Repairing, Settled, Driving
  <2>3. /\ to \in Preparing \cup {"fresh", "declare"} => proc[p].kind = "append"
        /\ to \in Repairing => proc[p].kind = "repair"
    BY <1>3, <2>1 DEF Held, Preparing, Repairing
  <2>4. /\ proc[p].kind = "append" /\ to \in Preparing \cup {"preflight"} =>
             proc[p].draft \in DraftRecords /\ proc[p].lineage \in Lineage
        /\ proc[p].kind = "repair" /\ to \in Repairing \cup {"preflight"} => proc[p].plan # {}
    BY <1>3, <2>1 DEF Held, Preparing, Repairing
  <2>5. to # "readEvents" /\ to # "readSnapshot"
    BY <2>1
  <2>6. QED
    BY <1>1, <1>3, <1>5, <2>2, <2>3, <2>4, <2>5, GotoStep
<1>6. QED
  BY <1>2, <1>4, <1>5

\* An append is prepared from the stream and the snapshot it read.
LEMMA PrepareStep ==
  ASSUME Inv, NEW p \in Proc, NEW prior \in Streams, Prepare(p, prior),
         proc[p].pc \in {"inspected", "readSnapshot"},
         Prior(proc[p].seen["events"], proc[p].seen["snapshot"], prior, proc[p].lineage),
         UNCHANGED <<store, work, budget>>
  PROVE  Inv'
<1> DEFINE c == proc[p]
           l == c.lineage
           before == c.seen["events"]
           shot == c.seen["snapshot"]
           event == sealEvent(c.draft, Cursor(prior))
           ops == prepared(p, prior)
           n == [c EXCEPT !.ops = ops, !.pc = "fresh"]
<1>1. c \in ProcRecords /\ CommandOK(c) /\ Held(c) /\ Placed(c, tx[p])
  BY CommandFacts
<1>2. /\ c.kind = "append" /\ c.draft \in DraftRecords /\ l \in Lineage
      /\ tx[p].phase = "none"
  BY <1>1 DEF Held, Placed, Preparing, Driving
<1>3. before \in EventsFile /\ shot \in SnapshotFile
  BY <1>1 DEF CommandOK
<1>4. CASE Return(p, "state_corrupt")
  BY <1>4, ReturnStep DEF Answers
<1>5. CASE /\ Readable(Append(prior, event)) /\ proc' = [proc EXCEPT ![p].ops = ops, ![p].pc = "fresh"]
           /\ answer' = answer
  <2>1. ops = <<Op("events", before, Append(prior, event)),
                Op("snapshot", shot, replayEventStream(Append(prior, event), l))>>
    BY DEF prepared
  <2>2. Prior(before, shot, prior, l)
    OBVIOUS
  <2>3. proc' = [proc EXCEPT ![p] = n]
    BY <1>5
  <2>4. event = sealEvent(c.draft, Cursor(prior)) /\ Readable(Append(prior, event))
    BY <1>5
  <2> HIDE DEF ops, c, event, before, shot, l
  <2>5. ops \in Seq(OpRecords) /\ AppendOps(ops)
    BY <1>2, <1>3, <2>1, <2>2, <2>4, PreparedSound
  <2>6. n \in ProcRecords
    BY <1>1, <2>5 DEF ProcRecords, Places, Settled
  <2>7. n.pc = "fresh" /\ n.kind = c.kind /\ n.seen = c.seen /\ n.ops = ops
    BY <1>1, <2>5, <2>6 DEF ProcRecords
  <2> HIDE DEF n
  <2>8. CommandOK(n)
    BY <1>1, <2>5, <2>7 DEF CommandOK, OpsSound
  <2>9. Held(n) /\ Placed(n, tx[p]) /\ n.pc # "apply"
    BY <1>2, <2>7 DEF Held, Placed, Preparing, Repairing, Driving
  <2>10. RestTyped'
    BY <1>5, RestKeeps DEF Inv, Typed, store
  <2>11. QED
    BY <2>3, <2>6, <2>8, <2>9, <2>10, CommandStep
<1>6. QED
  BY <1>4, <1>5 DEF Prepare

LEMMA PrepareFirstAppendStep ==
  ASSUME Inv, NEW p \in Proc, PrepareFirstAppend(p)
  PROVE  Inv'
<1>1. /\ proc[p].pc = "inspected" /\ proc[p].seen = [f \in File |-> Missing] /\ Prepare(p, <<>>)
      /\ UNCHANGED <<store, work, budget>>
  BY DEF PrepareFirstAppend, At
<1>2. proc[p].seen["events"] = Missing /\ proc[p].seen["snapshot"] = Missing
  BY <1>1, FileNames
<1>3. <<>> \in Streams
  BY DEF Streams
<1>4. Prior(proc[p].seen["events"], proc[p].seen["snapshot"], <<>>, proc[p].lineage)
  BY <1>2 DEF Prior
<1>5. QED
  BY <1>1, <1>3, <1>4, PrepareStep

LEMMA HalfMissingStep ==
  ASSUME Inv, NEW p \in Proc, HalfMissing(p)
  PROVE  Inv'
<1>1. proc[p].pc = "inspected" /\ UNCHANGED <<store, work, budget>> /\ Held(proc[p])
  BY CommandFacts DEF HalfMissing, At
<1>2. CASE Return(p, "state_corrupt")
  BY <1>1, <1>2, ReturnStep DEF Answers
<1>3. CASE proc[p].seen["events"] # Missing /\ Goto(p, "readEvents")
  <2>1. /\ "readEvents" \in Places /\ "readEvents" \notin Driving \cup Repairing
        /\ proc[p].pc \notin Driving \cup {"idle"}
    BY <1>1 DEF Places, Preparing, Driving, Repairing
  <2>2. proc[p].kind = "append" /\ proc[p].draft \in DraftRecords /\ proc[p].lineage \in Lineage
    BY <1>1 DEF Held, Preparing
  <2>3. QED
    BY <1>1, <1>3, <2>1, <2>2, GotoStep
<1>4. QED
  BY <1>2, <1>3, FileNames DEF HalfMissing

LEMMA ReadEventsStep ==
  ASSUME Inv, NEW p \in Proc, ReadEvents(p)
  PROVE  Inv'
<1> DEFINE c == proc[p]
           text == files["events"]
           n == [c EXCEPT !.text = text, !.pc = "readSnapshot"]
<1>1. c.pc = "readEvents" /\ UNCHANGED <<store, work, budget>>
  BY DEF ReadEvents, At
<1>2. c \in ProcRecords /\ CommandOK(c) /\ Held(c) /\ Placed(c, tx[p]) /\ text \in EventsFile
  BY CommandFacts, FileFacts
<1>3. CASE Return(p, "internal_failure") \/ Return(p, "revision_conflict")
  BY <1>1, <1>3, ReturnStep DEF Answers
<1>4. CASE /\ text = c.seen["events"] /\ answer' = answer
           /\ proc' = [proc EXCEPT ![p].text = text, ![p].pc = "readSnapshot"]
  <2>1. proc' = [proc EXCEPT ![p] = n]
    BY <1>4
  <2>2. /\ c.kind = "append" /\ c.draft \in DraftRecords /\ c.lineage \in Lineage
        /\ c.seen["events"] # Missing /\ tx[p].phase = "none"
    BY <1>1, <1>2 DEF Held, Placed, Preparing, Driving
  <2>3. text = c.seen["events"]
    BY <1>4
  <2> HIDE DEF c, text
  <2>4. n \in ProcRecords
    BY <1>2 DEF ProcRecords, Places, Preparing
  <2>5. /\ n.pc = "readSnapshot" /\ n.kind = c.kind /\ n.draft = c.draft /\ n.lineage = c.lineage
        /\ n.seen = c.seen /\ n.text = text /\ n.ops = c.ops
    BY <1>2, <2>4 DEF ProcRecords
  <2> HIDE DEF n
  <2>6. CommandOK(n)
    BY <1>2, <2>5 DEF CommandOK
  <2>7. Held(n) /\ Placed(n, tx[p]) /\ n.pc # "apply"
    BY <2>2, <2>3, <2>5 DEF Held, Placed, Preparing, Repairing, Driving
  <2>8. RestTyped'
    BY <1>1, <1>4, RestKeeps DEF Inv, Typed, store
  <2>9. QED
    BY <1>1, <2>1, <2>4, <2>6, <2>7, <2>8, CommandStep
<1>5. QED
  BY <1>3, <1>4 DEF ReadEvents, readExact, sameFingerprint

LEMMA ReadSnapshotStep ==
  ASSUME Inv, NEW p \in Proc, ReadSnapshot(p)
  PROVE  Inv'
<1> DEFINE c == proc[p]
<1>1. c.pc = "readSnapshot" /\ UNCHANGED <<store, work, budget>>
  BY DEF ReadSnapshot, At
<1>2. CASE Return(p, "internal_failure") \/ Return(p, "revision_conflict") \/ Return(p, "state_corrupt")
  BY <1>1, <1>2, ReturnStep DEF Answers
<1>3. CASE /\ files["snapshot"] = c.seen["snapshot"] /\ assertPersistedSnapshot(p, c.text, files["snapshot"])
           /\ Prepare(p, c.text)
  <2>1. CommandOK(c) /\ Held(c)
    BY CommandFacts
  <2>2. c.seen["events"] # Missing /\ c.text = c.seen["events"]
    BY <1>1, <2>1 DEF Held
  <2>3. c.text \in Streams
    BY <2>1, <2>2 DEF CommandOK, EventsFile
  <2>4. Readable(c.text) /\ c.seen["snapshot"] = replayEventStream(c.text, c.lineage)
    BY <1>3 DEF assertPersistedSnapshot
  <2>5. Prior(c.seen["events"], c.seen["snapshot"], c.text, c.lineage)
    BY <2>2, <2>4 DEF Prior
  <2>6. QED
    BY <1>1, <1>3, <2>3, <2>5, PrepareStep
<1>4. QED
  BY <1>2, <1>3 DEF ReadSnapshot, readExact, sameFingerprint

LEMMA AssertFreshStep ==
  ASSUME Inv, NEW p \in Proc, AssertFresh(p)
  PROVE  Inv'
<1> DEFINE to == IF proc[p].pc = "fresh" THEN "preflightExecute" ELSE "mark"
<1>1. proc[p].pc \in {"fresh", "declare"} /\ UNCHANGED <<store, work, budget>>
  BY DEF AssertFresh
<1>2. CASE Return(p, "revision_conflict")
  BY <1>1, <1>2, ReturnStep DEF Answers
<1>3. CASE Goto(p, to)
  <2>1. to \in {"preflightExecute", "mark"}
    OBVIOUS
  <2> HIDE DEF to
  <2>2. /\ to \in Places /\ to \notin Driving \cup Preparing \cup Repairing
        /\ to \notin {"fresh", "declare", "preflight", "readEvents", "readSnapshot"}
        /\ proc[p].pc \notin Driving \cup {"idle"}
    BY <1>1, <2>1 DEF Places, Settled, Driving, Preparing, Repairing
  <2>3. QED
    BY <1>1, <1>3, <2>2, GotoStep
<1>4. QED
  BY <1>2, <1>3 DEF AssertFresh

-----------------------------------------------------------------------------
(* Repair *)

LEMMA RepairPlan ==
  ASSUME NEW snapshot \in SnapshotFile, NEW events \in EventsFile
  PROVE  repairPlan(snapshot, events) \subseteq Writes
<1>1. CASE Observed(snapshot, events) = "present"
  <2> DEFINE l == snapshot.lineage
             replayed == replayEventStream(events, l)
  <2>1. events \in Streams /\ Readable(events) /\ l \in Lineage
    BY <1>1, PresentFacts
  <2>2. replayed \in Snapshots
    BY <2>1, ReadableEvents, ReplaySnapshot
  <2>3. repairPlan(snapshot, events) \subseteq {[content |-> replayed, expectedDigest |-> snapshot]}
    BY <1>1 DEF repairPlan, planSnapshotRepair
  <2> HIDE DEF replayed
  <2>4. [content |-> replayed, expectedDigest |-> snapshot] \in Writes
    BY <2>2 DEF Writes
  <2>5. QED
    BY <2>3, <2>4
<1>2. CASE Observed(snapshot, events) # "present"
  BY <1>2 DEF repairPlan
<1>3. QED
  BY <1>1, <1>2

LEMMA DecideRepairStep ==
  ASSUME Inv, NEW p \in Proc, DecideRepair(p)
  PROVE  Inv'
<1> DEFINE c == proc[p]
           plan == repairPlan(c.seen["snapshot"], files["events"])
           n == [c EXCEPT !.plan = plan, !.pc = "refreshSnapshot"]
<1>1. c.pc = "observeEvents" /\ c.kind = "repair" /\ UNCHANGED <<store, work, budget>>
  BY DEF DecideRepair, At
<1>2. c \in ProcRecords /\ CommandOK(c) /\ Placed(c, tx[p]) /\ files["events"] \in EventsFile
  BY CommandFacts, FileFacts
<1>3. CASE Return(p, "orientation")
  BY <1>1, <1>3, ReturnStep DEF Answers
<1>4. CASE /\ plan # {} /\ answer' = answer
           /\ proc' = [proc EXCEPT ![p].plan = plan, ![p].pc = "refreshSnapshot"]
  <2>1. proc' = [proc EXCEPT ![p] = n]
    BY <1>4
  <2>2. plan \subseteq Writes /\ plan # {}
    BY <1>2, <1>4, RepairPlan DEF CommandOK
  <2>3. tx[p].phase = "none"
    BY <1>1, <1>2 DEF Placed, Driving
  <2> HIDE DEF c, plan
  <2>4. n \in ProcRecords
    BY <1>2, <2>2 DEF ProcRecords, Places, Repairing
  <2>5. n.pc = "refreshSnapshot" /\ n.kind = c.kind /\ n.seen = c.seen /\ n.plan = plan /\ n.ops = c.ops
    BY <1>2, <2>2, <2>4 DEF ProcRecords
  <2> HIDE DEF n
  <2>6. CommandOK(n)
    BY <1>2, <2>5 DEF CommandOK
  <2>7. Held(n) /\ Placed(n, tx[p]) /\ n.pc # "apply"
    BY <1>1, <2>2, <2>3, <2>5 DEF Held, Placed, Preparing, Repairing, Driving
  <2>8. RestTyped'
    BY <1>1, <1>4, RestKeeps DEF Inv, Typed, store
  <2>9. QED
    BY <1>1, <2>1, <2>4, <2>6, <2>7, <2>8, CommandStep
<1>5. QED
  BY <1>3, <1>4 DEF DecideRepair

LEMMA RevalidateRepairStep ==
  ASSUME Inv, NEW p \in Proc, RevalidateRepair(p)
  PROVE  Inv'
<1>1. proc[p].pc = "refreshEvents" /\ UNCHANGED <<store, work, budget>> /\ Held(proc[p])
  BY CommandFacts DEF RevalidateRepair, At
<1>2. CASE Return(p, "revision_conflict")
  BY <1>1, <1>2, ReturnStep DEF Answers
<1>3. CASE Goto(p, "preflight")
  <2>1. /\ "preflight" \in Places /\ "preflight" \notin Driving \cup Preparing \cup Repairing
        /\ proc[p].pc \notin Driving \cup {"idle"}
    BY <1>1 DEF Places, Settled, Driving, Preparing, Repairing
  <2>2. proc[p].kind = "repair" /\ proc[p].plan # {}
    BY <1>1 DEF Held, Repairing
  <2>3. QED
    BY <1>1, <1>3, <2>1, <2>2, GotoStep
<1>4. QED
  BY <1>2, <1>3 DEF RevalidateRepair

LEMMA RepairOpsSound ==
  ASSUME Inv, NEW p \in Proc, proc[p].plan # {}
  PROVE  RepairOps(p) \in Seq(OpRecords) /\ OpsSound(RepairOps(p))
<1> DEFINE w == CHOOSE w \in proc[p].plan : TRUE
           content == w.content
           shot == files["snapshot"]
           o == Op("snapshot", shot, content)
<1>1. w \in proc[p].plan /\ proc[p].plan \subseteq Writes
  BY CommandFacts
<1>2. w \in Writes
  BY <1>1
<1> HIDE DEF w
<1>3. content \in Snapshots
  BY <1>2 DEF Writes
<1>4. RepairOps(p) = IF shot = content THEN <<>> ELSE <<o>>
  BY DEF RepairOps, w
<1> HIDE DEF content
<1>5. shot \in SnapshotFile
  BY FileFacts
<1> HIDE DEF shot
<1>6. content \in Contents /\ shot \in Contents
  BY <1>3, <1>5 DEF Contents, SnapshotFile
<1>7. o \in OpRecords /\ o.file = "snapshot" /\ o.result = content
  BY <1>6, FileNames, OpFields
<1> HIDE DEF o
<1>8. CASE shot = content
  BY <1>4, <1>8 DEF OpsSound, RepairOnly
<1>9. CASE shot # content
  <2>1. RepairOps(p) = <<o>>
    BY <1>4, <1>9
  <2>2. <<o>> \in Seq(OpRecords) /\ Len(<<o>>) = 1 /\ <<o>>[1] = o
    BY <1>7
  <2>3. QED
    BY <1>3, <1>7, <2>1, <2>2 DEF OpsSound, RepairOnly
<1>10. QED
  BY <1>8, <1>9

LEMMA PreviewRepairStep ==
  ASSUME Inv, NEW p \in Proc, PreviewRepair(p)
  PROVE  Inv'
<1> DEFINE c == proc[p]
           ops == RepairOps(p)
           n == [c EXCEPT !.ops = ops, !.pc = "preflightApply"]
<1>1. c.pc = "preview" /\ UNCHANGED <<store, work, answer, budget>> /\ proc' = [proc EXCEPT ![p] = n]
  BY DEF PreviewRepair, At
<1>2. c \in ProcRecords /\ CommandOK(c) /\ Held(c) /\ Placed(c, tx[p])
  BY CommandFacts
<1>3. c.kind = "repair" /\ c.plan # {} /\ tx[p].phase = "none"
  BY <1>1, <1>2 DEF Held, Placed, Repairing, Driving
<1>4. ops \in Seq(OpRecords) /\ OpsSound(ops)
  BY <1>3, RepairOpsSound
<1> HIDE DEF c, ops
<1>5. n \in ProcRecords
  BY <1>2, <1>4 DEF ProcRecords, Places, Repairing
<1>6. n.pc = "preflightApply" /\ n.kind = c.kind /\ n.seen = c.seen /\ n.plan = c.plan /\ n.ops = ops
  BY <1>2, <1>4, <1>5 DEF ProcRecords
<1> HIDE DEF n
<1>7. CommandOK(n)
  BY <1>2, <1>4, <1>6 DEF CommandOK
<1>8. Held(n) /\ Placed(n, tx[p]) /\ n.pc # "apply"
  BY <1>3, <1>6 DEF Held, Placed, Preparing, Repairing, Driving
<1>9. RestTyped'
  BY <1>1, RestKeeps DEF Inv, Typed, store
<1>10. QED
  BY <1>1, <1>5, <1>7, <1>8, <1>9, CommandStep

LEMMA DecideAgainStep ==
  ASSUME Inv, NEW p \in Proc, DecideAgain(p)
  PROVE  Inv'
<1>1. proc[p].pc = "decide" /\ UNCHANGED <<store, work, budget>>
  BY DEF DecideAgain, At
<1>2. CASE Return(p, "revision_conflict")
  BY <1>1, <1>2, ReturnStep DEF Answers
<1>3. CASE Goto(p, "preflightExecute")
  <2>1. /\ "preflightExecute" \in Places /\ "preflightExecute" \notin Driving \cup Preparing \cup Repairing
        /\ proc[p].pc \notin Driving \cup {"idle"}
    BY <1>1 DEF Places, Settled, Driving, Preparing, Repairing
  <2>2. QED
    BY <1>1, <1>3, <2>1, GotoStep
<1>4. QED
  BY <1>2, <1>3 DEF DecideAgain

-----------------------------------------------------------------------------
(* The transaction *)

LEMMA TxKeeps ==
  ASSUME TxTyped, NEW p \in Proc, NEW t \in TxRecords, TxOK(t), tx' = [tx EXCEPT ![p] = t]
  PROVE  TxTyped' /\ \A q \in Proc : tx'[q] = IF q = p THEN t ELSE tx[q]
<1>1. tx' \in [Proc -> TxRecords] /\ \A q \in Proc : tx'[q] = IF q = p THEN t ELSE tx[q]
  BY DEF TxTyped
<1>2. QED
  BY <1>1 DEF TxTyped

\* A transaction that neither publishes nor published moves on.
LEMMA UnpublishedStep ==
  ASSUME Inv, NEW p \in Proc, NEW t \in TxRecords, TxOK(t), tx' = [tx EXCEPT ![p] = t],
         tx[p].phase # "publishing", t.phase # "publishing",
         NEW c \in ProcRecords, CommandOK(c), Held(c), Placed(c, t), c.pc # "apply",
         proc' = [proc EXCEPT ![p] = c],
         UNCHANGED <<files, accepted, clash, repaired, budget>>, RestTyped'
  PROVE  Inv'
<1>1. TxTyped' /\ \A q \in Proc : tx'[q] = IF q = p THEN t ELSE tx[q]
  BY TxKeeps DEF Inv, Typed
<1>2. ProcTyped' /\ Sound' /\ \A q \in Proc : proc'[q] = IF q = p THEN c ELSE proc[q]
  <2>1. Placed(c, tx'[p]) /\ \A q \in Proc \ {p} : tx'[q] = tx[q]
    BY <1>1
  <2>2. ProcTyped /\ Sound
    BY DEF Inv, Typed
  <2>3. QED
    BY <2>1, <2>2, CommandKeeps
<1>3. FilesTyped' /\ Edited' = Edited /\ Quiet' = Quiet /\ Agree' = Agree
  BY DEF Inv, Typed, FilesTyped, StreamOK, Edited, Quiet, Agree
<1>4. \A q \in Proc : tx'[q].phase = "publishing" => q # p /\ tx'[q] = tx[q]
  BY <1>1
<1>5. Alone'
  BY <1>4 DEF Inv, Alone
<1>6. Stands'
  <2>1. ASSUME Quiet', NEW q \in Proc, proc'[q].pc = "apply" PROVE ExpectedStands(NextOp(q))'
    <3>1. q # p /\ tx'[q] = tx[q] /\ proc'[q] = proc[q]
      BY <1>1, <1>2, <2>1
    <3>2. ExpectedStands(NextOp(q))
      BY <1>3, <2>1, <3>1 DEF Inv, Stands
    <3>3. QED
      BY <3>1, <3>2 DEF ExpectedStands, sameFingerprint, NextOp
  <2>2. QED
    BY <2>1 DEF Stands
<1>7. NothingLost'
  BY <1>3 DEF Inv, NothingLost
<1>8. Paired'
  <2>1. SUFFICES ASSUME Quiet', ~repaired' PROVE Paired'
    BY DEF Paired
  <2>2. Quiet /\ ~repaired
    BY <1>3, <2>1
  <2>3. ASSUME \A q \in Proc : tx'[q].phase # "publishing" PROVE Agree'
    <3>1. \A q \in Proc : tx[q].phase # "publishing"
      BY <1>1, <2>3
    <3>2. QED
      BY <1>3, <2>2, <3>1 DEF Inv, Paired
  <2>4. ASSUME NEW q \in Proc, tx'[q].phase = "publishing"
        PROVE  /\ tx'[q].done = 0 => Agree'
               /\ Len(tx'[q].ops) = 2 /\ tx'[q].done >= 1 => files'["events"] = tx'[q].ops[1].result
               /\ Len(tx'[q].ops) = 2 /\ tx'[q].done = 2 => files'["snapshot"] = tx'[q].ops[2].result
    <3>1. tx'[q] = tx[q] /\ tx[q].phase = "publishing"
      BY <1>4, <2>4
    <3>2. QED
      BY <1>3, <2>2, <3>1 DEF Inv, Paired
  <2>5. QED
    BY <2>3, <2>4 DEF Paired
<1>9. QED
  BY <1>1, <1>2, <1>3, <1>5, <1>6, <1>7, <1>8 DEF Inv, Typed

LEMMA TxFields ==
  ASSUME NEW t \in TxRecords
  PROVE  /\ t.phase \in {"none", "begun", "prepared", "publishing"} /\ t.ops \in Seq(OpRecords)
         /\ t.done \in Nat /\ Len(t.ops) \in Nat
  BY DEF TxRecords

LEMMA NoTxFacts == NoTx \in TxRecords /\ TxOK(NoTx) /\ NoTx.phase = "none"
<1>1. <<>> \in Seq(OpRecords) /\ Len(<<>>) = 0
  OBVIOUS
<1>2. NoTx \in TxRecords
  BY <1>1 DEF NoTx, TxRecords
<1>3. NoTx.phase = "none" /\ NoTx.ops = <<>> /\ NoTx.done = 0
  BY DEF NoTx
<1>4. QED
  BY <1>1, <1>2, <1>3 DEF TxOK, OpsSound, RepairOnly

\* A driver goes on to another step of its transaction.
LEMMA DrivingMoved ==
  ASSUME NEW c \in ProcRecords, CommandOK(c), NEW pc \in Driving, NEW n, n = [c EXCEPT !.pc = pc]
  PROVE  n \in ProcRecords /\ CommandOK(n) /\ Held(n) /\ n.pc = pc
<1>1. pc \in Places
  BY DEF Places
<1>2. n \in ProcRecords /\ n.pc = pc /\ n.seen = c.seen /\ n.ops = c.ops
  BY <1>1, MovedFields
<1>3. CommandOK(n)
  BY <1>2 DEF CommandOK
<1>4. Held(n)
  BY <1>2 DEF Held, Driving, Preparing, Repairing
<1>5. QED
  BY <1>2, <1>3, <1>4

LEMMA MarkStep ==
  ASSUME Inv, NEW p \in Proc, Mark(p)
  PROVE  Inv'
<1> DEFINE c == proc[p]
           ops == c.ops
           n == [c EXCEPT !.pc = "precheck"]
           t == [phase |-> "begun", ops |-> ops, done |-> 0]
<1>1. /\ c.pc = "mark" /\ tx' = [tx EXCEPT ![p] = t] /\ proc' = [proc EXCEPT ![p] = n] /\ answer' = answer
      /\ UNCHANGED <<files, accepted, clash, repaired, work, budget>>
  BY DEF Mark, Goto, At
<1>2. c \in ProcRecords /\ CommandOK(c) /\ Placed(c, tx[p]) /\ ops \in Seq(OpRecords)
  BY CommandFacts
<1>3. tx[p].phase # "publishing" /\ OpsSound(ops)
  BY <1>1, <1>2 DEF Placed, Driving, CommandOK
<1> HIDE DEF c, ops
<1>4. t \in TxRecords
  BY <1>2 DEF TxRecords
<1>5. t.phase = "begun" /\ t.ops = ops /\ t.done = 0
  OBVIOUS
<1> HIDE DEF t
<1>6. TxOK(t)
  BY <1>2, <1>3, <1>5 DEF TxOK
<1>7. n \in ProcRecords /\ CommandOK(n) /\ Held(n) /\ n.pc = "precheck"
  BY <1>2, DrivingMoved DEF Driving
<1> HIDE DEF n
<1>8. Placed(n, t)
  BY <1>5, <1>7 DEF Placed, Driving
<1>9. RestTyped'
  BY <1>1, RestKeeps DEF Inv, Typed
<1>10. QED
  BY <1>1, <1>3, <1>4, <1>5, <1>6, <1>7, <1>8, <1>9, UnpublishedStep

LEMMA PrecheckStep ==
  ASSUME Inv, NEW p \in Proc, Precheck(p)
  PROVE  Inv'
<1> DEFINE c == proc[p]
           u == tx[p]
           n == [c EXCEPT !.pc = "authorize"]
           t == [u EXCEPT !.phase = "prepared"]
<1>1. c.pc = "precheck" /\ UNCHANGED <<files, accepted, clash, repaired, work, budget>>
  BY DEF Precheck, At
<1>2. c \in ProcRecords /\ CommandOK(c) /\ Placed(c, u) /\ u \in TxRecords /\ TxOK(u)
  BY CommandFacts
<1>3. u.phase = "begun"
  BY <1>1, <1>2 DEF Placed
<1>4. CASE UNCHANGED tx /\ Return(p, "revision_conflict")
  BY <1>1, <1>4, ReturnStep DEF Answers, store
<1>5. CASE SetPhase(p, "prepared") /\ Goto(p, "authorize")
  <2>1. tx' = [tx EXCEPT ![p] = t] /\ proc' = [proc EXCEPT ![p] = n] /\ answer' = answer
    BY <1>5 DEF SetPhase, Goto
  <2> HIDE DEF c, u
  <2>2. t \in TxRecords
    BY <1>2 DEF TxRecords
  <2>3. t.phase = "prepared" /\ t.ops = u.ops /\ t.done = u.done
    BY <1>2, <2>2 DEF TxRecords
  <2> HIDE DEF t
  <2>4. TxOK(t)
    BY <1>2, <1>3, <2>3 DEF TxOK
  <2>5. n \in ProcRecords /\ CommandOK(n) /\ Held(n) /\ n.pc = "authorize"
    BY <1>2, DrivingMoved DEF Driving
  <2> HIDE DEF n
  <2>6. Placed(n, t)
    BY <2>3, <2>5 DEF Placed, Driving
  <2>7. RestTyped'
    BY <1>1, <2>1, RestKeeps DEF Inv, Typed
  <2>8. u = tx[p]
    BY DEF u
  <2>9. QED
    BY <1>1, <1>3, <2>1, <2>2, <2>3, <2>4, <2>5, <2>6, <2>7, <2>8, UnpublishedStep
<1>6. QED
  BY <1>4, <1>5 DEF Precheck

LEMMA AuthorizeStep ==
  ASSUME Inv, NEW p \in Proc, Authorize(p)
  PROVE  Inv'
<1> DEFINE c == proc[p]
           u == tx[p]
           n == [c EXCEPT !.pc = "publish"]
           t == [u EXCEPT !.phase = "publishing"]
<1>1. /\ c.pc = "authorize" /\ tx' = [tx EXCEPT ![p] = t] /\ proc' = [proc EXCEPT ![p] = n] /\ answer' = answer
      /\ UNCHANGED <<files, accepted, repaired, work, budget>>
      /\ clash' = (clash \/ \E q \in Proc \ {p} : tx[q].phase = "publishing")
  BY DEF Authorize, SetPhase, Goto, At
<1>2. c \in ProcRecords /\ CommandOK(c) /\ Placed(c, u) /\ u \in TxRecords /\ TxOK(u)
  BY CommandFacts
<1>3. u.phase = "prepared" /\ u.done = 0
  BY <1>1, <1>2 DEF Placed, TxOK
<1>4. u = tx[p]
  OBVIOUS
<1> HIDE DEF c, u
<1>5. t \in TxRecords
  BY <1>2 DEF TxRecords
<1>6. t.phase = "publishing" /\ t.ops = u.ops /\ t.done = u.done
  BY <1>2, <1>5 DEF TxRecords
<1> HIDE DEF t
<1>7. TxOK(t)
  BY <1>2, <1>3, <1>6 DEF TxOK
<1>8. n \in ProcRecords /\ CommandOK(n) /\ Held(n) /\ n.pc = "publish"
  BY <1>2, DrivingMoved DEF Driving
<1> HIDE DEF n
<1>9. Placed(n, t)
  BY <1>6, <1>8 DEF Placed, Driving
<1>10. TxTyped' /\ \A q \in Proc : tx'[q] = IF q = p THEN t ELSE tx[q]
  BY <1>1, <1>5, <1>7, TxKeeps DEF Inv, Typed
<1>11. ProcTyped' /\ Sound' /\ \A q \in Proc : proc'[q] = IF q = p THEN n ELSE proc[q]
  <2>1. Placed(n, tx'[p]) /\ \A q \in Proc \ {p} : tx'[q] = tx[q]
    BY <1>9, <1>10
  <2>2. ProcTyped /\ Sound
    BY DEF Inv, Typed
  <2>3. QED
    BY <1>1, <1>8, <2>1, <2>2, CommandKeeps
<1>12. RestTyped'
  BY <1>1 DEF Inv, Typed, RestTyped
<1>13. FilesTyped' /\ Edited' = Edited /\ Agree' = Agree
  BY <1>1 DEF Inv, Typed, FilesTyped, StreamOK, Edited, Agree
<1>14. ~clash' => ~clash /\ \A q \in Proc : tx'[q].phase = "publishing" => q = p
  BY <1>1, <1>10
<1>15. Alone'
  BY <1>14 DEF Alone
<1>16. Quiet' => Quiet
  BY <1>13, <1>14 DEF Quiet
<1>17. Stands'
  <2>1. ASSUME Quiet', NEW q \in Proc, proc'[q].pc = "apply" PROVE ExpectedStands(NextOp(q))'
    <3>1. q # p
      BY <1>8, <1>11, <2>1
    <3>2. tx'[q] = tx[q] /\ proc'[q] = proc[q]
      BY <1>10, <1>11, <3>1
    <3>3. ExpectedStands(NextOp(q))
      BY <1>16, <2>1, <3>2 DEF Inv, Stands
    <3>4. QED
      BY <1>1, <3>2, <3>3 DEF ExpectedStands, sameFingerprint, NextOp
  <2>2. QED
    BY <2>1 DEF Stands
<1>18. NothingLost'
  BY <1>1, <1>13, <1>14 DEF Inv, NothingLost
<1>19. Paired'
  <2>1. SUFFICES ASSUME Quiet', ~repaired' PROVE Paired'
    BY DEF Paired
  <2>2. Quiet /\ ~repaired /\ ~clash'
    BY <1>1, <1>16, <2>1 DEF Quiet
  <2>3. \A q \in Proc : tx[q].phase # "publishing"
    BY <1>3, <1>4, <1>10, <1>14, <2>2
  <2>4. Agree'
    BY <1>13, <2>2, <2>3 DEF Inv, Paired
  <2>5. \A q \in Proc : tx'[q].phase = "publishing" => tx'[q] = t /\ t.done = 0
    BY <1>3, <1>6, <1>10, <1>14, <2>2
  <2>6. QED
    BY <2>4, <2>5 DEF Paired
<1>20. QED
  BY <1>10, <1>11, <1>12, <1>13, <1>15, <1>17, <1>18, <1>19 DEF Inv, Typed

LEMMA CheckPublishableStep ==
  ASSUME Inv, NEW p \in Proc, CheckPublishable(p)
  PROVE  Inv'
<1> DEFINE c == proc[p]
           t == tx[p]
           n == [c EXCEPT !.pc = "apply"]
<1>1. c.pc = "publish" /\ UNCHANGED <<store, work, budget>> /\ t.done # Len(t.ops)
  BY DEF CheckPublishable, At, Published
<1>2. c \in ProcRecords /\ CommandOK(c) /\ Placed(c, t) /\ t \in TxRecords /\ TxOK(t)
  BY CommandFacts
<1>3. CASE Return(p, "recovery_required")
  BY <1>1, <1>3, ReturnStep DEF Answers
<1>4. CASE ExpectedStands(NextOp(p)) /\ Goto(p, "apply")
  <2>1. proc' = [proc EXCEPT ![p] = n] /\ answer' = answer
    BY <1>4 DEF Goto
  <2>2. t.phase = "publishing" /\ t.done < Len(t.ops)
    BY <1>1, <1>2, TxFields DEF Placed, TxOK
  <2>3. Placed(n, t) <=> Placed(n, tx[p])
    OBVIOUS
  <2> HIDE DEF c, t
  <2>4. n \in ProcRecords /\ CommandOK(n) /\ Held(n) /\ n.pc = "apply"
    BY <1>2, DrivingMoved DEF Driving
  <2> HIDE DEF n
  <2>5. Placed(n, t)
    BY <2>2, <2>4 DEF Placed, Driving
  <2>6. RestTyped'
    BY <1>1, <2>1, RestKeeps DEF Inv, Typed, store
  <2>7. QED
    BY <1>1, <1>4, <2>1, <2>3, <2>4, <2>5, <2>6, CommandStep
<1>5. QED
  BY <1>3, <1>4 DEF CheckPublishable

\* The operation an unfinished transaction has before it.
LEMMA NextOpFacts ==
  ASSUME NEW t \in TxRecords, TxOK(t), t.done < Len(t.ops), NEW o, o = t.ops[t.done + 1]
  PROVE  /\ o \in OpRecords /\ o.file \in File
         /\ \/ /\ o.file = "events" /\ t.done = 0 /\ AppendOps(t.ops) /\ o = t.ops[1]
               /\ o.result \in Streams /\ LinesOK(o.result, MaxCount)
            \/ /\ o.file = "snapshot" /\ o.result \in Snapshots
               /\ Len(t.ops) = 2 => t.done = 1 /\ o = t.ops[2]
<1>1. t.ops \in Seq(OpRecords) /\ t.done \in Nat /\ Len(t.ops) \in Nat /\ OpsSound(t.ops)
  BY TxFields DEF TxOK
<1>2. t.done + 1 \in 1 .. Len(t.ops)
  BY <1>1
<1>3. o \in OpRecords
  BY <1>1, <1>2
<1>4. o.file \in File
  BY <1>3 DEF OpRecords
<1>5. CASE RepairOnly(t.ops)
  <2>1. Len(t.ops) = 1 /\ t.ops[1].file = "snapshot" /\ t.ops[1].result \in Snapshots /\ t.done = 0
    BY <1>1, <1>5 DEF RepairOnly
  <2>2. QED
    BY <1>3, <1>4, <2>1
<1>6. CASE AppendOps(t.ops)
  <2>1. Len(t.ops) = 2 /\ t.done \in {0, 1} /\ t.ops[1].file = "events" /\ t.ops[2].file = "snapshot"
    BY <1>1, <1>6 DEF AppendOps
  <2>2. CASE t.done = 0
    <3>1. o = t.ops[1] /\ o.result \in Streams /\ Genuine(o.result) /\ Len(o.result) <= MaxCount
      BY <1>6, <2>2 DEF AppendOps
    <3>2. LinesOK(o.result, MaxCount)
      BY <3>1, GenuineLines, ChainAssumption
    <3>3. QED
      BY <1>3, <1>4, <1>6, <2>1, <2>2, <3>1, <3>2
  <2>3. CASE t.done = 1
    <3>1. o = t.ops[2]
      BY <2>3
    <3>2. PICK l \in Lineage : t.ops[2].result = replayEventStream(t.ops[1].result, l)
      BY <1>6 DEF AppendOps
    <3>3. t.ops[1].result \in Streams /\ Genuine(t.ops[1].result)
      BY <1>6 DEF AppendOps
    <3>4. t.ops[1].result # <<>>
      BY <1>6, <3>3, StreamFacts, AppendExact, <1>1 DEF AppendOps
    <3>5. o.result \in Snapshots
      BY <3>1, <3>2, <3>3, <3>4, GenuineEvents, ReplaySnapshot
    <3>6. QED
      BY <1>3, <1>4, <2>1, <2>3, <3>1, <3>5
  <2>4. QED
    BY <2>1, <2>2, <2>3
<1>7. QED
  BY <1>1, <1>5, <1>6 DEF OpsSound

LEMMA StreamOKLines ==
  ASSUME RestTyped, NEW s, LinesOK(s, MaxCount), Len(s) \in Nat
  PROVE  StreamOK(s)
<1>1. budget.edits \in 0 .. MaxEdits /\ MaxEdits \in Nat /\ MaxCount \in Nat
  BY StoreAssumption, ChainAssumption DEF RestTyped
<1>2. Len(s) <= MaxCount + (MaxEdits - budget.edits)
  BY <1>1 DEF LinesOK
<1>3. QED
  BY <1>2 DEF LinesOK, LineOK, StreamOK

\* One operation is published: the file was as expected, or holds the result
\* already.
LEMMA PublishStep ==
  ASSUME Inv, NEW p \in Proc, tx[p].phase = "publishing", tx[p].done < Len(tx[p].ops),
         files' = [files EXCEPT ![NextOp(p).file] = NextOp(p).result],
         tx' = [tx EXCEPT ![p].done = @ + 1],
         Quiet => files' = files \/ ExpectedStands(NextOp(p)),
         UNCHANGED <<accepted, clash, repaired, work, budget>>, answer' = answer,
         NEW c \in ProcRecords, CommandOK(c), Held(c), c.pc \in {"publish", "idle"},
         proc' = [proc EXCEPT ![p] = c]
  PROVE  Inv'
<1> DEFINE u == tx[p]
           done == u.done + 1
           t == [u EXCEPT !.done = done]
           o == NextOp(p)
<1>1. u \in TxRecords /\ TxOK(u) /\ files \in [File -> Contents]
  BY CommandFacts, FileFacts
<1>2. /\ u.phase \in {"none", "begun", "prepared", "publishing"} /\ u.ops \in Seq(OpRecords)
      /\ u.done \in Nat /\ Len(u.ops) \in Nat
  BY <1>1, TxFields
<1>3. o = u.ops[u.done + 1] /\ u.done < Len(u.ops) /\ u.phase = "publishing" /\ u = tx[p]
  BY DEF NextOp
<1>4. tx' = [tx EXCEPT ![p] = t] /\ files' = [files EXCEPT ![o.file] = o.result]
  OBVIOUS
<1>5. Quiet => files' = files \/ files[o.file] = o.expected
  BY DEF ExpectedStands, sameFingerprint
<1> HIDE DEF u, o
<1>6. /\ o \in OpRecords /\ o.file \in File
      /\ \/ /\ o.file = "events" /\ u.done = 0 /\ AppendOps(u.ops) /\ o = u.ops[1]
            /\ o.result \in Streams /\ LinesOK(o.result, MaxCount)
         \/ /\ o.file = "snapshot" /\ o.result \in Snapshots
            /\ Len(u.ops) = 2 => u.done = 1 /\ o = u.ops[2]
  BY <1>1, <1>3, NextOpFacts
<1>7. done \in Nat /\ done >= 1 /\ done <= Len(u.ops)
  BY <1>2, <1>3
<1>8. t \in TxRecords
  BY <1>1, <1>7 DEF TxRecords
<1>9. t.phase = "publishing" /\ t.ops = u.ops /\ t.done = done
  BY <1>1, <1>3, <1>7, <1>8 DEF TxRecords
<1>10. done = u.done + 1
  OBVIOUS
<1> HIDE DEF t, done
<1>11. TxOK(t)
  BY <1>1, <1>7, <1>9 DEF TxOK
<1>12. TxTyped' /\ \A q \in Proc : tx'[q] = IF q = p THEN t ELSE tx[q]
  BY <1>4, <1>8, <1>11, TxKeeps DEF Inv, Typed
<1>13. ProcTyped' /\ Sound' /\ \A q \in Proc : proc'[q] = IF q = p THEN c ELSE proc[q]
  <2>1. Placed(c, tx'[p])
    BY <1>9, <1>12 DEF Placed, Driving
  <2>2. \A q \in Proc \ {p} : tx'[q] = tx[q]
    BY <1>12
  <2>3. ProcTyped /\ Sound
    BY DEF Inv, Typed
  <2>4. QED
    BY <2>1, <2>2, <2>3, CommandKeeps
<1>14. RestTyped'
  BY RestKeeps DEF Inv, Typed
<1>15. \A f \in File : files'[f] = IF f = o.file THEN o.result ELSE files[f]
  BY <1>1, <1>4, <1>6
<1>16. FilesTyped'
  <2>1. o.result \in Contents
    BY <1>6 DEF OpRecords
  <2>2. files' \in [File -> Contents]
    BY <1>1, <1>4, <1>6, <2>1
  <2>3. files'["events"] \in EventsFile /\ files'["snapshot"] \in SnapshotFile
    BY <1>6, <1>15, FileNames, FileFacts DEF EventsFile, SnapshotFile
  <2>4. StreamOK(files["events"])'
    <3>1. CASE o.file = "events"
      <4>1. files'["events"] = o.result /\ LinesOK(o.result, MaxCount) /\ Len(o.result) \in Nat
        BY <1>6, <1>15, <3>1, FileNames, StreamFacts
      <4>2. StreamOK(o.result)
        BY <4>1, StreamOKLines DEF Inv, Typed
      <4>3. QED
        BY <4>1, <4>2 DEF StreamOK
    <3>2. CASE o.file # "events"
      <4>1. files'["events"] = files["events"] /\ StreamOK(files["events"])
        BY <1>15, <3>2, FileNames DEF Inv, Typed, FilesTyped
      <4>2. QED
        BY <4>1 DEF StreamOK
    <3>3. QED
      BY <3>1, <3>2
  <2>5. QED
    BY <2>2, <2>3, <2>4 DEF FilesTyped
<1>17. Alone'
  BY <1>3, <1>9, <1>12 DEF Inv, Alone
<1>18. Quiet' = Quiet /\ Edited' = Edited
  BY DEF Quiet, Edited
<1>19. ASSUME Quiet, NEW q \in Proc, tx[q].phase = "publishing" PROVE q = p
  BY <1>19 DEF Inv, Alone, Quiet
<1>20. Stands'
  <2>1. ASSUME Quiet', NEW q \in Proc, proc'[q].pc = "apply" PROVE FALSE
    <3>1. q # p
      BY <1>13, <2>1
    <3>2. proc[q].pc = "apply"
      BY <1>13, <2>1, <3>1
    <3>3. tx[q].phase = "publishing"
      BY <3>2 DEF Inv, Sound, Placed
    <3>4. QED
      BY <1>18, <1>19, <2>1, <3>1, <3>3
  <2>2. QED
    BY <2>1 DEF Stands
<1>21. NothingLost'
  <2>1. SUFFICES ASSUME Quiet, NEW e \in accepted
                 PROVE  /\ files'["events"] # Missing
                        /\ \E i \in 1 .. Len(files'["events"]) : files'["events"][i] = e
    BY <1>18 DEF NothingLost, Quiet
  <2>2. /\ files["events"] # Missing
        /\ \E i \in 1 .. Len(files["events"]) : files["events"][i] = e
    BY <2>1 DEF Inv, NothingLost, Quiet
  <2>3. CASE files'["events"] = files["events"]
    BY <2>2, <2>3
  <2>4. CASE files'["events"] # files["events"]
    <3>1. o.file = "events" /\ files'["events"] = o.result
      BY <1>15, <2>4, FileNames
    <3>2. AppendOps(u.ops) /\ o = u.ops[1] /\ o.result \in Streams
      BY <1>6, <3>1
    <3>3. files["events"] = o.expected
      BY <1>5, <2>1, <2>4, <3>1
    <3>4. Before(o) = o.expected
      BY <2>2, <3>3 DEF Before
    <3> DEFINE prior == o.expected
               last == o.result[Len(o.result)]
    <3>5. prior \in Streams /\ o.result = Append(prior, last)
      BY <3>2, <3>4 DEF AppendOps
    <3> HIDE DEF prior, last
    <3>6. Len(prior) \in Nat /\ Len(o.result) = Len(prior) + 1
          /\ \A i \in 1 .. Len(prior) : o.result[i] = prior[i]
      BY <3>5 DEF Streams
    <3>7. PICK i \in 1 .. Len(prior) : prior[i] = e
      BY <2>2, <3>3 DEF prior
    <3>8. i \in 1 .. Len(o.result) /\ o.result[i] = e
      BY <3>6, <3>7
    <3>9. QED
      BY <3>1, <3>2, <3>8, StreamFacts
  <2>5. QED
    BY <2>3, <2>4
<1>22. Paired'
  <2>1. SUFFICES ASSUME Quiet', ~repaired' PROVE Paired'
    BY DEF Paired
  <2>2. Quiet /\ ~repaired
    BY <1>18, <2>1
  <2>3. ~\A q \in Proc : tx'[q].phase # "publishing"
    BY <1>9, <1>12
  <2>4. ASSUME NEW q \in Proc, tx'[q].phase = "publishing" PROVE tx'[q] = t
    <3>1. q # p => tx[q].phase = "publishing"
      BY <1>12, <2>4
    <3>2. q = p
      BY <1>19, <2>2, <3>1
    <3>3. QED
      BY <1>12, <3>2
  <2>5. ASSUME Len(t.ops) = 2
        PROVE  files'["events"] = t.ops[1].result /\ (t.done = 2 => files'["snapshot"] = t.ops[2].result)
    <3>1. CASE o.file = "events"
      BY <1>6, <1>9, <1>10, <1>15, <3>1, FileNames
    <3>2. CASE o.file = "snapshot"
      <4>1. u.done = 1 /\ o = u.ops[2]
        BY <1>6, <1>9, <2>5, <3>2
      <4>2. files["events"] = u.ops[1].result
        BY <1>3, <1>9, <2>2, <2>5, <4>1 DEF Inv, Paired
      <4>3. QED
        BY <1>9, <1>15, <3>2, <4>1, <4>2, FileNames
    <3>3. QED
      BY <1>6, <3>1, <3>2
  <2>6. t.done # 0
    BY <1>7, <1>9
  <2>7. QED
    BY <2>3, <2>4, <2>5, <2>6 DEF Paired
<1>23. QED
  BY <1>12, <1>13, <1>14, <1>16, <1>17, <1>20, <1>21, <1>22 DEF Inv, Typed

LEMMA ApplyStep ==
  ASSUME Inv, NEW p \in Proc, Apply(p)
  PROVE  Inv'
<1> DEFINE c == proc[p]
           n == [c EXCEPT !.pc = "publish"]
<1>1. /\ c.pc = "apply" /\ proc' = [proc EXCEPT ![p] = n] /\ answer' = answer
      /\ files' = [files EXCEPT ![NextOp(p).file] = NextOp(p).result]
      /\ tx' = [tx EXCEPT ![p].done = @ + 1]
      /\ UNCHANGED <<accepted, clash, repaired, work, budget>>
  BY DEF Apply, Replace, Goto, At
<1>2. c \in ProcRecords /\ CommandOK(c) /\ Placed(c, tx[p])
  BY CommandFacts
<1>3. tx[p].phase = "publishing" /\ tx[p].done < Len(tx[p].ops)
  BY <1>1, <1>2 DEF Placed
<1>4. Quiet => ExpectedStands(NextOp(p))
  BY <1>1 DEF Inv, Stands
<1> HIDE DEF c
<1>5. n \in ProcRecords /\ CommandOK(n) /\ Held(n) /\ n.pc = "publish"
  BY <1>2, DrivingMoved DEF Driving
<1> HIDE DEF n
<1>6. QED
  BY <1>1, <1>3, <1>4, <1>5, PublishStep

\* The event of an append that is committed.
LEMMA AcceptedEvent ==
  ASSUME NEW ops \in Seq(OpRecords), OpsSound(ops), NEW i \in 1 .. Len(ops), ops[i].file = "events"
  PROVE  /\ i = 1 /\ Len(ops) = 2 /\ AppendOps(ops)
         /\ LET s == ops[1].result
            IN  s \in Streams /\ Len(s) \in 1 .. Len(s) /\ s[Len(s)] \in Events /\ s[Len(s)].result \in 1 .. MaxCount
<1> DEFINE s == ops[1].result
<1>1. ~RepairOnly(ops)
  BY DEF RepairOnly
<1>2. AppendOps(ops)
  BY <1>1 DEF OpsSound
<1>3. i = 1 /\ Len(ops) = 2
  BY <1>2 DEF AppendOps
<1>4. s \in Streams /\ Genuine(s) /\ Len(s) <= MaxCount
  BY <1>2 DEF AppendOps
<1>5. Len(s) \in Nat /\ Len(s) >= 1
  BY <1>2, <1>4, StreamFacts, AppendExact DEF AppendOps
<1>6. Len(s) \in 1 .. Len(s) /\ s[Len(s)] \in Events /\ s[Len(s)].result = Len(s)
  BY <1>4, <1>5, GenuineEvents
<1>7. s[Len(s)].result \in 1 .. MaxCount
  BY <1>4, <1>5, <1>6, ChainAssumption
<1>8. QED
  BY <1>2, <1>3, <1>4, <1>6, <1>7

LEMMA AcceptStep ==
  ASSUME Inv, NEW p \in Proc, tx[p].phase = "publishing", Accept(p),
         \A i \in 1 .. Len(tx[p].ops) : files[tx[p].ops[i].file] = tx[p].ops[i].result,
         UNCHANGED <<files, clash, work, budget>>, answer' \in [Proc -> Answers],
         NEW c \in ProcRecords, CommandOK(c), Held(c), c.pc = "idle", proc' = [proc EXCEPT ![p] = c]
  PROVE  Inv'
<1> DEFINE u == tx[p]
           ops == u.ops
           New == {o.result[Len(o.result)] : o \in {ops[i] : i \in {j \in 1 .. Len(ops) : ops[j].file = "events"}}}
           s == ops[1].result
<1>1. u \in TxRecords /\ TxOK(u)
  BY CommandFacts
<1>2. ops \in Seq(OpRecords) /\ Len(ops) \in Nat /\ OpsSound(ops)
  BY <1>1, TxFields DEF TxOK
<1>3. /\ accepted' = accepted \cup New /\ tx' = [tx EXCEPT ![p] = NoTx]
      /\ repaired' = (repaired \/ \A i \in 1 .. Len(ops) : ops[i].file = "snapshot")
  BY DEF Accept
<1>4. \A i \in 1 .. Len(ops) : files[ops[i].file] = ops[i].result
  OBVIOUS
<1> HIDE DEF ops
<1>5. ASSUME NEW e \in New
      PROVE  /\ e \in Events /\ e.result \in 1 .. MaxCount /\ files["events"] # Missing
             /\ \E i \in 1 .. Len(files["events"]) : files["events"][i] = e
  <2>1. PICK i \in 1 .. Len(ops) : ops[i].file = "events" /\ e = ops[i].result[Len(ops[i].result)]
    OBVIOUS
  <2>2. i = 1 /\ s \in Streams /\ Len(s) \in 1 .. Len(s) /\ s[Len(s)] \in Events /\ s[Len(s)].result \in 1 .. MaxCount
    BY <1>2, <2>1, AcceptedEvent
  <2>3. files["events"] = s
    BY <1>4, <2>1, <2>2
  <2>4. QED
    BY <2>1, <2>2, <2>3, StreamFacts
<1> HIDE DEF New
<1>6. TxTyped' /\ \A q \in Proc : tx'[q] = IF q = p THEN NoTx ELSE tx[q]
  BY <1>3, NoTxFacts, TxKeeps DEF Inv, Typed
<1>7. ProcTyped' /\ Sound' /\ \A q \in Proc : proc'[q] = IF q = p THEN c ELSE proc[q]
  <2>1. Placed(c, tx'[p])
    BY DEF Placed, Driving
  <2>2. \A q \in Proc \ {p} : tx'[q] = tx[q]
    BY <1>6
  <2>3. ProcTyped /\ Sound
    BY DEF Inv, Typed
  <2>4. QED
    BY <2>1, <2>2, <2>3, CommandKeeps
<1>8. RestTyped'
  <2>1. accepted' \subseteq Events /\ \A e \in accepted' : e.result \in 1 .. MaxCount
    BY <1>3, <1>5 DEF Inv, Typed, RestTyped
  <2>2. repaired' \in BOOLEAN
    BY <1>3 DEF Inv, Typed, RestTyped
  <2>3. QED
    BY <2>1, <2>2 DEF Inv, Typed, RestTyped
<1>9. FilesTyped' /\ Edited' = Edited /\ Quiet' = Quiet /\ Agree' = Agree
  BY DEF Inv, Typed, FilesTyped, StreamOK, Edited, Quiet, Agree
<1>10. \A q \in Proc : tx'[q].phase = "publishing" => q # p /\ tx'[q] = tx[q]
  BY <1>6, NoTxFacts
<1>11. Alone'
  BY <1>10 DEF Inv, Alone
<1>12. Stands'
  <2>1. ASSUME Quiet', NEW q \in Proc, proc'[q].pc = "apply" PROVE ExpectedStands(NextOp(q))'
    <3>1. q # p
      BY <1>7, <2>1
    <3>2. tx'[q] = tx[q] /\ proc'[q] = proc[q]
      BY <1>6, <1>7, <3>1
    <3>3. ExpectedStands(NextOp(q))
      BY <1>9, <2>1, <3>2 DEF Inv, Stands
    <3>4. QED
      BY <3>2, <3>3 DEF ExpectedStands, sameFingerprint, NextOp
  <2>2. QED
    BY <2>1 DEF Stands
<1>13. NothingLost'
  <2>1. SUFFICES ASSUME Quiet, NEW e \in accepted'
                 PROVE  /\ files["events"] # Missing
                        /\ \E i \in 1 .. Len(files["events"]) : files["events"][i] = e
    BY <1>9 DEF NothingLost, Quiet
  <2>2. CASE e \in accepted
    BY <2>1, <2>2 DEF Inv, NothingLost, Quiet
  <2>3. CASE e \in New
    BY <1>5, <2>3
  <2>4. QED
    BY <1>3, <2>1, <2>2, <2>3
<1>14. Paired'
  <2>1. SUFFICES ASSUME Quiet', ~repaired' PROVE Paired'
    BY DEF Paired
  <2>2. Quiet /\ ~repaired /\ ~\A i \in 1 .. Len(ops) : ops[i].file = "snapshot"
    BY <1>3, <1>9, <2>1
  <2>3. AppendOps(ops)
    <3>1. ~RepairOnly(ops)
      BY <1>2, <2>2 DEF RepairOnly
    <3>2. QED
      BY <1>2, <3>1 DEF OpsSound
  <2>4. files["events"] = ops[1].result /\ files["snapshot"] = ops[2].result
    BY <1>4, <2>3 DEF AppendOps
  <2>5. s \in Streams /\ Genuine(s) /\ s # <<>>
    BY <1>2, <2>3, StreamFacts, AppendExact DEF AppendOps
  <2>6. PICK l \in Lineage : ops[2].result = replayEventStream(s, l)
    BY <2>3 DEF AppendOps
  <2>7. replayEventStream(s, l) \in Snapshots /\ replayEventStream(s, l).lineage = l
    BY <2>5, <2>6, GenuineEvents, ReplaySnapshot
  <2>8. files["snapshot"] # Missing /\ files["snapshot"] = replayEventStream(files["events"], files["snapshot"].lineage)
    BY <2>4, <2>6, <2>7, ContentsAssumption
  <2>9. Agree'
    BY <1>9, <2>4, <2>5, <2>8 DEF Agree
  <2>10. ~\E q \in Proc : tx'[q].phase = "publishing"
    BY <1>10, <2>2 DEF Inv, Alone, Quiet
  <2>11. QED
    BY <2>9, <2>10 DEF Paired
<1>15. QED
  BY <1>6, <1>7, <1>8, <1>9, <1>11, <1>12, <1>13, <1>14 DEF Inv, Typed

LEMMA CommitStep ==
  ASSUME Inv, NEW p \in Proc, Commit(p)
  PROVE  Inv'
<1>1. proc[p].pc = "publish" /\ UNCHANGED <<files, clash, work, budget>>
  BY DEF Commit, At
<1>2. tx[p].phase = "publishing"
  BY <1>1, CommandFacts DEF Placed
<1>3. CASE UNCHANGED <<tx, accepted, repaired>> /\ Return(p, "state_corrupt")
  BY <1>1, <1>3, ReturnStep DEF Answers, store
<1>4. CASE /\ \A i \in 1 .. Len(tx[p].ops) : files[tx[p].ops[i].file] = tx[p].ops[i].result
           /\ Accept(p) /\ Return(p, "committed")
  <2>1. proc' = [proc EXCEPT ![p] = Idle] /\ answer' \in [Proc -> Answers]
    BY <1>4 DEF Return, Inv, Typed, RestTyped, Answers
  <2>2. QED
    BY <1>1, <1>2, <1>4, <2>1, IdleCommand, AcceptStep
<1>5. QED
  BY <1>3, <1>4 DEF Commit, sameFingerprint

LEMMA RecoverStep ==
  ASSUME Inv, NEW p \in Proc, Recover(p)
  PROVE  Inv'
<1> DEFINE c == proc[p]
<1>1. /\ c.pc = "idle" /\ UNCHANGED <<clash, proc, work, answer, budget>>
  BY DEF Recover, Abandoned, At
<1>2. c \in ProcRecords /\ CommandOK(c) /\ Held(c) /\ tx[p] \in TxRecords /\ TxOK(tx[p])
  BY CommandFacts
<1>3. proc' = [proc EXCEPT ![p] = c]
  BY <1>1 DEF Inv, Typed, ProcTyped
<1>4. answer' \in [Proc -> Answers]
  BY <1>1 DEF Inv, Typed, RestTyped
<1> HIDE DEF c
<1>5. CASE tx[p].phase # "publishing"
  <2>1. tx' = [tx EXCEPT ![p] = NoTx] /\ UNCHANGED <<files, accepted, repaired>>
    BY <1>5 DEF Recover
  <2>2. RestTyped'
    BY <1>1, <2>1, RestKeeps DEF Inv, Typed
  <2>3. Placed(c, NoTx)
    BY <1>1 DEF Placed, Driving
  <2>4. QED
    BY <1>1, <1>2, <1>3, <1>5, <2>1, <2>2, <2>3, NoTxFacts, UnpublishedStep
<1>6. CASE tx[p].phase = "publishing" /\ Published(p)
  <2>1. /\ \A i \in 1 .. Len(tx[p].ops) : files[tx[p].ops[i].file] = tx[p].ops[i].result
        /\ Accept(p) /\ UNCHANGED files
    BY <1>6 DEF Recover
  <2>2. QED
    BY <1>1, <1>2, <1>3, <1>4, <1>6, <2>1, AcceptStep
<1>7. CASE tx[p].phase = "publishing" /\ ~Published(p)
  <2>1. UNCHANGED <<accepted, repaired>> /\ tx' = [tx EXCEPT ![p].done = @ + 1]
    BY <1>7 DEF Recover, Replace
  <2>2. tx[p].done < Len(tx[p].ops)
    BY <1>2, <1>7, TxFields DEF TxOK, Published
  <2>3. files \in [File -> Contents]
    BY FileFacts
  <2>4. \/ files' = files /\ files[NextOp(p).file] = NextOp(p).result
        \/ ExpectedStands(NextOp(p)) /\ files' = [files EXCEPT ![NextOp(p).file] = NextOp(p).result]
    BY <1>7 DEF Recover, Replace
  <2>5. /\ files' = [files EXCEPT ![NextOp(p).file] = NextOp(p).result]
        /\ files' = files \/ ExpectedStands(NextOp(p))
    <3>1. CASE files' = files /\ files[NextOp(p).file] = NextOp(p).result
      BY <2>3, <3>1
    <3>2. QED
      BY <2>4, <3>1
  <2>6. QED
    BY <1>1, <1>2, <1>3, <1>7, <2>1, <2>2, <2>5, PublishStep
<1>8. QED
  BY <1>5, <1>6, <1>7

-----------------------------------------------------------------------------
(* Crashes, hands, and the theorems *)

LEMMA CrashStep ==
  ASSUME Inv, NEW p \in Proc, Crash(p)
  PROVE  Inv'
<1> DEFINE left == budget.crash - 1
<1>1. /\ budget.crash > 0 /\ budget' = [budget EXCEPT !.crash = left]
      /\ proc' = [proc EXCEPT ![p] = Idle] /\ UNCHANGED <<store, work, answer>>
  BY DEF Crash
<1>2. budget \in [crash : 0 .. MaxCrash, edits : 0 .. MaxEdits] /\ left \in 0 .. MaxCrash
  BY <1>1, StoreAssumption DEF Inv, Typed, RestTyped
<1> HIDE DEF left
<1>3. budget' \in [crash : 0 .. MaxCrash, edits : 0 .. MaxEdits] /\ budget'.edits = budget.edits
  BY <1>1, <1>2
<1>4. RestTyped'
  BY <1>1, <1>3 DEF Inv, Typed, RestTyped, store
<1>5. QED
  BY <1>1, <1>3, <1>4, IdleCommand, CommandStep

LEMMA EditStep ==
  ASSUME Inv, Edit
  PROVE  Inv'
<1> DEFINE left == budget.edits - 1
<1>1. /\ budget.edits > 0 /\ budget' = [budget EXCEPT !.edits = left]
      /\ UNCHANGED <<tx, proc, work, answer, accepted, clash, repaired>>
  BY DEF Edit
<1>2. /\ budget \in [crash : 0 .. MaxCrash, edits : 0 .. MaxEdits] /\ left \in 0 .. MaxEdits
      /\ left + 1 = budget.edits /\ left < MaxEdits /\ MaxEdits \in Nat /\ MaxCount \in Nat
  BY <1>1, StoreAssumption, ChainAssumption DEF Inv, Typed, RestTyped
<1> HIDE DEF left
<1>3. budget' \in [crash : 0 .. MaxCrash, edits : 0 .. MaxEdits] /\ budget'.edits = left
  BY <1>1, <1>2
<1>4. RestTyped' /\ TxTyped' /\ ProcTyped' /\ Sound' /\ Alone'
  BY <1>1, <1>3 DEF Inv, Typed, RestTyped, TxTyped, ProcTyped, Sound, Alone
<1>5. Edited' /\ ~Quiet'
  BY <1>2, <1>3 DEF Edited, Quiet
<1>6. Stands' /\ NothingLost' /\ Paired'
  BY <1>5 DEF Stands, NothingLost, Paired, Quiet
<1>7. FilesTyped'
  <2>1. files \in [File -> Contents] /\ files["events"] \in EventsFile /\ files["snapshot"] \in SnapshotFile
    BY FileFacts
  <2> DEFINE n == MaxCount + (MaxEdits - budget.edits)
  <2>2. n \in Nat /\ n + 1 = MaxCount + (MaxEdits - left)
    BY <1>2
  <2>3. files["events"] = Missing \/ LinesOK(files["events"], n)
    BY DEF Inv, Typed, FilesTyped, StreamOK, LinesOK, LineOK
  <2> HIDE DEF n
  <2>4. ASSUME NEW s, s = Missing \/ LinesOK(s, n + 1)
        PROVE  StreamOK(s)'
    BY <1>3, <2>2, <2>4 DEF StreamOK, LinesOK, LineOK
  <2>5. CASE /\ files["events"] # Missing
             /\ \E s \in EditedEvents(files["events"]) : files' = [files EXCEPT !["events"] = s]
    <3>1. PICK s \in EditedEvents(files["events"]) : files' = [files EXCEPT !["events"] = s]
      BY <2>5
    <3>2. s = Missing \/ (s \in Streams /\ LinesOK(s, n + 1))
      BY <2>1, <2>2, <2>3, <2>5, EditedLines DEF EventsFile
    <3>3. s \in EventsFile /\ s \in Contents
      BY <3>2 DEF EventsFile, Contents
    <3>4. files' \in [File -> Contents] /\ files'["events"] = s /\ files'["snapshot"] = files["snapshot"]
      BY <2>1, <3>1, <3>3, FileNames
    <3>5. StreamOK(s)'
      BY <2>4, <3>2
    <3>6. QED
      BY <2>1, <3>3, <3>4, <3>5 DEF FilesTyped
  <2>6. CASE /\ files["snapshot"] # Missing
             /\ \E d \in EditedSnapshots(files["snapshot"]) : files' = [files EXCEPT !["snapshot"] = d]
    <3>1. PICK d \in EditedSnapshots(files["snapshot"]) : files' = [files EXCEPT !["snapshot"] = d]
      BY <2>6
    <3>2. d \in SnapshotFile /\ d \in Contents
      BY <2>1, <2>6, EditedShots DEF SnapshotFile, Contents
    <3>3. files' \in [File -> Contents] /\ files'["snapshot"] = d /\ files'["events"] = files["events"]
      BY <2>1, <3>1, <3>2, FileNames
    <3>4. files["events"] = Missing \/ LinesOK(files["events"], n + 1)
      <4>1. files["events"] # Missing => Len(files["events"]) \in Nat
        BY <2>1, StreamFacts DEF EventsFile
      <4>2. QED
        BY <2>2, <2>3, <4>1 DEF LinesOK
    <3>5. StreamOK(files["events"])'
      BY <1>3, <2>2, <3>3, <3>4 DEF StreamOK, LinesOK, LineOK
    <3>6. QED
      BY <2>1, <3>2, <3>3, <3>5 DEF FilesTyped
  <2>7. QED
    BY <2>5, <2>6 DEF Edit
<1>8. QED
  BY <1>4, <1>6, <1>7 DEF Inv, Typed

LEMMA InitHolds == Init => Inv
<1> SUFFICES ASSUME Init PROVE Inv
  OBVIOUS
<1>1. files = [f \in File |-> Missing] /\ files["events"] = Missing /\ files["snapshot"] = Missing
  BY FileNames DEF Init
<1>2. FilesTyped
  BY <1>1 DEF FilesTyped, Contents, EventsFile, SnapshotFile, StreamOK
<1>3. tx \in [Proc -> TxRecords] /\ \A p \in Proc : tx[p] = NoTx
  BY NoTxFacts DEF Init
<1>4. proc \in [Proc -> ProcRecords] /\ \A p \in Proc : proc[p] = Idle
  BY IdleCommand DEF Init
<1>5. TxTyped /\ ProcTyped /\ Sound
  BY <1>3, <1>4, NoTxFacts, IdleCommand DEF TxTyped, ProcTyped, Sound
<1>6. budget \in [crash : 0 .. MaxCrash, edits : 0 .. MaxEdits]
  BY StoreAssumption DEF Init
<1>7. RestTyped
  BY <1>6, StoreAssumption DEF Init, RestTyped, Answers
<1>8. Alone /\ Stands
  BY <1>3, <1>4, NoTxFacts, IdleCommand DEF Alone, Stands
<1>9. NothingLost
  BY DEF Init, NothingLost
<1>10. Agree
  BY <1>1 DEF Agree
<1>11. Paired
  BY <1>3, <1>10, NoTxFacts DEF Paired
<1>12. QED
  BY <1>2, <1>5, <1>7, <1>8, <1>9, <1>11 DEF Inv, Typed

LEMMA NextHolds == Inv /\ [Next]_vars => Inv'
<1> SUFFICES ASSUME Inv, [Next]_vars PROVE Inv'
  OBVIOUS
<1>1. ASSUME NEW p \in Proc, Step(p) PROVE Inv'
  <2>1. CASE Begin(p) \/ Preflight(p) \/ AssertFresh(p)
    BY <2>1, BeginStep, PreflightStep, AssertFreshStep
  <2>2. CASE Observe(p)
    BY <2>2, ObserveSnapshotStep, RefuseAppendStep, DecideRepairStep, DecideAppendStep DEF Observe
  <2>3. CASE prepareEventAppend(p)
    BY <2>3, SnapshotRequestStep, InspectStep, PrepareFirstAppendStep, HalfMissingStep, ReadEventsStep,
       ReadSnapshotStep DEF prepareEventAppend
  <2>4. CASE Repair(p)
    BY <2>4, RevalidateRepairStep, PreviewRepairStep, DecideAgainStep DEF Repair
  <2>5. CASE Execute(p)
    BY <2>5, MarkStep, PrecheckStep, AuthorizeStep, CheckPublishableStep, ApplyStep, CommitStep DEF Execute
  <2>6. QED
    BY <1>1, <2>1, <2>2, <2>3, <2>4, <2>5 DEF Step
<1>2. ASSUME NEW p \in Proc, Recover(p) \/ Crash(p) PROVE Inv'
  BY <1>2, RecoverStep, CrashStep
<1>3. CASE Edit
  BY <1>3, EditStep
<1>4. CASE UNCHANGED vars
  BY <1>4 DEF vars, Inv, Typed, FilesTyped, TxTyped, ProcTyped, RestTyped, StreamOK, Sound, Alone, Stands,
              NothingLost, Paired, Agree, Quiet, Edited, ExpectedStands, sameFingerprint, NextOp
<1>5. QED
  BY <1>1, <1>2, <1>3, <1>4 DEF Next

LEMMA InvImplies == Inv => TypeOK /\ ExactPrefix /\ NothingLost /\ PairAgrees
<1> SUFFICES ASSUME Inv PROVE TypeOK /\ ExactPrefix /\ NothingLost /\ PairAgrees
  OBVIOUS
<1>1. ASSUME NEW p \in Proc
      PROVE  /\ tx[p].phase \in {"none", "begun", "prepared", "publishing"}
             /\ tx[p].done \in 0 .. Len(tx[p].ops)
             /\ \A i \in 1 .. Len(tx[p].ops) : tx[p].ops[i].file = "events" => StreamOK(tx[p].ops[i].result)
             /\ answer[p] \in Answers
  <2>1. tx[p] \in TxRecords /\ TxOK(tx[p])
    BY CommandFacts
  <2>2. /\ tx[p].phase \in {"none", "begun", "prepared", "publishing"} /\ tx[p].ops \in Seq(OpRecords)
        /\ tx[p].done \in Nat /\ Len(tx[p].ops) \in Nat /\ OpsSound(tx[p].ops)
    BY <2>1, TxFields DEF TxOK
  <2>3. tx[p].done \in 0 .. Len(tx[p].ops)
    BY <2>1, <2>2 DEF TxOK
  <2>4. ASSUME NEW i \in 1 .. Len(tx[p].ops), tx[p].ops[i].file = "events"
        PROVE  StreamOK(tx[p].ops[i].result)
    <3> DEFINE s == tx[p].ops[1].result
    <3>1. i = 1 /\ AppendOps(tx[p].ops)
      BY <2>2, <2>4, AcceptedEvent
    <3>2. s \in Streams /\ Genuine(s) /\ Len(s) <= MaxCount
      BY <3>1 DEF AppendOps
    <3>3. LinesOK(s, MaxCount) /\ Len(s) \in Nat
      BY <3>2, GenuineLines, StreamFacts, ChainAssumption
    <3>4. StreamOK(s)
      BY <3>3, StreamOKLines DEF Inv, Typed
    <3>5. QED
      BY <3>1, <3>4
  <2>5. QED
    BY <2>2, <2>3, <2>4 DEF Inv, Typed, RestTyped
<1>2. TypeOK
  BY <1>1 DEF Inv, Typed, FilesTyped, RestTyped, Answers, TypeOK
<1>3. ExactPrefix
  <2>1. ASSUME NEW p \in Proc, Len(tx[p].ops) = 2 PROVE tx[p].ops \in Seq(OpRecords) /\ AppendOps(tx[p].ops)
    <3>1. tx[p] \in TxRecords /\ TxOK(tx[p])
      BY CommandFacts
    <3>2. tx[p].ops \in Seq(OpRecords) /\ OpsSound(tx[p].ops)
      BY <3>1, TxFields DEF TxOK
    <3>3. ~RepairOnly(tx[p].ops)
      BY <2>1 DEF RepairOnly
    <3>4. QED
      BY <3>2, <3>3 DEF OpsSound
  <2>2. QED
    BY <2>1, AppendExact DEF ExactPrefix
<1>4. PairAgrees
  BY DEF Inv, Paired, Agree, Quiet, PairAgrees
<1>5. QED
  BY <1>2, <1>3, <1>4 DEF Inv

\* The invariant of the pair of files: kept by every read, every step of a
\* transaction, recovery, crash and hand.
THEOREM Invariance == Spec => []Inv
<1>1. QED
  BY InitHolds, NextHolds, PTL DEF Spec

\* The stream never outgrows EVENT_STREAM_COUNT but for the lines a hand repeats,
\* and no transaction writes more than its operations.
THEOREM TypeCorrect == Spec => []TypeOK
<1>1. QED
  BY Invariance, InvImplies, PTL

\* Whatever was edited, raced or crashed, what an append is about to publish is
\* the genuine stream it expects followed by one sealed event, and the snapshots
\* before and after are the replays of the two: prepareEventAppend never covers up
\* an altered history.
THEOREM AppendsExtend == Spec => []ExactPrefix
<1>1. QED
  BY Invariance, InvImplies, PTL

\* An event whose transaction committed stays in events.jsonl, for any number of
\* appenders, crashes and recoveries, while nobody edits the files and no two
\* transactions publish at once.
THEOREM AcceptedStays == Spec => []NothingLost
<1>1. QED
  BY Invariance, InvImplies, PTL

\* Between publications state.json is the replay of events.jsonl.
THEOREM PairsAgree == Spec => []PairAgrees
<1>1. QED
  BY Invariance, InvImplies, PTL
=============================================================================
