---------------------------- MODULE CuratedMemory ----------------------------
(* What the curated-memory reducers compute (domain/memory/index.ts,         *)
(* curation.ts, migration.ts): the ledger of confirmed lessons and archived  *)
(* tombstones, how proposals change it in its two contract versions, and how *)
(* legacy notes and version 1 ledgers become current ones.                   *)
(*                                                                           *)
(* A lesson's identity is the digest of its title, causes, fixes and         *)
(* candidates; causes and fixes follow the title here.  Reviewers, dates and *)
(* the 48 KiB rendering limit are left out, and which lessons are similar or *)
(* obsolete is left to the caller.                                           *)
EXTENDS Integers, FiniteSets, SequencesExt

CONSTANTS
    Titles,        \* titles a reviewer gives
    Candidates,    \* failure candidates
    LegacySource,  \* the candidate a legacy note's lines digest to
    ConfirmedMax,  \* CURATED_MEMORY_CONFIRMED_MAX (24)
    ArchiveMax     \* CURATED_MEMORY_ARCHIVE_MAX (48)

ASSUME LimitsAssumption == ConfirmedMax \in Nat \ {0} /\ ArchiveMax \in Nat \ {0}

Identity == [title : Titles, from : SUBSET (Candidates \cup {LegacySource})]
NoIdentity == [title |-> "none", from |-> {}]

Lesson == [id : Identity, count : Nat]
Tombstone == [id : Identity, count : Nat, to : Identity \cup {NoIdentity}]
Ledger == [version : {"none", "1.0.0", "1.1.0"}, revision : Nat,
           confirmed : Seq(Lesson), archive : Seq(Tombstone)]

NoLedger == [version |-> "none", revision |-> 0, confirmed |-> <<>>, archive |-> <<>>]
EmptyLedger == [NoLedger EXCEPT !.version = "1.0.0"]

lessonFor(title, from, count) == [id |-> [title |-> title, from |-> from], count |-> count]
tombstoneFor(lesson, replacement) ==
    [id |-> lesson.id, count |-> lesson.count, to |-> replacement]

Ids(entries) == {entries[i].id : i \in DOMAIN entries}
Distinct(entries) == \A i, j \in DOMAIN entries : entries[i].id = entries[j].id => i = j
Without(lessons, ids) == SelectSeq(lessons, LAMBDA lesson : lesson.id \notin ids)
Named(lessons, ids) == SelectSeq(lessons, LAMBDA lesson : lesson.id \in ids)
Observations(lessons) == FoldLeft(LAMBDA sum, lesson : sum + lesson.count, 0, lessons)

\* The rendering sorts by identity and shows no observation count.
Rendered(entries) == [id \in Ids(entries) |->
                        Cardinality({i \in DOMAIN entries : entries[i].id = id})]
\* gotchas.md: a rendering, the stock document, or notes a person wrote.
Notes(text) == [kind |-> text, confirmed |-> <<>>, archive |-> <<>>]
StockGotchas == Notes("stock")

renderCuratedMemory(ledger) ==
    [kind |-> "projection", confirmed |-> Rendered(ledger.confirmed),
     archive |-> Rendered(ledger.archive)]

\* The checks a schema cannot express.
validatesCuratedMemorySemantics(ledger) ==
    /\ Distinct(ledger.confirmed)
    /\ Distinct(ledger.archive)
    /\ Ids(ledger.confirmed) \cap Ids(ledger.archive) = {}
    /\ \A i \in DOMAIN ledger.archive :
          ledger.archive[i].to \in {NoIdentity} \cup Ids(ledger.confirmed)
                                                \cup Ids(ledger.archive)

Rolling(archive) ==
    IF Len(archive) <= ArchiveMax THEN archive
    ELSE SubSeq(archive, Len(archive) - ArchiveMax + 1, Len(archive))

\* A reduction is the next ledger, or NoLedger when it is refused.
complete(prior, confirmed, archive) ==
    LET next == [prior EXCEPT !.revision = @ + 1, !.confirmed = confirmed,
                              !.archive = Rolling(archive)]
    IN  IF Len(confirmed) <= ConfirmedMax /\ validatesCuratedMemorySemantics(next)
        THEN next ELSE NoLedger

\* One lesson too many gets through.
completeCurrentOneMore(prior, confirmed, archive) ==
    IF Len(confirmed) <= ConfirmedMax + 1
    THEN [prior EXCEPT !.revision = @ + 1, !.confirmed = confirmed,
                       !.archive = Rolling(archive)]
    ELSE NoLedger

\* Version 1.1 completes on the number of lessons alone.
completeCurrent(prior, confirmed, archive) ==
    IF Len(confirmed) <= ConfirmedMax
    THEN [prior EXCEPT !.revision = @ + 1, !.confirmed = confirmed,
                       !.archive = Rolling(archive)]
    ELSE NoLedger

lessonsByIds(ledger, ids) ==
    LET source == Named(ledger.confirmed, ids)
    IN  IF Len(source) = Cardinality(ids) THEN source ELSE <<>>

\* The replacement unites its sources' candidates and sums their counts.
Replacement(source, title) ==
    lessonFor(title, UNION {source[i].id.from : i \in DOMAIN source},
              Observations(source))

Buried(source, replacement) ==
    [i \in DOMAIN source |-> tombstoneFor(source[i], replacement)]

\* Version 1 lessons carry no count.
promote(ledger, request) ==
    complete(ledger, Append(ledger.confirmed, lessonFor(request.title, request.from, 0)),
             ledger.archive)

merge(ledger, request) ==
    LET source == lessonsByIds(ledger, request.ids)
        lesson == Replacement(source, request.title)
    IN  IF Len(source) < 2 THEN NoLedger
        ELSE complete(ledger, Append(Without(ledger.confirmed, request.ids), lesson),
                      ledger.archive \o Buried(source, lesson.id))

archive(ledger, request) ==
    LET source == Named(ledger.confirmed, request.ids)
    IN  IF source = <<>> THEN NoLedger
        ELSE complete(ledger, Without(ledger.confirmed, request.ids),
                      Append(ledger.archive, tombstoneFor(Head(source), NoIdentity)))

reduceMemoryChange(ledger, request) ==
    CASE request.op = "promote" -> promote(ledger, request)
      [] request.op = "merge" -> merge(ledger, request)
      [] request.op = "archive" -> archive(ledger, request)
      [] OTHER -> NoLedger

-----------------------------------------------------------------------------
(* Version 1.1: observations are counted *)

observationFacts(inbox, from) == SumFunctionOnSet(inbox, from)

selectCandidates(inbox, from) == \A c \in from : c \in Candidates /\ inbox[c] > 0

mergeCurrent(ledger, ids, title) ==
    LET source == lessonsByIds(ledger, ids)
        lesson == Replacement(source, title)
    IN  IF source = <<>> THEN NoLedger
        ELSE completeCurrent(ledger, Append(Without(ledger.confirmed, ids), lesson),
                             ledger.archive \o Buried(source, lesson.id))

promoteCurrent(ledger, inbox, request) ==
    IF ~selectCandidates(inbox, request.from) THEN NoLedger
    ELSE completeCurrent(ledger,
            Append(ledger.confirmed, lessonFor(request.title, request.from,
                                               observationFacts(inbox, request.from))),
            ledger.archive)

\* The candidates are the lesson's own; every lesson of that identity becomes
\* the first one, reinforced.
reinforce(ledger, inbox, request) ==
    LET found == Named(ledger.confirmed, request.ids)
        known == IF found = <<>> THEN {} ELSE Head(found).id.from
        added == observationFacts(inbox, request.from)
    IN  IF request.from \subseteq known /\ selectCandidates(inbox, request.from)
        THEN completeCurrent(ledger,
                [i \in DOMAIN ledger.confirmed |->
                    IF ledger.confirmed[i].id \in request.ids
                    THEN [Head(found) EXCEPT !.count = @ + added]
                    ELSE ledger.confirmed[i]],
                ledger.archive)
        ELSE NoLedger

archiveCurrent(ledger, request) ==
    LET source == Named(ledger.confirmed, request.ids)
    IN  IF source = <<>> THEN NoLedger
        ELSE completeCurrent(ledger, Without(ledger.confirmed, request.ids),
                 Append(ledger.archive, tombstoneFor(Head(source), NoIdentity)))

reduceMemoryChangeV1_4(ledger, inbox, request) ==
    CASE request.op = "promote" -> promoteCurrent(ledger, inbox, request)
      [] request.op = "reinforce" -> reinforce(ledger, inbox, request)
      [] request.op = "merge" /\ Cardinality(request.ids) >= 2 ->
            mergeCurrent(ledger, request.ids, request.title)
      [] request.op = "archive" -> archiveCurrent(ledger, request)
      [] OTHER -> NoLedger

-----------------------------------------------------------------------------
(* Curation: scored proposals, approved as one batch *)

\* An obsolete lesson seen once is deleted, another one is archived.
proposeMemoryCuration(ledger) ==
    LET lessons == ledger.confirmed
    IN  {[type |-> "merge", ids |-> {lessons[pair[1]].id, lessons[pair[2]].id}] :
            pair \in {both \in (DOMAIN lessons) \X (DOMAIN lessons) :
                         /\ both[1] < both[2]
                         /\ lessons[both[1]].id # lessons[both[2]].id}}
        \cup {[type |-> IF lessons[i].count = 1 THEN "delete" ELSE "archive",
               ids |-> {lessons[i].id}] : i \in DOMAIN lessons}

\* The better observed lesson names the merged one.
CanonicalTitle(source) ==
    source[CHOOSE i \in DOMAIN source :
              \A j \in DOMAIN source : source[i].count >= source[j].count].id.title

applyProposal(ledger, proposal) ==
    LET source == lessonsByIds(ledger, proposal.ids)
    IN  CASE ledger = NoLedger \/ source = <<>> -> NoLedger
          [] proposal.type = "merge" ->
                mergeCurrent(ledger, proposal.ids, CanonicalTitle(source))
          [] proposal.type = "archive" ->
                [ledger EXCEPT !.confirmed = Without(@, proposal.ids),
                               !.archive = Append(@, tombstoneFor(Head(source), NoIdentity))]
          [] proposal.type = "delete" ->
                [ledger EXCEPT !.confirmed = Without(@, proposal.ids)]

\* The approved proposals may not share a lesson; they apply one after another
\* and complete as one change.
applyMemoryCuration(ledger, approved) ==
    LET overlap == \E i, j \in DOMAIN approved :
                      i # j /\ approved[i].ids \cap approved[j].ids # {}
        applied == FoldLeft(applyProposal, ledger, approved)
    IN  IF overlap \/ applied = NoLedger THEN NoLedger
        ELSE completeCurrent(ledger, applied.confirmed, applied.archive)

-----------------------------------------------------------------------------
(* Adoption *)

classifyLegacyMemory(ledger, gotchas) ==
    CASE ledger # NoLedger -> "adopted"
      [] gotchas = StockGotchas -> "safely_adoptable"
      [] OTHER -> "migration_required"

\* Each mapped passage becomes a lesson; a stock document has none.
reduceLegacyMemoryMigration(gotchas, title) ==
    [EmptyLedger EXCEPT !.revision = 1,
        !.confirmed = IF gotchas = StockGotchas THEN <<>>
                      ELSE <<lessonFor(title, {LegacySource}, 0)>>]

\* As many observations as the lesson has candidates.
upgradeCuratedMemoryV1(ledger) ==
    [ledger EXCEPT !.version = "1.1.0", !.revision = @ + 1,
        !.confirmed = [i \in DOMAIN ledger.confirmed |->
            [ledger.confirmed[i] EXCEPT !.count = Cardinality(ledger.confirmed[i].id.from)]]]
==============================================================================
