-------------------------- MODULE TransactionModel --------------------------
(***************************************************************************)
(* The pure part of managed transactions (packages/runtime/src/domain/     *)
(* transactions and the validators of composition/transactions.ts):        *)
(* fingerprints and operations, the normalisation of an effect plan        *)
(* against observed destinations, the journal a transaction keeps on disk, *)
(* and the decision recovery takes from a manifest, a progress document    *)
(* and an observation.                                                     *)
(*                                                                         *)
(* A fingerprint is Missing, Directory or a content: sizes and digests     *)
(* only serve to compare contents.  An operation's kind follows from its   *)
(* result, and its identifier is its position in the manifest.             *)
(***************************************************************************)
EXTENDS Integers, SequencesExt

CONSTANTS
    Path,        \* managed destinations, files and directories
    Content,     \* file contents, told apart by their digest
    Missing,     \* fingerprint of a destination without an entry
    Directory,   \* fingerprint of a directory
    Above,       \* Above[p]: the managed directories above p, outermost first
    MaxOps       \* bound on the operations of one manifest

ASSUME FingerprintAssumption ==
    /\ Missing # Directory
    /\ Missing \notin Content
    /\ Directory \notin Content

ASSUME PathAssumption == Above \in [Path -> Seq(Path)]

ASSUME BoundAssumption == MaxOps \in Nat

-----------------------------------------------------------------------------

Fingerprint == Content \cup {Missing, Directory}

\* One managed operation.  write_file is the only kind with a staged payload.
Operation == [path : Path, expected : Fingerprint, result : Fingerprint]

Staged(op) == op.result \in Content

ParentIsDirectory(dst, p) ==
    IF Above[p] = <<>> THEN TRUE ELSE dst[Last(Above[p])] = Directory

\* The entries of the directory p is in.
Siblings(p) == {q \in Path : Above[q] = Above[p]}

\* freezeManagedOperation, by kind of result.
ValidOperation(op) ==
    /\ op \in Operation
    /\ op.expected # op.result
    /\ CASE op.result = Directory -> op.expected = Missing
         [] op.result = Missing   -> op.expected \in Content
         [] OTHER                 -> op.expected # Directory

\* validateManagedRelationships: no destination twice, and an entry below
\* another destination only after that directory's creation, as a new entry.
ValidRelationships(ops) ==
    \A i, j \in 1 .. Len(ops) : i < j =>
        /\ ops[i].path # ops[j].path
        /\ ~Contains(Above[ops[i].path], ops[j].path)
        /\ Contains(Above[ops[j].path], ops[i].path) =>
              ops[i].result = Directory /\ ops[j].expected = Missing

ValidPlan(ops) ==
    /\ ops \in Seq(Operation)
    /\ Len(ops) \in 1 .. MaxOps
    /\ \A i \in 1 .. Len(ops) : ValidOperation(ops[i])
    /\ ValidRelationships(ops)

-----------------------------------------------------------------------------
(* normalizeManagedMutationPlan: effects against what was observed.        *)

\* An effect wants its path to become its result.
Effect == [path : Path, result : Fingerprint]

\* draft.obs is the observed state with the drafted operations applied.
Draft(draft, op) ==
    [draft EXCEPT !.obs[op.path] = op.result,
                  !.ops = IF op.expected = op.result THEN @ ELSE Append(@, op)]

SynthesizeMissingParents(draft, p) ==
    FoldLeft(LAMBDA acc, dir :
               IF acc.obs[dir] \in Content
               THEN [acc EXCEPT !.ok = FALSE]
               ELSE Draft(acc, [path |-> dir, expected |-> acc.obs[dir], result |-> Directory]),
             draft, Above[p])

NormalizeEffect(draft, effect) ==
    LET acc == IF effect.result = Missing THEN draft
               ELSE SynthesizeMissingParents(draft, effect.path)
        old == acc.obs[effect.path]
        fits == IF effect.result = Directory THEN old \notin Content ELSE old # Directory
    IN  IF acc.ok /\ fits
        THEN Draft(acc, [path |-> effect.path, expected |-> old, result |-> effect.result])
        ELSE [acc EXCEPT !.ok = FALSE]

\* [ok, ops]: ok is FALSE when the code throws invalidState, ops is empty for a
\* plan that is already satisfied.
Normalize(effects, dst) ==
    FoldLeft(NormalizeEffect, [ok |-> TRUE, ops |-> <<>>, obs |-> dst], effects)

-----------------------------------------------------------------------------
(* The journal: .brain/transactions/<id>/.                                 *)

Phase == {"begun", "prepared", "publishing", "committed", "aborted"}

\* progress.json.  bound says manifestDigest is set: the recovery token is then
\* the manifest digest, otherwise the digest of the transaction's identity.
\* published is the length of publishedOperationIds, a prefix of the manifest.
Progress == [phase : Phase, bound : BOOLEAN, published : 0 .. MaxOps]

NoProgress == [phase |-> "missing", bound |-> FALSE, published |-> 0]

FileState == {"missing", "torn", "full"}

NoPayloads == [i \in 1 .. MaxOps |-> "missing"]

Journal == [root : BOOLEAN, prog : Progress \cup {NoProgress},
            next : Progress \cup {NoProgress}, staging : BOOLEAN,
            pay : [1 .. MaxOps -> FileState], man : FileState]

NoJournal == [root |-> FALSE, prog |-> NoProgress, next |-> NoProgress,
              staging |-> FALSE, pay |-> NoPayloads, man |-> "missing"]

Marked(j) == j.prog # NoProgress

Terminal(phase) == phase \in {"committed", "aborted"}

HasCleanupEntries(j) ==
    j.staging \/ j.next # NoProgress \/ (~j.prog.bound /\ j.man # "missing")

\* firstIncompleteSummary
Incomplete(j) == Marked(j) /\ (~Terminal(j.prog.phase) \/ HasCleanupEntries(j))

\* What inspectManagedTransactions refuses to summarise.
CorruptJournal(j) ==
    j.root /\ (~Marked(j) \/ (j.prog.bound /\ j.man # "full"))

-----------------------------------------------------------------------------
(* decideRecovery                                                          *)

Decision(kind, op) == [kind |-> kind, op |-> op]

Blocked == Decision("blocked", 0)

ResultsObserved(ops, dst) ==
    {i \in 1 .. Len(ops) : dst[ops[i].path] = ops[i].result}

ExpectedObserved(ops, dst) ==
    {i \in 1 .. Len(ops) : dst[ops[i].path] = ops[i].expected}

\* inspectPayloads: a payload still there is the one that was staged.
PayloadsKnown(ops, pay) ==
    \A i \in 1 .. Len(ops) : Staged(ops[i]) => pay[i] # "torn"

AnyPayload(ops, pay) ==
    \E i \in 1 .. Len(ops) : Staged(ops[i]) /\ pay[i] # "missing"

PayloadsComplete(ops, pay) ==
    \A i \in 1 .. Len(ops) : Staged(ops[i]) => pay[i] = "full"

DecideTerminal(ops, pay) ==
    IF ~PayloadsKnown(ops, pay) THEN Blocked
    ELSE IF AnyPayload(ops, pay) THEN Decision("cleanup", 0) ELSE Decision("complete", 0)

DecidePrepublication(ops, prog, dst, pay) ==
    IF /\ ExpectedObserved(ops, dst) = 1 .. Len(ops)
       /\ IF prog.phase = "begun" THEN PayloadsKnown(ops, pay) ELSE PayloadsComplete(ops, pay)
    THEN Decision("abort", 0)
    ELSE Blocked

\* Mutant: payloads of published operations are ignored.
PublishingPayloadsLax(ops, pay, k) ==
    \A i \in k + 1 .. Len(ops) : Staged(ops[i]) => pay[i] = "full"

\* findPublishingPayloadFailure: consumed by the first k renames, kept by the rest.
PublishingPayloads(ops, pay, k) ==
    \A i \in 1 .. Len(ops) : Staged(ops[i]) => pay[i] = (IF i <= k THEN "missing" ELSE "full")

\* Mutant: progress jumps over an operation.
DecidePublishingSkips(ops, prog, dst, pay) ==
    Decision("record_published", prog.published + 2)

\* Mutant: a transaction that recorded no publication yet is still aborted.
DecidePublishingAborts(ops, prog, dst, pay) ==
    IF prog.published = 0 THEN Decision("abort", 0) ELSE Decision("commit", 0)

DecidePublishing(ops, prog, dst, pay) ==
    LET done == ResultsObserved(ops, dst)
        k    == CHOOSE n \in 0 .. Len(ops) : done = 1 .. n
    IN  IF \/ \A n \in 0 .. Len(ops) : done # 1 .. n
           \/ done \cup ExpectedObserved(ops, dst) # 1 .. Len(ops)
           \/ prog.published > k
           \/ ~PublishingPayloads(ops, pay, k)
        THEN Blocked
        ELSE IF prog.published < k THEN Decision("record_published", prog.published + 1)
        ELSE IF k < Len(ops) THEN Decision("publish", k + 1)
        ELSE Decision("commit", 0)

ValidPublishedPrefix(ops, prog) ==
    CASE prog.phase = "committed"  -> prog.published = Len(ops)
      [] prog.phase = "publishing" -> prog.published <= Len(ops)
      [] OTHER                     -> prog.published = 0

DecideRecovery(ops, prog, dst, pay) ==
    IF ~ValidPublishedPrefix(ops, prog) THEN Blocked
    ELSE CASE prog.phase = "aborted" -> DecideTerminal(ops, pay)
           [] prog.phase \in {"begun", "prepared"} -> DecidePrepublication(ops, prog, dst, pay)
           [] prog.phase = "committed" ->
                 IF ResultsObserved(ops, dst) = 1 .. Len(ops)
                 THEN DecideTerminal(ops, pay) ELSE Blocked
           [] OTHER -> DecidePublishing(ops, prog, dst, pay)

=============================================================================
