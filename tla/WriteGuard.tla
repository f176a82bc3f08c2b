------------------------------ MODULE WriteGuard ------------------------------
(* Which project files a host may write, and for which objective.            *)
(*                                                                           *)
(* `objective` (domain/cli/objective.ts) names the active feature and keeps  *)
(* its state and history.  `scope record` translates the reviewer's summary  *)
(* of the active feature into scope.json (composition/write-guard.ts).       *)
(* Before a structured mutation the host asks `guard write`, which reads     *)
(* guardrails, active feature, scope and summary one after the other and     *)
(* judges every target of the request under what it read.                    *)
(*                                                                           *)
(* Commands run side by side with the guard.  Each reads its files one by    *)
(* one, and publishes its plan file by file in a managed transaction         *)
(* (composition/index.ts applyPlan), cut down to the steps that other        *)
(* commands can see.  A command may die between any two steps; recovery ends *)
(* what it left.  People edit the policy files.  A glob is modelled by the   *)
(* set of paths it matches, a path by a name.                                *)
EXTENDS Naturals, Sequences, FiniteSets, SequencesExt

CONSTANTS
    Features,        \* names a feature directory can have
    Texts,           \* objective texts
    featureIdentity, \* text -> feature it names
    Paths,           \* paths inside the project
    BrainPaths,      \* those below .brain/
    ImmutablePaths,  \* those no policy may open: migrations, AGENTS.md, .env ...
    Scopes,          \* scopes a reviewer writes: their allow and deny lists of globs
    WriteBlocks,     \* lists of globs guardrails.json may hold
    Requests,        \* sequences of mutations a host asks for
    Reviewed,        \* feature -> scope its summary declares at first
    Starts,          \* "fresh", or the text of a completed objective brought along
    Procs,           \* commands in flight together
    Budgets          \* bounds: the commands, requests, edits by hand and crashes of a behaviour

ASSUME PathsAssumption == BrainPaths \subseteq Paths /\ ImmutablePaths \subseteq Paths
ASSUME IdentityAssumption == featureIdentity \in [Texts -> Features \cup {"unnameable"}]

\* No name, text or path is one of the words that stand for the lack of one.
ASSUME NamesAssumption ==
    /\ {"none", "nameless", "corrupt", "unnameable"} \cap Features = {}
    /\ {"none", "fresh"} \cap Texts = {}
    /\ {"outside", "dangling"} \cap Paths = {}

\* What is brought along is the objective of a feature that has a name.
ASSUME StartsAssumption ==
    Starts \subseteq {"fresh"} \cup {text \in Texts : featureIdentity[text] \in Features}

\* A scope is its two lists.
ASSUME ScopesAssumption ==
    /\ \A s \in Scopes : s = [allow |-> s.allow, deny |-> s.deny]
    /\ Reviewed \in [Features -> Scopes]

\* The mutations of a structured tool call.
Mutations == [kind : {"create", "update", "delete"}, path : Paths]
                 \cup [kind : {"move"}, source : Paths, path : Paths]

ASSUME RequestsAssumption == Requests \subseteq Seq(Mutations)
ASSUME BudgetsAssumption == Budgets \subseteq [commands : Nat, requests : Nat, edits : Nat, crashes : Nat]

VARIABLES
    guardrails,  \* .brain/guardrails.json: its write blocks, if it can be read
    active,      \* .brain/02-features/active: a feature, "none" if missing or blank,
                 \* "nameless" if only its first line is, "corrupt" if that is no name
    states,      \* feature -> state.json
    documents,   \* feature -> objective.md: the state it renders
    history,     \* feature -> objective-history.jsonl
    scopes,      \* feature -> scope.json
    summaries,   \* feature -> scope sections of 03-summa.md
    link,        \* path -> canonical path, "outside" or "dangling"
    guard,       \* the guard request in flight, or the last one answered
    proc,        \* process -> objective or scope command in flight
    tx,          \* process -> transaction of its command, as the journal tells
    spare,       \* what is left of the bounds
    permitted    \* history: paths the policy in force permitted at some instant
                 \* since the guard request began

policyFiles == <<guardrails, active, scopes, summaries>>
records == <<states, documents, history>>
vars == <<policyFiles, records, link, guard, proc, tx, spare, permitted>>

NoState == [text |-> "none", status |-> "none", revision |-> 0, at |-> 0]

\* A policy file as its reader sees it: missing, corrupt, or what it declares.
Document(kind, content) == [kind |-> kind, content |-> content]
Missing == Document("missing", <<>>)
Corrupt == Document("corrupt", <<>>)
Documents(contents) == {Missing, Corrupt} \cup {Document("valid", c) : c \in contents}
Readable(document) == document.kind = "valid"

NoScope == [allow |-> <<>>, deny |-> <<>>]
Policies == [valid : BOOLEAN, blocks : WriteBlocks \cup {<<>>}, scope : Scopes \cup {NoScope}]
NoPolicy == [valid |-> FALSE, blocks |-> <<>>, scope |-> NoScope]

GuardStages == {"idle", "inspect", "guardrails", "active", "scope", "summary", "judge",
                "allowed", "denied"}
Answered == {"idle", "allowed", "denied"}
NoGuard == [stage |-> "idle", targets |-> <<>>, at |-> 1, current |-> {}, asked |-> {},
            loaded |-> FALSE, feature |-> "none", policy |-> NoPolicy, disturbed |-> FALSE]

IdleProc == [stage |-> "idle", feature |-> "none", now |-> 0, state |-> NoState, log |-> <<>>,
             scope |-> Missing, expect |-> Missing, plan |-> <<>>, seen |-> <<>>]
ProcStages == {"idle", "state", "history", "decide", "summary", "scope", "preflight", "inspect",
               "mark", "precheck", "authorize", "publish", "rename", "result"}

NoTx == [phase |-> "none", ops |-> <<>>, done |-> 0]

Active == Features \cup {"none", "nameless", "corrupt"}
States == [text : Texts \cup {"none"}, revision : Nat, at : Nat, status : {"none", "active", "completed"}]
Lines == [transition : {"created", "replaced", "reopened", "completed"}, at : Nat,
          revision : Nat \ {0}, text : Texts, replaced : Texts \cup {"none"}]

TypeOK ==
    /\ guardrails \in Documents(WriteBlocks)
    /\ active \in Active
    /\ states \in [Features -> States] /\ documents \in [Features -> States]
    /\ history \in [Features -> Seq(Lines)]
    /\ scopes \in [Features -> Documents(Scopes)]
    /\ summaries \in [Features -> Documents(Scopes)]
    /\ link \in [Paths -> Paths \cup {"outside", "dangling"}]
    /\ guard.stage \in GuardStages /\ guard.policy \in Policies /\ guard.asked \subseteq Paths \cup {"outside", "dangling"}
    /\ guard.at \in 1..(Len(guard.targets) + 1)
    /\ \A p \in Procs :
        /\ proc[p].stage \in ProcStages
        /\ tx[p].phase \in {"none", "begun", "prepared", "publishing"}
        /\ tx[p].done \in 0..Len(tx[p].ops)
    /\ spare \in [commands : Nat, requests : Nat, edits : Nat, crashes : Nat]
    /\ permitted \subseteq Paths

-----------------------------------------------------------------------------
(* What a policy decides *)

\* The last pattern of the list that matches decides; a negated one lets go.
matchesOrderedGlobs(patterns, path) ==
    LET hits == {i \in DOMAIN patterns : path \in patterns[i].matches}
    IN  hits # {} /\ ~patterns[Max(hits)].negated

scopesAgree(recorded, reviewed) ==
    recorded.allow = reviewed.allow /\ recorded.deny = reviewed.deny

\* Immutable blocks, project blocks, then the feature's deny and allow lists.
decideWriteTarget(path, blocks, scope) ==
    /\ path \notin ImmutablePaths
    /\ ~matchesOrderedGlobs(blocks, path)
    /\ ~matchesOrderedGlobs(scope.deny, path)
    /\ \/ path \in BrainPaths
       \/ scope.allow = <<>>
       \/ matchesOrderedGlobs(scope.allow, path)

\* Under an invalid policy only .brain may be written, so that it can be repaired.
evaluateWriteRequest(identities, policy) ==
    /\ \A path \in identities : decideWriteTarget(path, policy.blocks, policy.scope)
    /\ policy.valid \/ identities \subseteq BrainPaths

\* The lexical path and, where it differs, the canonical one.
targetIdentities(path) == {path, link[path]}

\* As a bug: only where the move ends is looked at.
extractMutationTargetsOfEnds(request) == [i \in DOMAIN request |-> request[i].path]

\* Flattened in request order, a move's source before its destination.
extractMutationTargets(request) ==
    FlattenSeq([i \in DOMAIN request |->
        IF request[i].kind = "move" THEN <<request[i].source, request[i].path>>
        ELSE <<request[i].path>>])

\* Every path the request names.
Named(request) ==
    {request[i].path : i \in DOMAIN request}
        \cup {request[i].source : i \in {j \in DOMAIN request : request[j].kind = "move"}}

\* What a guard reading everything at this instant would hold.
PolicyNow ==
    CASE ~Readable(guardrails) -> NoPolicy
      [] Readable(guardrails) /\ active \notin Features ->
            [NoPolicy EXCEPT !.blocks = guardrails.content, !.valid = active = "none"]
      [] Readable(guardrails) /\ active \in Features /\ scopes[active] = Missing ->
            [NoPolicy EXCEPT !.blocks = guardrails.content, !.valid = TRUE]
      [] OTHER ->
            LET agrees == Readable(scopes[active]) /\ scopes[active] = summaries[active]
            IN  [valid |-> agrees, blocks |-> guardrails.content,
                 scope |-> IF agrees THEN scopes[active].content ELSE NoScope]

PermittedNow == {path \in Paths : evaluateWriteRequest({path}, PolicyNow)}

Remember ==
    permitted' = CASE guard'.stage \in {"idle", "denied"} -> {}
                   [] guard'.stage = "allowed" -> permitted
                   [] guard.stage \in Answered /\ guard'.stage \notin Answered -> PermittedNow'
                   [] OTHER -> permitted \cup PermittedNow'

Spend(budget) == spare[budget] > 0 /\ spare' = [spare EXCEPT ![budget] = @ - 1]

-----------------------------------------------------------------------------
(* guard write *)

Guarding(stage) == guard.stage = stage
Answers(answer) ==
    guard' = [NoGuard EXCEPT !.stage = answer, !.disturbed = guard.disturbed,
                             !.asked = IF answer = "allowed" THEN guard.asked ELSE {}]
Disturbed == IF guard.stage \in Answered THEN guard ELSE [guard EXCEPT !.disturbed = TRUE]
Loads(policy) == guard' = [guard EXCEPT !.stage = "judge", !.loaded = TRUE, !.policy = policy]
GuardOnly == UNCHANGED <<policyFiles, records, link, proc, tx>>

\* The host relays a structured mutation and holds the tool call until the
\* answer.  What the adapter cannot normalise arrives without a mutation.
relayPreToolUse(request) ==
    /\ guard.stage \in Answered
    /\ Spend("requests")
    /\ guard' = [NoGuard EXCEPT !.stage = IF request = <<>> THEN "denied" ELSE "inspect",
                                !.targets = extractMutationTargets(request),
                                !.asked = UNION {targetIdentities(path) : path \in Named(request)}]
    /\ GuardOnly /\ Remember

\* The target is resolved against the root; the first one loads the policy.
inspectMutationTarget ==
    /\ Guarding("inspect")
    /\ LET path == guard.targets[guard.at]
       IN  IF link[path] \in {"outside", "dangling"} THEN Answers("denied")
           ELSE guard' = [guard EXCEPT
                   !.current = targetIdentities(path),
                   !.stage = IF guard.loaded THEN "judge" ELSE "guardrails"]
    /\ UNCHANGED spare /\ GuardOnly /\ Remember

readGuardrails ==
    /\ Guarding("guardrails")
    /\ IF Readable(guardrails)
       THEN guard' = [guard EXCEPT !.stage = "active", !.policy.blocks = guardrails.content]
       ELSE Loads(NoPolicy)
    /\ UNCHANGED spare /\ GuardOnly /\ Remember

activeFeature ==
    /\ Guarding("active")
    /\ IF active \in Features
       THEN guard' = [guard EXCEPT !.stage = "scope", !.feature = active]
       ELSE Loads([guard.policy EXCEPT !.valid = active = "none"])
    /\ UNCHANGED spare /\ GuardOnly /\ Remember

readScope ==
    /\ Guarding("scope")
    /\ LET scope == scopes[guard.feature]
       IN  IF Readable(scope)
           THEN guard' = [guard EXCEPT !.stage = "summary", !.policy.scope = scope.content]
           ELSE Loads([guard.policy EXCEPT !.valid = scope = Missing])
    /\ UNCHANGED spare /\ GuardOnly /\ Remember

\* Without a summary that parses and agrees, the scope is not policy.
readSummary ==
    /\ Guarding("summary")
    /\ LET reviewed == summaries[guard.feature]
           agrees == Readable(reviewed) /\ scopesAgree(guard.policy.scope, reviewed.content)
       IN  Loads([guard.policy EXCEPT !.valid = agrees,
                                      !.scope = IF agrees THEN @ ELSE NoScope])
    /\ UNCHANGED spare /\ GuardOnly /\ Remember

\* One refused target refuses the request; after the last one it is allowed.
guardOutcome ==
    /\ Guarding("judge")
    /\ IF ~evaluateWriteRequest(guard.current, guard.policy)
       THEN Answers("denied")
       ELSE IF guard.at = Len(guard.targets) THEN Answers("allowed")
       ELSE guard' = [guard EXCEPT !.stage = "inspect", !.at = @ + 1]
    /\ UNCHANGED spare /\ GuardOnly /\ Remember

\* Timeout, a failed process or an unreadable answer: the host denies the call.
relayFails ==
    /\ guard.stage \notin Answered
    /\ Answers("denied")
    /\ UNCHANGED spare /\ GuardOnly /\ Remember

-----------------------------------------------------------------------------
(* objective *)

ProcOnly == UNCHANGED <<policyFiles, records, link, guard, tx>>
Moves(p, next) == proc' = [proc EXCEPT ![p] = next]

Incomplete(p) == tx[p].phase # "none"
Free(p) == proc[p].stage = "idle" /\ ~Incomplete(p)

\* readActiveFeature: where the guard takes offence at a blank first line, there
\* is no objective yet; a name the guard would refuse is still a name here.  The
\* instant of a command is one no other command reads.
observeObjective(p) ==
    /\ Free(p)
    /\ Spend("commands")
    /\ Moves(p, [IdleProc EXCEPT !.stage = IF active \in {"none", "nameless"} THEN "decide" ELSE "state",
                                 !.feature = active, !.now = spare.commands])
    /\ ProcOnly /\ Remember

\* Without a readable state the command is refused, never started over.
readFeatureState(p) ==
    /\ proc[p].stage = "state"
    /\ IF proc[p].feature \in Features /\ states[proc[p].feature] # NoState
       THEN Moves(p, [proc[p] EXCEPT !.stage = "history", !.state = states[proc[p].feature]])
       ELSE Moves(p, IdleProc)
    /\ UNCHANGED spare /\ ProcOnly /\ Remember

readHistory(p) ==
    /\ proc[p].stage = "history"
    /\ Moves(p, [proc[p] EXCEPT !.stage = "decide", !.log = history[proc[p].feature]])
    /\ UNCHANGED spare /\ ProcOnly /\ Remember

\* Refused or unchanged: nothing to write.
decideObjective(current, text, replace) ==
    /\ featureIdentity[text] # "unnameable"
    /\ current.text # text
    /\ current.status = "active" => replace

Transition(current) ==
    CASE current = NoState -> "created"
      [] current.status = "active" -> "replaced"
      [] OTHER -> "reopened"

stateFor(current, text, now) ==
    [text |-> text, status |-> "active", revision |-> current.revision + 1, at |-> now]

\* The entries observed go on only when the feature did not move.
inherited(cmd, text) == IF cmd.feature = featureIdentity[text] THEN cmd.log ELSE <<>>

appendedHistory(cmd, text, state) ==
    Append(inherited(cmd, text),
           [transition |-> Transition(cmd.state), at |-> state.at, revision |-> state.revision,
            text |-> state.text, replaced |-> cmd.state.text])

Write(file, feature, result) == [file |-> file, feature |-> feature, result |-> result]

\* State, document, history and active feature, in this order and without
\* fingerprints of what was read.  The text and --replace were given at the
\* start; nothing read them until now.
recorded(p, text, replace) ==
    /\ proc[p].stage = "decide"
    /\ LET cmd == proc[p]
           feature == featureIdentity[text]
           state == stateFor(cmd.state, text, cmd.now)
       IN  Moves(p, IF decideObjective(cmd.state, text, replace)
                    THEN [cmd EXCEPT !.stage = "preflight",
                                     !.plan = <<Write("state", feature, state),
                                                Write("document", feature, state),
                                                Write("history", feature, appendedHistory(cmd, text, state)),
                                                Write("active", feature, feature)>>]
                    ELSE IdleProc)
    /\ UNCHANGED spare /\ ProcOnly /\ Remember

-----------------------------------------------------------------------------
(* scope record *)

observeScopeRecord(p) ==
    /\ Free(p)
    /\ active \in Features
    /\ Spend("commands")
    /\ Moves(p, [IdleProc EXCEPT !.stage = "summary", !.feature = active])
    /\ ProcOnly /\ Remember

readReviewerScope(p) ==
    /\ proc[p].stage = "summary"
    /\ LET reviewed == summaries[proc[p].feature]
       IN  Moves(p, IF Readable(reviewed)
                    THEN [proc[p] EXCEPT !.stage = "scope", !.scope = reviewed]
                    ELSE IdleProc)
    /\ UNCHANGED spare /\ ProcOnly /\ Remember

\* A missing scope is created, an agreeing one rewritten as it is, any other
\* refused; the plan expects to find what was read (scopeDecision).
scopeRecordOutcome(p) ==
    /\ proc[p].stage = "scope"
    /\ LET cmd == proc[p]
           onFile == scopes[cmd.feature]
       IN  Moves(p, IF onFile \in {Missing, cmd.scope}
                    THEN [cmd EXCEPT !.stage = "preflight", !.expect = onFile,
                                     !.plan = <<Write("scope", cmd.feature, cmd.scope)>>]
                    ELSE IdleProc)
    /\ UNCHANGED spare /\ ProcOnly /\ Remember

-----------------------------------------------------------------------------
(* applyPlan, and the transaction it runs *)

Content(write) ==
    CASE write.file = "state" -> states[write.feature]
      [] write.file = "document" -> documents[write.feature]
      [] write.file = "history" -> history[write.feature]
      [] write.file = "scope" -> scopes[write.feature]
      [] write.file = "active" -> active

\* A transaction anybody left incomplete stops the command.
preflight(p) ==
    /\ proc[p].stage = "preflight"
    /\ Moves(p, IF \E q \in Procs : Incomplete(q) THEN IdleProc ELSE [proc[p] EXCEPT !.stage = "inspect"])
    /\ UNCHANGED spare /\ ProcOnly /\ Remember

\* The destinations are looked at one after the other.
observeManagedPath(p) ==
    /\ proc[p].stage = "inspect" /\ Len(proc[p].seen) < Len(proc[p].plan)
    /\ Moves(p, [proc[p] EXCEPT !.seen = Append(@, Content(proc[p].plan[Len(@) + 1]))])
    /\ UNCHANGED spare /\ ProcOnly /\ Remember

\* A plan that declares what it expects holds it against what was observed.
PreconditionsHold(cmd) == cmd.plan[1].file = "scope" => cmd.seen[1] = cmd.expect

\* Only what differs is written.  A record differs by its instant: what may be
\* there already is what comes last, the active feature or the scope.
normalized(cmd) ==
    LET last == Len(cmd.plan)
        count == IF cmd.seen[last] = cmd.plan[last].result THEN last - 1 ELSE last
    IN  [i \in 1..count |-> [file |-> cmd.plan[i].file, feature |-> cmd.plan[i].feature,
                             expected |-> cmd.seen[i], result |-> cmd.plan[i].result]]

\* executeManagedMutation looks for incomplete transactions once more.
preflightAgain(p) ==
    /\ proc[p].stage = "inspect" /\ Len(proc[p].seen) = Len(proc[p].plan)
    /\ Moves(p, IF PreconditionsHold(proc[p]) /\ normalized(proc[p]) # <<>>
                    /\ ~ \E q \in Procs : Incomplete(q)
                 THEN [proc[p] EXCEPT !.stage = "mark"] ELSE IdleProc)
    /\ UNCHANGED spare /\ ProcOnly /\ Remember

TxOnly == UNCHANGED <<policyFiles, records, link, guard, spare>> /\ Remember
SetTx(p, next) == tx' = [tx EXCEPT ![p] = next]
Stage(p, stage) == Moves(p, [proc[p] EXCEPT !.stage = stage])

markTransaction(p) ==
    /\ proc[p].stage = "mark"
    /\ SetTx(p, [phase |-> "begun", ops |-> normalized(proc[p]), done |-> 0])
    /\ Stage(p, "precheck")
    /\ TxOnly

assertPreconditions(p) ==
    /\ proc[p].stage = "precheck"
    /\ IF \A i \in DOMAIN tx[p].ops : Content(tx[p].ops[i]) = tx[p].ops[i].expected
       THEN SetTx(p, [tx[p] EXCEPT !.phase = "prepared"]) /\ Stage(p, "authorize")
       ELSE UNCHANGED tx /\ Moves(p, IdleProc)
    /\ TxOnly

authorizePublication(p) ==
    /\ proc[p].stage = "authorize"
    /\ SetTx(p, [tx[p] EXCEPT !.phase = "publishing"])
    /\ Stage(p, "publish")
    /\ TxOnly

Published(p) == tx[p].done = Len(tx[p].ops)
NextOp(p) == tx[p].ops[tx[p].done + 1]
Done(p) == SetTx(p, [tx[p] EXCEPT !.done = @ + 1])

\* A destination that is not as expected leaves the transaction to recovery.
assertPublishable(p) ==
    /\ proc[p].stage = "publish" /\ ~Published(p)
    /\ IF Content(NextOp(p)) = NextOp(p).expected THEN Stage(p, "rename") ELSE Moves(p, IdleProc)
    /\ UNCHANGED tx /\ TxOnly

\* The rename takes the place of whatever is there by now.
Put(op) ==
    /\ states' = IF op.file = "state" THEN [states EXCEPT ![op.feature] = op.result] ELSE states
    /\ documents' = IF op.file = "document" THEN [documents EXCEPT ![op.feature] = op.result] ELSE documents
    /\ history' = IF op.file = "history" THEN [history EXCEPT ![op.feature] = op.result] ELSE history
    /\ scopes' = IF op.file = "scope" THEN [scopes EXCEPT ![op.feature] = op.result] ELSE scopes
    /\ active' = IF op.file = "active" THEN op.result ELSE active
    /\ guard' = IF op.file = "scope" /\ scopes[op.feature] \notin {Missing, op.result}
                   THEN Disturbed ELSE guard
    /\ UNCHANGED <<guardrails, summaries, link, spare>>

publishOperation(p) ==
    /\ proc[p].stage = "rename"
    /\ Put(NextOp(p))
    /\ Stage(p, "result")
    /\ UNCHANGED tx /\ Remember

\* Only after another look does the journal count the operation.
assertResult(p) ==
    /\ proc[p].stage = "result"
    /\ IF Content(NextOp(p)) = NextOp(p).result
       THEN Done(p) /\ Stage(p, "publish")
       ELSE UNCHANGED tx /\ Moves(p, IdleProc)
    /\ TxOnly

ResultsStand(p) == \A i \in DOMAIN tx[p].ops : Content(tx[p].ops[i]) = tx[p].ops[i].result

\* assertResults: every destination holds its result, or the journal stays.
commitTransaction(p) ==
    /\ proc[p].stage = "publish" /\ Published(p)
    /\ IF ResultsStand(p) THEN SetTx(p, NoTx) ELSE UNCHANGED tx
    /\ Moves(p, IdleProc)
    /\ TxOnly

\* The process of a command dies; what it left behind stays.
crash(p) ==
    /\ proc[p].stage # "idle"
    /\ Spend("crashes")
    /\ Moves(p, IdleProc)
    /\ ProcOnly /\ Remember

Abandoned(p) == Incomplete(p) /\ proc[p].stage = "idle"

\* As a bug: what was caught publishing is dropped like any other.
recoverDropping(p) ==
    /\ Abandoned(p)
    /\ SetTx(p, NoTx)
    /\ UNCHANGED proc /\ TxOnly

\* Dropped before the authorisation, carried on after it, operation by
\* operation; what is neither expected nor a result blocks it for good.
recover(p) ==
    /\ Abandoned(p)
    /\ UNCHANGED proc
    /\ \/ /\ tx[p].phase = "publishing" => Published(p) /\ ResultsStand(p)
          /\ SetTx(p, NoTx) /\ TxOnly
       \/ /\ tx[p].phase = "publishing" /\ ~Published(p)
          /\ Done(p)
          /\ \/ Content(NextOp(p)) = NextOp(p).result /\ TxOnly
             \/ /\ Content(NextOp(p)) = NextOp(p).expected
                /\ Put(NextOp(p)) /\ Remember

-----------------------------------------------------------------------------
(* People and their tools edit the files by hand *)

ByHand ==
    /\ Spend("edits")
    /\ guard' = Disturbed
    /\ UNCHANGED <<records, proc, tx>> /\ Remember

editGuardrails(content) ==
    /\ content # guardrails /\ guardrails' = content
    /\ UNCHANGED <<active, scopes, summaries, link>> /\ ByHand

editActive(content) ==
    /\ content # active /\ active' = content
    /\ UNCHANGED <<guardrails, scopes, summaries, link>> /\ ByHand

editSummary(feature, content) ==
    /\ content # summaries[feature] /\ summaries' = [summaries EXCEPT ![feature] = content]
    /\ UNCHANGED <<guardrails, active, scopes, link>> /\ ByHand

editScope(feature, content) ==
    /\ content # scopes[feature] /\ scopes' = [scopes EXCEPT ![feature] = content]
    /\ UNCHANGED <<guardrails, active, summaries, link>> /\ ByHand

relink(path, to) ==
    /\ link[path] # to /\ link' = [link EXCEPT ![path] = to]
    /\ UNCHANGED <<guardrails, active, scopes, summaries>> /\ ByHand

-----------------------------------------------------------------------------
ImportedState(text) == [text |-> text, status |-> "completed", revision |-> 1, at |-> 0]
ImportedLine(text) ==
    [transition |-> "completed", at |-> 0, revision |-> 1, text |-> text, replaced |-> "none"]

Init ==
    /\ guardrails \in {Document("valid", blocks) : blocks \in WriteBlocks}
    /\ \E start \in Starts :
        LET Brought(f) == start # "fresh" /\ f = featureIdentity[start]
        IN  /\ active = IF start = "fresh" THEN "none" ELSE featureIdentity[start]
            /\ states = [f \in Features |-> IF Brought(f) THEN ImportedState(start) ELSE NoState]
            /\ documents = states
            /\ history = [f \in Features |-> IF Brought(f) THEN <<ImportedLine(start)>> ELSE <<>>]
    /\ scopes = [f \in Features |-> Missing]
    /\ summaries = [f \in Features |-> Document("valid", Reviewed[f])]
    /\ link = [path \in Paths |-> path]
    /\ guard = NoGuard
    /\ proc = [p \in Procs |-> IdleProc]
    /\ tx = [p \in Procs |-> NoTx]
    /\ spare \in Budgets
    /\ permitted = {}

Next ==
    \/ \E request \in Requests : relayPreToolUse(request)
    \/ inspectMutationTarget \/ readGuardrails \/ activeFeature \/ readScope
    \/ readSummary \/ guardOutcome \/ relayFails
    \/ \E p \in Procs :
        \/ observeObjective(p) \/ readFeatureState(p) \/ readHistory(p)
        \/ \E text \in Texts, replace \in BOOLEAN : recorded(p, text, replace)
        \/ observeScopeRecord(p) \/ readReviewerScope(p)
        \/ scopeRecordOutcome(p)
        \/ preflight(p) \/ observeManagedPath(p) \/ preflightAgain(p)
        \/ markTransaction(p) \/ assertPreconditions(p) \/ authorizePublication(p)
        \/ assertPublishable(p) \/ publishOperation(p) \/ assertResult(p)
        \/ commitTransaction(p)
        \/ crash(p) \/ recover(p)
    \/ \E content \in Documents(WriteBlocks) : editGuardrails(content)
    \/ \E content \in {"none", "nameless", "corrupt"} : editActive(content)
    \/ \E f \in Features, content \in Documents(Scopes) :
        editSummary(f, content) \/ editScope(f, content)
    \/ \E path \in Paths, to \in Paths \cup {"outside", "dangling"} : relink(path, to)

Spec == Init /\ [][Next]_vars

-----------------------------------------------------------------------------
(* Properties *)

\* The guard reads four files one after the other while commands switch the
\* feature and record scopes.  A request it allows names only paths, lexical and
\* canonical, that the whole policy permitted at an instant while it ran, unless
\* it was disturbed meanwhile: a person edited a policy file or relinked a path,
\* or a scope record's rename replaced a scope.json that had appeared since its
\* check (composition/write-guard.ts policyState, guardOutcome).
AllowedWasPermitted ==
    guard.stage = "allowed" /\ ~guard.disturbed => guard.asked \subseteq permitted

\* What the files of a feature tell of its objective is one objective.
Told(f) ==
    states[f] # NoState =>
        /\ documents[f] = states[f]
        /\ history[f] # <<>>
        /\ LET line == Last(history[f])
           IN  line.text = states[f].text /\ line.revision = states[f].revision /\ line.at = states[f].at

\* A feature that a command made active has a state.  Where no transaction is
\* left publishing, objective.md and the last line of the history tell the
\* objective that state.json holds: whatever was interrupted between two of the
\* four files and recovered, and even if two commands published side by side, as
\* one of the two is then left incomplete, which stops every later command
\* (domain/cli/objective.ts recorded, composition/transactions.ts assertResults).
HistoryTellsState ==
    /\ active \in Features => states[active] # NoState
    /\ (\A p \in Procs : tx[p].phase # "publishing") => \A f \in Features : Told(f)

\* "objective-history.jsonl: one append-only line per transition"
\* (docs/architecture/objective-lifecycle.md).  It does not hold: a replacement
\* that names an earlier feature again starts that feature's history over, and
\* a command that read the history before another's line was appended drops it.
HistoryAppendOnly ==
    [][\A f \in Features : IsPrefix(history[f], history'[f])]_vars

=============================================================================
