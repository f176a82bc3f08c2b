-------------------------- MODULE WriteGuardProofs --------------------------
(* Proofs about WriteGuard: whatever the guard allows was permitted by the    *)
(* whole policy at one instant, and the files of an objective tell the same.  *)
(*                                                                            *)
(* The guard reads four files one after the other, so what it holds need      *)
(* never be the policy of an instant.  The argument is that commands can only *)
(* make the policy of a feature narrower: a scope.json is only ever created,  *)
(* and a feature without one permits all that any scope permits.              *)
(*                                                                            *)
(* Where the files of a feature disagree, a transaction is left publishing    *)
(* that wrote one of them; it commits only when it finds all of its own.      *)
EXTENDS WriteGuard, WellFoundedInduction, TLAPS

\* The paths a policy permits one by one.
PermBy(policy) == {path \in Paths : evaluateWriteRequest({path}, policy)}

\* The policy of a feature, given the documents it is made of.
PolicyWith(blocks, scope, summary) ==
    IF scope = Missing THEN [valid |-> TRUE, blocks |-> blocks, scope |-> NoScope]
    ELSE IF Readable(scope) /\ scope = summary
    THEN [valid |-> TRUE, blocks |-> blocks, scope |-> scope.content]
    ELSE [valid |-> FALSE, blocks |-> blocks, scope |-> NoScope]

PolicyOf(f) == PolicyWith(guardrails.content, scopes[f], summaries[f])

Identities == Paths \cup {"outside", "dangling"}

GuardRecords ==
    [stage : GuardStages, targets : Seq(Paths), at : Nat, current : SUBSET Identities,
     asked : SUBSET Identities, loaded : BOOLEAN, feature : Features \cup {"none"},
     policy : Policies, disturbed : BOOLEAN]

Contents == States \cup Seq(Lines) \cup Documents(Scopes) \cup Active
Files == {"state", "document", "history", "scope", "active"}
Writes == [file : Files, feature : Features, result : Contents]
Ops == [file : Files, feature : Features, expected : Contents, result : Contents]

ProcRecords ==
    [stage : ProcStages, feature : Active, now : Nat, state : States, log : Seq(Lines),
     scope : Documents(Scopes), expect : Documents(Scopes), plan : Seq(Writes), seen : Seq(Contents)]

TxRecords == [phase : {"none", "begun", "prepared", "publishing"}, ops : Seq(Ops), done : Nat]

FilesTyped ==
    /\ guardrails \in Documents(WriteBlocks)
    /\ active \in Active
    /\ states \in [Features -> States] /\ documents \in [Features -> States]
    /\ history \in [Features -> Seq(Lines)]
    /\ scopes \in [Features -> Documents(Scopes)]
    /\ summaries \in [Features -> Documents(Scopes)]
    /\ link \in [Paths -> Identities]

GuardTyped == guard \in GuardRecords /\ permitted \subseteq Paths
ProcTyped == proc \in [Procs -> ProcRecords] /\ tx \in [Procs -> TxRecords]
SpareTyped == spare \in [commands : Nat, requests : Nat, edits : Nat, crashes : Nat]

Typed == FilesTyped /\ GuardTyped /\ ProcTyped /\ SpareTyped

\* A state and the history whose last line tells it.
Tells(state, log) ==
    /\ state \in States /\ state # NoState
    /\ log \in Seq(Lines) /\ log # <<>>
    /\ Last(log).text = state.text /\ Last(log).revision = state.revision /\ Last(log).at = state.at

\* What is written by an objective, and by a scope record.
ObjectivePlan(plan) ==
    \E f \in Features, state \in States, log \in Seq(Lines) :
        /\ Tells(state, log)
        /\ plan = <<Write("state", f, state), Write("document", f, state), Write("history", f, log),
                    Write("active", f, f)>>

ScopePlan(plan) ==
    \E f \in Features, scope \in Documents(Scopes) : plan = <<Write("scope", f, scope)>>

OpIs(op, file, f, result) == op.file = file /\ op.feature = f /\ op.result = result

ObjectiveOps(ops, f, state, log) ==
    /\ Tells(state, log)
    /\ OpIs(ops[1], "state", f, state) /\ OpIs(ops[2], "document", f, state)
    /\ OpIs(ops[3], "history", f, log)
    /\ Len(ops) \in {3, 4}
    /\ Len(ops) = 4 => OpIs(ops[4], "active", f, f)

ScopeOps(ops, f, scope) == Len(ops) = 1 /\ OpIs(ops[1], "scope", f, scope)

SoundOps(ops) ==
    \/ \E f \in Features, state \in States, log \in Seq(Lines) : ObjectiveOps(ops, f, state, log)
    \/ \E f \in Features, scope \in Documents(Scopes) : ScopeOps(ops, f, scope)

TxSound(t) ==
    /\ t.done \in 0..Len(t.ops)
    /\ t.phase # "none" => SoundOps(t.ops)
    /\ t.phase # "publishing" => t.done = 0

\* Where a command stands, and its transaction with it.
CmdSound(cmd, t) ==
    /\ TxSound(t)
    /\ cmd.stage \in {"history", "summary", "scope"} => cmd.feature \in Features
    /\ cmd.stage \in {"preflight", "inspect", "mark"} => ObjectivePlan(cmd.plan) \/ ScopePlan(cmd.plan)
    /\ cmd.stage = "mark" => Len(cmd.seen) = Len(cmd.plan) /\ normalized(cmd) # <<>>
    /\ cmd.stage \in {"state", "history", "decide", "summary", "scope", "preflight", "inspect", "mark"} =>
          t.phase = "none"
    /\ cmd.stage \in {"precheck", "authorize"} => t.phase \in {"begun", "prepared"}
    /\ cmd.stage \in {"publish", "rename", "result"} => t.phase = "publishing"
    /\ cmd.stage \in {"rename", "result"} => t.done < Len(t.ops)

ProcSound == \A p \in Procs : CmdSound(proc[p], tx[p])

\* The first file written is the state, and no state is ever taken away.
StateWritten(t) == t.done > 0 /\ t.ops[1].file = "state" => states[t.ops[1].feature] # NoState

\* A transaction that wrote one of a feature's files and is not through.
Wrote(t, f) ==
    /\ t.phase = "publishing"
    /\ \E state \in States, log \in Seq(Lines) :
        /\ ObjectiveOps(t.ops, f, state, log)
        /\ states[f] = state \/ documents[f] = state \/ history[f] = log

FilesSound ==
    /\ active \in Features => states[active] # NoState
    /\ \A p \in Procs : StateWritten(tx[p])
    /\ \A f \in Features : Told(f) \/ \E p \in Procs : Wrote(tx[p], f)

\* Where the request in flight stands, whatever people do meanwhile.
GuardPlaced ==
    /\ guard.stage \in Answered => guard.at = 1
    /\ guard.stage \notin Answered =>
        /\ guard.at \in 1..Len(guard.targets)
        /\ guard.stage \in {"guardrails", "active", "scope", "summary"} => ~guard.loaded
        /\ guard.stage = "judge" => guard.loaded
        /\ ~guard.loaded => guard.at = 1
        /\ guard.stage \in {"scope", "summary"} => guard.feature \in Features

\* What the request in flight has read and judged, as long as nobody edits.
PartialPolicy(scope) == [valid |-> FALSE, blocks |-> guardrails.content, scope |-> scope]

GuardJudges ==
    guard.stage \notin Answered /\ ~guard.disturbed =>
        /\ guard.asked \subseteq UNION {targetIdentities(guard.targets[i]) : i \in 1..Len(guard.targets)}
        /\ \A i \in 1..Len(guard.targets) :
              i < guard.at => targetIdentities(guard.targets[i]) \subseteq permitted
        /\ guard.stage # "inspect" =>
              guard.current = targetIdentities(guard.targets[guard.at]) /\ guard.current \subseteq Paths
        /\ guard.loaded => PermBy(guard.policy) \subseteq permitted
        /\ ~guard.loaded /\ guard.stage \in {"inspect", "guardrails"} => guard.policy = NoPolicy
        /\ guard.stage \in {"active", "scope"} =>
              Readable(guardrails) /\ guard.policy = PartialPolicy(NoScope)
        /\ guard.stage \in {"scope", "summary"} => PermBy(PolicyOf(guard.feature)) \subseteq permitted
        /\ guard.stage = "summary" =>
              /\ Readable(guardrails) /\ Readable(scopes[guard.feature])
              /\ guard.policy = PartialPolicy(scopes[guard.feature].content)

GuardSound == GuardPlaced /\ GuardJudges /\ AllowedWasPermitted

Inv == Typed /\ ProcSound /\ GuardSound /\ FilesSound

-----------------------------------------------------------------------------
(* Sequences *)

\* A set of numbers has a least one: induction, stated without an operator.
LEMMA LeastNat ==
  ASSUME NEW T, T \subseteq Nat, T # {} PROVE \E x \in T : \A y \in T : x <= y
<1> DEFINE R == {ss \in Nat \X Nat : ss[1] < ss[2]}
<1>1. IsWellFoundedOn(R, Nat)
  BY NatLessThanWellFounded DEF OpToRel
<1> HIDE DEF R
<1>2. \E x \in T : \A y \in T : ~(<<y, x>> \in R)
  BY <1>1, WFMin
<1>3. PICK x \in T : \A y \in T : ~(<<y, x>> \in R)
  BY <1>2
<1>4. ASSUME NEW y \in T PROVE x <= y
  <2>1. x \in Nat /\ y \in Nat /\ ~(<<y, x>> \in R)
    BY <1>3
  <2>2. y < x => <<y, x>> \in R
    BY <2>1 DEF R
  <2>3. QED BY <2>1, <2>2
<1>5. QED BY <1>3, <1>4

\* The recursion FlattenSeq of SequencesExt is defined by.
Flattens(f, seqs) == f = [i \in 1..Len(seqs) |-> IF i = 1 THEN seqs[i] ELSE f[i-1] \o seqs[i]]

\* What FlattenSeq chooses solves its recursion.
LEMMA FlattenIs ==
  ASSUME NEW seqs, Len(seqs) # 0, \E f : Flattens(f, seqs)
  PROVE \E f : Flattens(f, seqs) /\ FlattenSeq(seqs) = f[Len(seqs)]
<1> DEFINE g == CHOOSE f : Flattens(f, seqs)
<1>1. Flattens(g, seqs)
  OBVIOUS
<1>2. FlattenSeq(seqs) = g[Len(seqs)]
  BY Zenon DEF FlattenSeq, Flattens
<1>3. QED BY <1>1, <1>2

\* The recursion has a solution up to every length.
LEMMA FlattensExists ==
  ASSUME NEW S, NEW seqs \in Seq(Seq(S))
  PROVE  \E f : Flattens(f, seqs)
<1> DEFINE Solves(f, n) == f = [i \in 1..n |-> IF i = 1 THEN seqs[i] ELSE f[i-1] \o seqs[i]]
           Bad == {n \in Nat : ~ \E f : Solves(f, n)}
<1>1. Bad = {}
  <2>1. SUFFICES ASSUME Bad # {} PROVE FALSE
    OBVIOUS
  <2>2. PICK n \in Bad : \A m \in Bad : n <= m
    <3>1. Bad \subseteq Nat
      OBVIOUS
    <3> HIDE DEF Bad
    <3>2. QED
      BY <2>1, <3>1, LeastNat
  <2>3. n \in Nat
    OBVIOUS
  <2>4. CASE n = 0
    <3>1. Solves([i \in 1..0 |-> seqs], 0)
      OBVIOUS
    <3>2. QED
      BY <2>4, <3>1
  <2>5. CASE n # 0
    <3>1. n - 1 \in Nat /\ ~(n <= n - 1)
      BY <2>3, <2>5
    <3>2. n - 1 \notin Bad
      BY <2>2, <3>1
    <3>3. \E f : Solves(f, n - 1)
      BY <3>1, <3>2
    <3>4. PICK f : Solves(f, n - 1)
      BY <3>3
    <3> DEFINE g == [i \in 1..n |-> IF i = 1 THEN seqs[i] ELSE f[i-1] \o seqs[i]]
    <3>5. ASSUME NEW i \in 1..(n-1) PROVE g[i] = f[i]
      <4>1. f[i] = IF i = 1 THEN seqs[i] ELSE f[i-1] \o seqs[i]
        BY <3>4
      <4>2. i \in 1..n
        BY <2>3
      <4>3. QED
        BY <4>1, <4>2
    <3>6. ASSUME NEW i \in 1..n, i # 1 PROVE g[i-1] = f[i-1]
      <4>1. i - 1 \in 1..(n-1)
        BY <2>3, <3>6
      <4>2. QED
        BY <4>1, <3>5
    <3>7. Solves(g, n)
      BY <3>6
    <3>8. QED
      BY <3>7
  <2>6. QED
    BY <2>4, <2>5
<1>2. Len(seqs) \in Nat
  OBVIOUS
<1>3. \E f : Solves(f, Len(seqs))
  BY <1>1, <1>2
<1>4. QED
  BY <1>3 DEF Flattens

LEMMA ConcatIs ==
  ASSUME NEW S, NEW a \in Seq(S), NEW b \in Seq(S), NEW c, c = a \o b
  PROVE  /\ c \in Seq(S) /\ Len(c) = Len(a) + Len(b)
         /\ Len(a) \in Nat /\ Len(b) \in Nat
         /\ \A k \in 1..Len(a) : c[k] = a[k]
         /\ \A k \in 1..Len(b) : c[Len(a) + k] = b[k]
  OBVIOUS

\* Flattening keeps every element of every sequence, and adds none.
LEMMA FlattenSeqRange ==
  ASSUME NEW S, NEW seqs \in Seq(Seq(S))
  PROVE  /\ FlattenSeq(seqs) \in Seq(S)
         /\ \A i \in 1..Len(seqs) : \A j \in 1..Len(seqs[i]) :
              \E k \in 1..Len(FlattenSeq(seqs)) : FlattenSeq(seqs)[k] = seqs[i][j]
<1>1. CASE Len(seqs) = 0
  <2>1. FlattenSeq(seqs) = seqs /\ seqs = <<>>
    BY <1>1 DEF FlattenSeq
  <2>2. QED
    BY <2>1, <1>1
<1>2. CASE Len(seqs) # 0
  <2>1. PICK f : Flattens(f, seqs) /\ FlattenSeq(seqs) = f[Len(seqs)]
    BY <1>2, FlattensExists, FlattenIs
  <2>2. \A n \in 1..Len(seqs) : f[n] = IF n = 1 THEN seqs[n] ELSE f[n-1] \o seqs[n]
    BY <2>1 DEF Flattens
  <2> DEFINE Good(n) == /\ f[n] \in Seq(S)
                        /\ \A i \in 1..n : \A j \in 1..Len(seqs[i]) :
                             \E k \in 1..Len(f[n]) : f[n][k] = seqs[i][j]
             Bad == {n \in 1..Len(seqs) : ~Good(n)}
  <2>3. Bad = {}
    <3>1. SUFFICES ASSUME Bad # {} PROVE FALSE
      OBVIOUS
    <3>2. Bad \subseteq Nat
      OBVIOUS
    <3>3. PICK n \in Bad : \A m \in Bad : n <= m
      <4> HIDE DEF Bad
      <4>1. QED
        BY <3>1, <3>2, LeastNat
    <3>4. n \in 1..Len(seqs) /\ ~Good(n) /\ n \in Nat
      OBVIOUS
    <3>5. CASE n = 1
      <4>1. f[n] = seqs[1] /\ seqs[1] \in Seq(S)
        BY <2>2, <3>4, <3>5
      <4>2. Good(n)
        BY <4>1, <3>5
      <4>3. QED
        BY <4>2, <3>4
    <3>6. CASE n # 1
      <4>1. n - 1 \in 1..Len(seqs) /\ ~(n <= n - 1)
        BY <3>4, <3>6
      <4>2. n - 1 \notin Bad
        BY <3>3, <4>1
      <4>3. Good(n - 1)
        BY <4>1, <4>2
      <4>4. f[n] = f[n-1] \o seqs[n] /\ seqs[n] \in Seq(S) /\ f[n-1] \in Seq(S)
        <5>1. f[n] = f[n-1] \o seqs[n]
          BY <2>2, <3>4, <3>6
        <5>2. seqs[n] \in Seq(S)
          BY <3>4
        <5>3. QED
          BY <4>3, <5>1, <5>2
      <4> DEFINE a == f[n-1]
                 b == seqs[n]
                 c == f[n]
      <4>0. a \in Seq(S) /\ b \in Seq(S) /\ c = a \o b
        BY <4>4
      <4>a. /\ \A j \in 1..Len(b) : \E k \in 1..Len(c) : c[k] = b[j]
            /\ \A j \in 1..Len(a) : \E k \in 1..Len(c) : c[k] = a[j]
            /\ c \in Seq(S)
        <5> HIDE DEF a, b, c
        <5>1. /\ c \in Seq(S) /\ Len(c) = Len(a) + Len(b)
              /\ Len(a) \in Nat /\ Len(b) \in Nat
              /\ \A k \in 1..Len(a) : c[k] = a[k]
              /\ \A k \in 1..Len(b) : c[Len(a) + k] = b[k]
          BY <4>0, ConcatIs
        <5>2. ASSUME NEW j \in 1..Len(b) PROVE \E k \in 1..Len(c) : c[k] = b[j]
          <6>1. Len(a) + j \in 1..Len(c) /\ c[Len(a) + j] = b[j]
            BY <5>1
          <6>2. QED
            BY <6>1
        <5>3. ASSUME NEW j \in 1..Len(a) PROVE \E k \in 1..Len(c) : c[k] = a[j]
          <6>1. j \in 1..Len(c) /\ c[j] = a[j]
            BY <5>1
          <6>2. QED
            BY <6>1
        <5>4. QED
          BY <5>1, <5>2, <5>3
      <4>7. ASSUME NEW i \in 1..n, NEW j \in 1..Len(seqs[i])
            PROVE  \E k \in 1..Len(f[n]) : f[n][k] = seqs[i][j]
        <5>1. CASE i = n
          BY <4>a, <5>1
        <5>2. CASE i # n
          <6>1. i \in 1..(n-1)
            BY <3>4, <5>2
          <6>2. PICK k \in 1..Len(a) : a[k] = seqs[i][j]
            BY <4>3, <6>1
          <6>3. QED
            BY <6>2, <4>a
        <5>3. QED
          BY <5>1, <5>2
      <4>8. QED
        BY <4>a, <4>7, <3>4
    <3>7. QED
      BY <3>5, <3>6
  <2>4. Len(seqs) \in 1..Len(seqs)
    BY <1>2
  <2>5. Good(Len(seqs))
    <3> HIDE DEF Good
    <3>1. QED
      BY <2>3, <2>4
  <2> HIDE DEF Bad
  <2>6. /\ f[Len(seqs)] \in Seq(S)
        /\ \A i \in 1..Len(seqs) : \A j \in 1..Len(seqs[i]) :
              \E k \in 1..Len(f[Len(seqs)]) : f[Len(seqs)][k] = seqs[i][j]
    BY <2>5
  <2>7. FlattenSeq(seqs) = f[Len(seqs)]
    BY <2>1
  <2> HIDE DEF Good
  <2> DEFINE flat == f[Len(seqs)]
  <2>8. flat = FlattenSeq(seqs)
    BY <2>7
  <2> HIDE DEF flat
  <2>9. QED
    BY <2>6, <2>8 DEF flat
<1>3. QED
  BY <1>1, <1>2

-----------------------------------------------------------------------------
(* What a policy permits *)

\* An empty list of globs matches nothing.
LEMMA EmptyMatchesNothing == \A path : ~matchesOrderedGlobs(<<>>, path)
  BY DEF matchesOrderedGlobs

\* Without a scope a valid policy permits whatever any policy with the same
\* blocks permits.
LEMMA NoScopeIsWidest ==
  ASSUME NEW valid, NEW blocks, NEW scope
  PROVE  PermBy([valid |-> valid, blocks |-> blocks, scope |-> scope])
             \subseteq PermBy([valid |-> TRUE, blocks |-> blocks, scope |-> NoScope])
<1>1. SUFFICES ASSUME NEW path \in Paths, decideWriteTarget(path, blocks, scope)
               PROVE  decideWriteTarget(path, blocks, NoScope)
  BY DEF PermBy, evaluateWriteRequest
<1>2. QED
  BY <1>1, EmptyMatchesNothing DEF decideWriteTarget, NoScope

\* A recorded scope narrows the policy of a feature that had none.
LEMMA ScopeNarrows ==
  ASSUME NEW blocks, NEW scope, NEW summary
  PROVE  PermBy(PolicyWith(blocks, scope, summary)) \subseteq PermBy(PolicyWith(blocks, Missing, summary))
<1>1. PolicyWith(blocks, Missing, summary) = [valid |-> TRUE, blocks |-> blocks, scope |-> NoScope]
  BY DEF PolicyWith
<1>2. CASE scope = Missing
  BY <1>2
<1>3. CASE scope # Missing /\ Readable(scope) /\ scope = summary
  <2>1. PolicyWith(blocks, scope, summary) = [valid |-> TRUE, blocks |-> blocks, scope |-> scope.content]
    BY <1>3 DEF PolicyWith
  <2>2. QED
    BY <1>1, <2>1, NoScopeIsWidest
<1>4. CASE scope # Missing /\ ~(Readable(scope) /\ scope = summary)
  <2>1. PolicyWith(blocks, scope, summary) = [valid |-> FALSE, blocks |-> blocks, scope |-> NoScope]
    BY <1>4 DEF PolicyWith
  <2>2. QED
    BY <1>1, <2>1, NoScopeIsWidest
<1>5. QED
  BY <1>2, <1>3, <1>4

\* A request that passes under a policy names only paths it permits.
LEMMA JudgedIsPermitted ==
  ASSUME NEW identities, identities \subseteq Paths, NEW policy, evaluateWriteRequest(identities, policy)
  PROVE  identities \subseteq PermBy(policy)
  BY DEF PermBy, evaluateWriteRequest

\* Two policies with the same fields are one.
LEMMA PoliciesEqual ==
  ASSUME NEW B, NEW S, NEW r \in [valid : BOOLEAN, blocks : B, scope : S],
         NEW q \in [valid : BOOLEAN, blocks : B, scope : S],
         r.valid = q.valid, r.blocks = q.blocks, r.scope = q.scope
  PROVE  r = q
  OBVIOUS

\* With a feature active, the policy in force is that feature's; otherwise it is
\* that of the guardrails alone, or none.
LEMMA PolicyNowIs ==
  /\ ~Readable(guardrails) => PolicyNow = NoPolicy
  /\ Readable(guardrails) /\ active \notin Features =>
        PolicyNow = [valid |-> active = "none", blocks |-> guardrails.content, scope |-> NoScope]
  /\ Readable(guardrails) /\ active \in Features => PolicyNow = PolicyOf(active)
<1>1. ASSUME ~Readable(guardrails) PROVE PolicyNow = NoPolicy
  BY <1>1 DEF PolicyNow
<1>2. ASSUME Readable(guardrails), active \notin Features
      PROVE  PolicyNow = [valid |-> active = "none", blocks |-> guardrails.content, scope |-> NoScope]
  <2>1. PolicyNow = [NoPolicy EXCEPT !.blocks = guardrails.content, !.valid = active = "none"]
    BY <1>2 DEF PolicyNow
  <2>2. QED
    BY <2>1 DEF NoPolicy
<1>3. ASSUME Readable(guardrails), active \in Features, scopes[active] = Missing
      PROVE  PolicyNow = PolicyOf(active)
  <2>1. PolicyNow = [NoPolicy EXCEPT !.blocks = guardrails.content, !.valid = TRUE]
    BY <1>3 DEF PolicyNow
  <2>2. PolicyOf(active) = [valid |-> TRUE, blocks |-> guardrails.content, scope |-> NoScope]
    BY <1>3 DEF PolicyOf, PolicyWith
  <2> DEFINE blocks == guardrails.content
  <2>3. [NoPolicy EXCEPT !.blocks = blocks, !.valid = TRUE] = [valid |-> TRUE, blocks |-> blocks, scope |-> NoScope]
    <3> HIDE DEF blocks
    <3> DEFINE Shape == [valid : BOOLEAN, blocks : {<<>>, blocks}, scope : {NoScope}]
               left == [NoPolicy EXCEPT !.blocks = blocks, !.valid = TRUE]
               right == [valid |-> TRUE, blocks |-> blocks, scope |-> NoScope]
    <3>1. left \in Shape /\ right \in Shape
      BY DEF NoPolicy
    <3>2. left.valid = right.valid /\ left.blocks = right.blocks /\ left.scope = right.scope
      BY DEF NoPolicy
    <3> HIDE DEF left, right
    <3>3. left = right
      BY <3>1, <3>2, PoliciesEqual
    <3>4. QED
      BY <3>3 DEF left, right
  <2>4. QED
    BY <2>1, <2>2, <2>3
<1>4. ASSUME Readable(guardrails), active \in Features, scopes[active] # Missing
      PROVE  PolicyNow = PolicyOf(active)
  BY <1>4 DEF PolicyNow, PolicyOf, PolicyWith
<1>5. QED
  BY <1>1, <1>2, <1>3, <1>4

\* Document by document.
LEMMA DocumentsAre ==
  ASSUME NEW contents, NEW d \in Documents(contents)
  PROVE  /\ Readable(d) => d.content \in contents /\ d # Missing /\ d = Document("valid", d.content)
         /\ ~Readable(d) => d \in {Missing, Corrupt}
  BY DEF Documents, Document, Missing, Corrupt, Readable


-----------------------------------------------------------------------------
(* The request *)

\* Every path a request names is among its targets, and a request that names
\* nothing has none.
LEMMA TargetsAreNamed ==
  ASSUME NEW request \in Seq(Mutations)
  PROVE  LET targets == extractMutationTargets(request)
         IN  /\ targets \in Seq(Paths)
             /\ Named(request) \subseteq Paths
             /\ \A path \in Named(request) : \E k \in 1..Len(targets) : targets[k] = path
             /\ request # <<>> => Named(request) # {}
<1> DEFINE parts == [i \in DOMAIN request |->
                       IF request[i].kind = "move" THEN <<request[i].source, request[i].path>>
                       ELSE <<request[i].path>>]
           targets == extractMutationTargets(request)
<1>1. /\ DOMAIN request = 1..Len(request) /\ Len(request) \in Nat
      /\ \A i \in DOMAIN request : request[i] \in Mutations
  OBVIOUS
<1>2. ASSUME NEW i \in DOMAIN request
      PROVE  /\ request[i].path \in Paths
             /\ request[i].kind = "move" => request[i].source \in Paths
  BY <1>1 DEF Mutations
<1>3. ASSUME NEW i \in DOMAIN request
      PROVE  /\ parts[i] \in Seq(Paths)
             /\ \E j \in 1..Len(parts[i]) : parts[i][j] = request[i].path
             /\ request[i].kind = "move" => \E j \in 1..Len(parts[i]) : parts[i][j] = request[i].source
  <2>1. CASE request[i].kind = "move"
    <3>1. parts[i] = <<request[i].source, request[i].path>>
      BY <2>1
    <3>2. QED
      BY <3>1, <1>2, <2>1
  <2>2. CASE request[i].kind # "move"
    <3>1. parts[i] = <<request[i].path>>
      BY <2>2
    <3>2. QED
      BY <3>1, <1>2, <2>2
  <2>3. QED
    BY <2>1, <2>2
<1>4. DOMAIN parts = 1..Len(request)
  BY <1>1
<1>5. targets = FlattenSeq(parts)
  BY DEF extractMutationTargets
<1> HIDE DEF parts, targets
<1>6. parts \in Seq(Seq(Paths)) /\ Len(parts) = Len(request)
  <2>1. parts \in [1..Len(request) -> Seq(Paths)]
    <3>1. \A i \in 1..Len(request) : parts[i] \in Seq(Paths)
      BY <1>1, <1>3
    <3>2. parts = [i \in 1..Len(request) |-> parts[i]]
      BY <1>1 DEF parts
    <3>3. QED
      BY <3>1, <3>2
  <2>2. QED
    BY <2>1, <1>1
<1>7. /\ targets \in Seq(Paths)
      /\ \A i \in 1..Len(parts) : \A j \in 1..Len(parts[i]) :
           \E k \in 1..Len(targets) : targets[k] = parts[i][j]
  BY <1>5, <1>6, FlattenSeqRange
<1>8. ASSUME NEW path \in Named(request)
      PROVE  path \in Paths /\ \E k \in 1..Len(targets) : targets[k] = path
  <2>1. \E i \in DOMAIN request : path = request[i].path
                                  \/ (request[i].kind = "move" /\ path = request[i].source)
    BY DEF Named
  <2>2. PICK i \in DOMAIN request : path = request[i].path
                                    \/ (request[i].kind = "move" /\ path = request[i].source)
    BY <2>1
  <2>3. PICK j \in 1..Len(parts[i]) : parts[i][j] = path
    BY <1>3, <2>2
  <2>4. i \in 1..Len(parts)
    BY <1>1, <1>6
  <2>5. QED
    BY <1>2, <1>7, <2>2, <2>3, <2>4
<1>9. ASSUME request # <<>> PROVE Named(request) # {}
  <2>1. 1 \in DOMAIN request
    BY <1>1, <1>9
  <2>2. request[1].path \in Named(request)
    BY <2>1 DEF Named
  <2>3. QED
    BY <2>2
<1>10. QED
  BY <1>7, <1>8, <1>9 DEF targets

-----------------------------------------------------------------------------
(* Quiet steps: the guard holds still *)

\* What the history variable keeps.
LEMMA Remembers ==
  ASSUME Remember, permitted \subseteq Paths
  PROVE  /\ permitted' \subseteq Paths
         /\ guard'.stage = "allowed" => permitted' = permitted
         /\ guard.stage \notin Answered /\ guard'.stage \notin Answered =>
               permitted' = permitted \cup PermBy(PolicyNow')
<1>1. PermittedNow' = PermBy(PolicyNow') /\ PermittedNow' \subseteq Paths
  BY DEF PermittedNow, PermBy
<1>2. guard'.stage = "allowed" => permitted' = permitted
  BY DEF Remember, Answered
<1>3. guard.stage \notin Answered /\ guard'.stage \notin Answered => permitted' = permitted \cup PermittedNow'
  BY DEF Remember, Answered
<1>4. permitted' \subseteq Paths
  <2>1. permitted' \in {{}, permitted, PermittedNow', permitted \cup PermittedNow'}
    BY DEF Remember
  <2>2. QED
    BY <1>1, <2>1
<1>5. QED
  BY <1>1, <1>2, <1>3, <1>4

\* A command leaves the guard alone and creates scopes at most.
LEMMA QuietStep ==
  ASSUME Typed, GuardSound, Remember, guard' = guard,
         UNCHANGED <<guardrails, summaries, link>>,
         \A f \in Features : scopes[f] = Missing \/ scopes'[f] = scopes[f]
  PROVE  GuardTyped' /\ GuardSound'
<1>1. GuardTyped'
  BY Remembers DEF Typed, GuardTyped
<1>2. GuardPlaced'
  BY DEF GuardSound, GuardPlaced
<1>3. AllowedWasPermitted'
  BY Remembers DEF GuardSound, AllowedWasPermitted, Typed, GuardTyped
<1>4. ASSUME guard.stage \notin Answered, ~guard.disturbed PROVE GuardJudges'
  <2>1. permitted \subseteq permitted'
    BY <1>4, Remembers DEF Typed, GuardTyped
  <2>2. /\ guard.asked \subseteq UNION {targetIdentities(guard.targets[i]) : i \in 1..Len(guard.targets)}
        /\ \A i \in 1..Len(guard.targets) :
              i < guard.at => targetIdentities(guard.targets[i]) \subseteq permitted
        /\ guard.stage # "inspect" =>
              guard.current = targetIdentities(guard.targets[guard.at]) /\ guard.current \subseteq Paths
        /\ guard.loaded => PermBy(guard.policy) \subseteq permitted
        /\ ~guard.loaded /\ guard.stage \in {"inspect", "guardrails"} => guard.policy = NoPolicy
        /\ guard.stage \in {"active", "scope"} =>
              Readable(guardrails) /\ guard.policy = PartialPolicy(NoScope)
    BY <1>4 DEF GuardSound, GuardJudges
  <2>3. \A path : targetIdentities(path)' = targetIdentities(path)
    BY DEF targetIdentities
  <2>4. PartialPolicy(NoScope)' = PartialPolicy(NoScope) /\ Readable(guardrails)' = Readable(guardrails)
    BY DEF PartialPolicy
  <2>5. ASSUME guard.stage \in {"scope", "summary"} PROVE PermBy(PolicyOf(guard.feature)') \subseteq permitted'
    <3>1. guard.feature \in Features
      BY <1>4, <2>5 DEF GuardSound, GuardPlaced
    <3>2. PermBy(PolicyOf(guard.feature)) \subseteq permitted
      BY <1>4, <2>5 DEF GuardSound, GuardJudges
    <3> DEFINE f == guard.feature
    <3>3. CASE scopes'[f] = scopes[f]
      <4>1. PolicyOf(f)' = PolicyOf(f)
        BY <3>3 DEF PolicyOf
      <4>2. QED
        BY <4>1, <3>2, <2>1
    <3>4. CASE scopes[f] = Missing
      <4>1. PolicyOf(f) = PolicyWith(guardrails.content, Missing, summaries[f])
        BY <3>4 DEF PolicyOf
      <4>2. PolicyOf(f)' = PolicyWith(guardrails.content, scopes'[f], summaries[f])
        BY DEF PolicyOf
      <4>3. PermBy(PolicyOf(f)') \subseteq PermBy(PolicyOf(f))
        BY <4>1, <4>2, ScopeNarrows
      <4>4. QED
        BY <4>3, <3>2, <2>1
    <3>5. QED
      BY <3>1, <3>3, <3>4
  <2>6. ASSUME guard.stage = "summary"
        PROVE  /\ Readable(guardrails) /\ Readable(scopes'[guard.feature])
               /\ guard.policy = PartialPolicy(scopes'[guard.feature].content)
    <3>1. guard.feature \in Features
      BY <1>4, <2>6 DEF GuardSound, GuardPlaced
    <3>2. /\ Readable(guardrails) /\ Readable(scopes[guard.feature])
          /\ guard.policy = PartialPolicy(scopes[guard.feature].content)
      BY <1>4, <2>6 DEF GuardSound, GuardJudges
    <3>3. scopes[guard.feature] # Missing
      BY <3>2 DEF Readable, Missing, Document
    <3>4. QED
      BY <3>1, <3>2, <3>3
  <2>7. /\ guard.asked \subseteq UNION {targetIdentities(guard.targets[i])' : i \in 1..Len(guard.targets)}
        /\ \A i \in 1..Len(guard.targets) :
              i < guard.at => targetIdentities(guard.targets[i])' \subseteq permitted'
        /\ guard.stage # "inspect" =>
              guard.current = targetIdentities(guard.targets[guard.at])' /\ guard.current \subseteq Paths
    BY <2>1, <2>2, <2>3
  <2>8. QED
    BY <2>1, <2>2, <2>4, <2>5, <2>6, <2>7 DEF GuardJudges, PartialPolicy
<1>5. ASSUME guard.stage \in Answered \/ guard.disturbed PROVE GuardJudges'
  BY <1>5 DEF GuardJudges
<1>6. QED
  BY <1>1, <1>2, <1>3, <1>4, <1>5 DEF GuardSound

\* Whatever else changes, a guard that is told of it need not answer for it.
LEMMA DisturbedStep ==
  ASSUME Typed, GuardSound, guard' = Disturbed, Remember
  PROVE  GuardTyped' /\ GuardSound'
<1>2. Remember /\ permitted \subseteq Paths /\ guard \in GuardRecords
  BY DEF Typed, GuardTyped
<1>3. permitted' \subseteq Paths /\ (guard'.stage = "allowed" => permitted' = permitted)
  BY <1>2, Remembers
<1>4. CASE guard.stage \in Answered
  <2>1. guard' = guard
    BY <1>4 DEF Disturbed
  <2>2. QED
    BY <1>2, <1>3, <1>4, <2>1 DEF GuardTyped, GuardSound, GuardPlaced, GuardJudges, AllowedWasPermitted
<1>5. CASE guard.stage \notin Answered
  <2>1. guard' = [guard EXCEPT !.disturbed = TRUE]
    BY <1>5 DEF Disturbed
  <2>2. guard' \in GuardRecords
    BY <1>2, <2>1 DEF GuardRecords
  <2>3. /\ guard'.disturbed = TRUE /\ guard'.stage = guard.stage /\ guard'.at = guard.at
        /\ guard'.targets = guard.targets /\ guard'.loaded = guard.loaded /\ guard'.feature = guard.feature
    BY <1>2, <2>1 DEF GuardRecords
  <2>4. GuardPlaced'
    BY <2>3 DEF GuardSound, GuardPlaced
  <2>5. GuardJudges' /\ AllowedWasPermitted'
    BY <2>3 DEF GuardJudges, AllowedWasPermitted
  <2>6. QED
    BY <1>3, <2>2, <2>4, <2>5 DEF GuardTyped, GuardSound
<1>6. QED
  BY <1>4, <1>5

-----------------------------------------------------------------------------
(* Steps of the guard *)

\* What is spent was there.
LEMMA SpendTyped ==
  ASSUME Typed, NEW budget \in {"commands", "requests", "edits", "crashes"}, Spend(budget)
  PROVE  SpareTyped'
<1>1. spare \in [commands : Nat, requests : Nat, edits : Nat, crashes : Nat]
  BY DEF Typed, SpareTyped
<1>2. spare[budget] \in Nat /\ spare[budget] > 0 /\ spare' = [spare EXCEPT ![budget] = @ - 1]
  BY <1>1 DEF Spend
<1>3. QED
  BY <1>1, <1>2 DEF SpareTyped

\* Nothing but the guard moves, so its files are those it will have read.
LEMMA FilesStill ==
  ASSUME GuardOnly
  PROVE  /\ PolicyNow' = PolicyNow
         /\ \A f : PolicyOf(f)' = PolicyOf(f)
         /\ \A path : targetIdentities(path)' = targetIdentities(path)
         /\ \A scope : PartialPolicy(scope)' = PartialPolicy(scope)
         /\ UNCHANGED <<guardrails, active, scopes, summaries, link, states, documents, history, proc, tx>>
<1>1. UNCHANGED <<guardrails, active, scopes, summaries, link, states, documents, history, proc, tx>>
  BY DEF GuardOnly, policyFiles, records
<1>2. PolicyNow' = PolicyNow
  BY <1>1 DEF PolicyNow
<1>3. QED
  BY <1>1, <1>2 DEF PolicyOf, targetIdentities, PartialPolicy

\* While a request is in flight, what the policy permits now is remembered.
LEMMA PermittedGrows ==
  ASSUME Typed, GuardOnly, Remember, guard.stage \notin Answered, guard'.stage \notin Answered
  PROVE  permitted \subseteq permitted' /\ PermBy(PolicyNow) \subseteq permitted'
  BY Remembers, FilesStill DEF Typed, GuardTyped

\* An answer ends the request; an allowance has to be earned.
LEMMA AnswerStep ==
  ASSUME Typed, NEW answer \in {"allowed", "denied"}, Answers(answer), Remember,
         answer = "allowed" /\ ~guard.disturbed => guard.asked \subseteq permitted
  PROVE  GuardTyped' /\ GuardSound'
<1> DEFINE asked == IF answer = "allowed" THEN guard.asked ELSE {}
           disturbed == guard.disturbed
<1>1. asked \in SUBSET Identities /\ disturbed \in BOOLEAN
  BY DEF Typed, GuardTyped, GuardRecords
<1>2. guard' = [NoGuard EXCEPT !.stage = answer, !.disturbed = disturbed, !.asked = asked]
  BY DEF Answers
<1>3. NoGuard \in GuardRecords
  BY DEF NoGuard, GuardRecords, GuardStages, NoPolicy, Policies
<1>4. answer = "allowed" => asked = guard.asked
  OBVIOUS
<1>5. /\ guard' \in GuardRecords /\ guard'.stage = answer /\ guard'.disturbed = disturbed
      /\ guard'.asked = asked /\ guard'.at = 1
  <2> HIDE DEF asked, disturbed
  <2>1. guard' \in GuardRecords
    BY <1>1, <1>2, <1>3 DEF GuardRecords, GuardStages
  <2>2. QED
    BY <1>2, <1>3, <2>1 DEF GuardRecords, NoGuard
<1>6. permitted' \subseteq Paths /\ (guard'.stage = "allowed" => permitted' = permitted)
  BY Remembers DEF Typed, GuardTyped
<1>7. GuardTyped'
  BY <1>5, <1>6 DEF GuardTyped
<1>8. GuardPlaced' /\ GuardJudges'
  BY <1>5 DEF GuardPlaced, GuardJudges, Answered
<1>9. AllowedWasPermitted'
  BY <1>4, <1>5, <1>6 DEF AllowedWasPermitted
<1>10. QED
  BY <1>7, <1>8, <1>9 DEF GuardSound

\* The loaded policy permits no more than was permitted at an instant.
LEMMA LoadStep ==
  ASSUME Typed, GuardSound, guard.stage \in {"guardrails", "active", "scope", "summary"},
         NEW policy \in Policies, Loads(policy), GuardOnly, Remember,
         ~guard.disturbed => PermBy(policy) \subseteq permitted \cup PermBy(PolicyNow)
  PROVE  GuardTyped' /\ GuardSound'
<1>1. guard \in GuardRecords /\ guard.stage \notin Answered
  BY DEF Typed, GuardTyped, Answered
<1>2. guard' = [guard EXCEPT !.stage = "judge", !.loaded = TRUE, !.policy = policy]
  BY DEF Loads
<1>3. guard' \in GuardRecords
  BY <1>1, <1>2 DEF GuardRecords, GuardStages
<1>4. /\ guard'.stage = "judge" /\ guard'.loaded = TRUE /\ guard'.policy = policy
      /\ guard'.targets = guard.targets /\ guard'.at = guard.at /\ guard'.current = guard.current
      /\ guard'.asked = guard.asked /\ guard'.disturbed = guard.disturbed
  BY <1>1, <1>2 DEF GuardRecords
<1>5. guard'.stage \notin Answered
  BY <1>4 DEF Answered
<1>6. permitted \subseteq permitted' /\ PermBy(PolicyNow) \subseteq permitted'
  BY <1>1, <1>5, PermittedGrows
<1>7. permitted' \subseteq Paths
  BY Remembers DEF Typed, GuardTyped
<1>8. GuardPlaced'
  BY <1>1, <1>4 DEF GuardSound, GuardPlaced
<1>9. ASSUME ~guard.disturbed PROVE GuardJudges'
  <2>1. /\ guard.asked \subseteq UNION {targetIdentities(guard.targets[i]) : i \in 1..Len(guard.targets)}
        /\ \A i \in 1..Len(guard.targets) :
              i < guard.at => targetIdentities(guard.targets[i]) \subseteq permitted
        /\ guard.current = targetIdentities(guard.targets[guard.at]) /\ guard.current \subseteq Paths
    BY <1>1, <1>9 DEF GuardSound, GuardJudges
  <2>2. \A path : targetIdentities(path)' = targetIdentities(path)
    BY FilesStill
  <2>3. PermBy(policy) \subseteq permitted'
    BY <1>6, <1>9
  <2>4. /\ guard.asked \subseteq UNION {targetIdentities(guard.targets[i])' : i \in 1..Len(guard.targets)}
        /\ \A i \in 1..Len(guard.targets) :
              i < guard.at => targetIdentities(guard.targets[i])' \subseteq permitted'
        /\ guard.current = targetIdentities(guard.targets[guard.at])' /\ guard.current \subseteq Paths
    <3>1. guard.asked \subseteq UNION {targetIdentities(guard.targets[i])' : i \in 1..Len(guard.targets)}
      BY <1>4, <2>1, <2>2
    <3>2. \A i \in 1..Len(guard.targets) :
            i < guard.at => targetIdentities(guard.targets[i])' \subseteq permitted'
      BY <1>4, <1>6, <2>1, <2>2
    <3>3. guard.current = targetIdentities(guard.targets[guard.at])' /\ guard.current \subseteq Paths
      BY <1>4, <2>1, <2>2
    <3>4. QED
      BY <3>1, <3>2, <3>3
  <2>5. QED
    BY <1>4, <2>3, <2>4 DEF GuardJudges
<1>10. ASSUME guard.disturbed PROVE GuardJudges'
  BY <1>4, <1>10 DEF GuardJudges
<1>11. AllowedWasPermitted'
  BY <1>4 DEF AllowedWasPermitted
<1>12. QED
  BY <1>3, <1>7, <1>8, <1>9, <1>10, <1>11 DEF GuardSound, GuardTyped

LEMMA RelayStep ==
  ASSUME Typed, GuardSound, NEW request \in Requests, relayPreToolUse(request)
  PROVE  GuardTyped' /\ GuardSound' /\ SpareTyped'
<1> DEFINE targets == extractMutationTargets(request)
           named == Named(request)
           stage == IF request = <<>> THEN "denied" ELSE "inspect"
           asked == UNION {targetIdentities(path) : path \in Named(request)}
<1>1. request \in Seq(Mutations)
  BY RequestsAssumption
<1>2. /\ targets \in Seq(Paths)
      /\ named \subseteq Paths
      /\ \A path \in named : \E k \in 1..Len(targets) : targets[k] = path
      /\ request # <<>> => named # {}
  BY <1>1, TargetsAreNamed
<1>3. SpareTyped' /\ Remember /\ GuardOnly
  BY SpendTyped DEF relayPreToolUse
<1>4. guard' = [NoGuard EXCEPT !.stage = stage, !.targets = targets, !.asked = asked]
  BY DEF relayPreToolUse
<1>5. NoGuard \in GuardRecords
  BY DEF NoGuard, GuardRecords, GuardStages, NoPolicy, Policies
<1>6. asked \in SUBSET Identities
  BY <1>2 DEF Typed, FilesTyped, targetIdentities, Identities
<1>7. stage \in {"denied", "inspect"} /\ (stage = "inspect" => request # <<>>)
  OBVIOUS
<1> HIDE DEF targets, stage, asked, named
<1>8. guard' \in GuardRecords
  BY <1>2, <1>4, <1>5, <1>6, <1>7 DEF GuardRecords, GuardStages
<1>9. /\ guard'.stage = stage /\ guard'.targets = targets /\ guard'.asked = asked
      /\ guard'.at = 1 /\ guard'.loaded = FALSE /\ guard'.policy = NoPolicy
  BY <1>4, <1>5, <1>8 DEF GuardRecords, NoGuard
<1>10. permitted' \subseteq Paths
  BY <1>3, Remembers DEF Typed, GuardTyped
<1>11. stage = "inspect" => 1 \in 1..Len(targets)
  <2>1. SUFFICES ASSUME stage = "inspect" PROVE 1 \in 1..Len(targets)
    OBVIOUS
  <2>2. PICK path \in named : TRUE
    BY <1>2, <1>7, <2>1
  <2>3. PICK k \in 1..Len(targets) : targets[k] = path
    BY <1>2, <2>2
  <2>4. Len(targets) \in Nat
    BY <1>2
  <2>5. QED
    BY <2>3, <2>4
<1>12. GuardPlaced'
  BY <1>7, <1>9, <1>11 DEF GuardPlaced, Answered
<1>13. asked \subseteq UNION {targetIdentities(targets[i]) : i \in 1..Len(targets)}
  <2>1. SUFFICES ASSUME NEW path \in named, NEW x \in targetIdentities(path)
                 PROVE  x \in UNION {targetIdentities(targets[i]) : i \in 1..Len(targets)}
    BY DEF asked, named
  <2>2. PICK k \in 1..Len(targets) : targets[k] = path
    BY <1>2
  <2>3. QED
    BY <2>2
<1>14. \A path : targetIdentities(path)' = targetIdentities(path)
  BY <1>3, FilesStill
<1>15. asked \subseteq UNION {targetIdentities(targets[i])' : i \in 1..Len(targets)}
  BY <1>13, <1>14
<1>16. GuardJudges'
  <2>1. \A i \in 1..Len(targets) : ~(i < 1)
    BY <1>2
  <2>2. QED
    BY <1>7, <1>9, <1>15, <2>1 DEF GuardJudges, Answered
<1>17. AllowedWasPermitted'
  BY <1>7, <1>9 DEF AllowedWasPermitted
<1>18. QED
  BY <1>3, <1>8, <1>10, <1>12, <1>16, <1>17 DEF GuardTyped, GuardSound

LEMMA InspectStep ==
  ASSUME Typed, GuardSound, inspectMutationTarget
  PROVE  GuardTyped' /\ GuardSound'
<1> DEFINE path == guard.targets[guard.at]
           stage == IF guard.loaded THEN "judge" ELSE "guardrails"
           current == targetIdentities(path)
<1>1. guard \in GuardRecords /\ guard.stage = "inspect" /\ guard.stage \notin Answered
  BY DEF Typed, GuardTyped, Answered, inspectMutationTarget, Guarding
<1>2. GuardOnly /\ Remember
  BY DEF inspectMutationTarget
<1>3. CASE link[path] \in {"outside", "dangling"}
  <2>1. Answers("denied")
    BY <1>3 DEF inspectMutationTarget
  <2>2. QED
    BY <1>2, <2>1, AnswerStep
<1>4. CASE link[path] \notin {"outside", "dangling"}
  <2>1. guard' = [guard EXCEPT !.current = current, !.stage = stage]
    BY <1>4 DEF inspectMutationTarget
  <2>2. guard.at \in 1..Len(guard.targets) /\ guard.targets \in Seq(Paths)
    BY <1>1 DEF GuardSound, GuardPlaced, GuardRecords
  <2>3. path \in Paths
    BY <2>2
  <2>4. current \subseteq Paths
    BY <1>4, <2>3 DEF targetIdentities, Typed, FilesTyped, Identities
  <2>5. current \in SUBSET Identities
    BY <2>4 DEF Identities
  <2>6. stage \in {"judge", "guardrails"} /\ (stage = "judge" <=> guard.loaded)
    OBVIOUS
  <2>7. \A p : targetIdentities(p)' = targetIdentities(p)
    BY <1>2, FilesStill
  <2> HIDE DEF stage, current, path
  <2>9. guard' \in GuardRecords
    BY <1>1, <2>1, <2>5, <2>6 DEF GuardRecords, GuardStages
  <2>10. /\ guard'.stage = stage /\ guard'.current = current /\ guard'.loaded = guard.loaded
         /\ guard'.policy = guard.policy /\ guard'.targets = guard.targets /\ guard'.at = guard.at
         /\ guard'.asked = guard.asked /\ guard'.disturbed = guard.disturbed
    BY <1>1, <2>1, <2>9 DEF GuardRecords
  <2>8. current = targetIdentities(guard.targets[guard.at])'
    BY <2>7, <2>10 DEF current, path
  <2>11. guard'.stage \notin Answered
    BY <2>6, <2>10 DEF Answered
  <2>12. permitted \subseteq permitted'
    BY <1>1, <1>2, <2>11, PermittedGrows
  <2>13. permitted' \subseteq Paths
    BY <1>2, Remembers DEF Typed, GuardTyped
  <2>14. GuardPlaced'
    BY <1>1, <2>6, <2>10, <2>11 DEF GuardSound, GuardPlaced
  <2>15. ASSUME ~guard.disturbed PROVE GuardJudges'
    <3>1. /\ guard.asked \subseteq UNION {targetIdentities(guard.targets[i]) : i \in 1..Len(guard.targets)}
          /\ \A i \in 1..Len(guard.targets) :
                i < guard.at => targetIdentities(guard.targets[i]) \subseteq permitted
          /\ guard.loaded => PermBy(guard.policy) \subseteq permitted
          /\ ~guard.loaded => guard.policy = NoPolicy
      BY <1>1, <2>15 DEF GuardSound, GuardJudges
    <3>2. guard.asked \subseteq UNION {targetIdentities(guard.targets[i])' : i \in 1..Len(guard.targets)}
      BY <3>1, <2>7, <2>10
    <3>3. \A i \in 1..Len(guard.targets) :
            i < guard.at => targetIdentities(guard.targets[i])' \subseteq permitted'
      BY <3>1, <2>7, <2>10, <2>12
    <3>4. guard.loaded => PermBy(guard.policy) \subseteq permitted'
      BY <3>1, <2>12
    <3>5. QED
      BY <2>4, <2>6, <2>8, <2>10, <3>1, <3>2, <3>3, <3>4 DEF GuardJudges
  <2>16. ASSUME guard.disturbed PROVE GuardJudges'
    BY <2>10, <2>16 DEF GuardJudges
  <2>17. AllowedWasPermitted'
    BY <2>6, <2>10 DEF AllowedWasPermitted
  <2>18. QED
    BY <2>9, <2>13, <2>14, <2>15, <2>16, <2>17 DEF GuardTyped, GuardSound
<1>5. QED
  BY <1>3, <1>4

\* Reading on: the guard goes to a later stage of the load and keeps its
\* targets; what it holds is what the files say.
LEMMA ReadOnStep ==
  ASSUME Typed, GuardSound, GuardOnly, Remember,
         guard.stage \in {"guardrails", "active", "scope"},
         NEW stage \in {"active", "scope", "summary"}, NEW policy \in Policies,
         NEW feature \in Features \cup {"none"},
         stage # "active" => feature \in Features,
         guard' \in GuardRecords,
         guard'.stage = stage, guard'.loaded = guard.loaded, guard'.policy = policy,
         guard'.targets = guard.targets, guard'.at = guard.at, guard'.current = guard.current,
         guard'.asked = guard.asked, guard'.disturbed = guard.disturbed, guard'.feature = feature,
         ~guard.disturbed =>
            /\ Readable(guardrails)
            /\ stage \in {"active", "scope"} => policy = PartialPolicy(NoScope)
            /\ stage \in {"scope", "summary"} =>
                  PermBy(PolicyOf(feature)) \subseteq permitted \cup PermBy(PolicyNow)
            /\ stage = "summary" => Readable(scopes[feature]) /\ policy = PartialPolicy(scopes[feature].content)
  PROVE  GuardTyped' /\ GuardSound'
<1>1. guard \in GuardRecords /\ guard.stage \notin Answered
  BY DEF Typed, GuardTyped, Answered
<1>3. /\ guard'.stage = stage /\ guard'.loaded = guard.loaded /\ guard'.policy = policy
      /\ guard'.targets = guard.targets /\ guard'.at = guard.at /\ guard'.current = guard.current
      /\ guard'.asked = guard.asked /\ guard'.disturbed = guard.disturbed /\ guard'.feature = feature
  OBVIOUS
<1>4. guard'.stage \notin Answered
  BY <1>3 DEF Answered
<1>5. permitted \subseteq permitted' /\ PermBy(PolicyNow) \subseteq permitted'
  BY <1>1, <1>4, PermittedGrows
<1>6. permitted' \subseteq Paths
  BY Remembers DEF Typed, GuardTyped
<1>7. ~guard.loaded
  BY <1>1 DEF GuardSound, GuardPlaced
<1>8. GuardPlaced'
  BY <1>1, <1>3, <1>7 DEF GuardSound, GuardPlaced
<1>9. ASSUME ~guard.disturbed PROVE GuardJudges'
  <2>1. /\ guard.asked \subseteq UNION {targetIdentities(guard.targets[i]) : i \in 1..Len(guard.targets)}
        /\ \A i \in 1..Len(guard.targets) :
              i < guard.at => targetIdentities(guard.targets[i]) \subseteq permitted
        /\ guard.current = targetIdentities(guard.targets[guard.at]) /\ guard.current \subseteq Paths
    BY <1>1, <1>9 DEF GuardSound, GuardJudges
  <2>2. /\ \A path : targetIdentities(path)' = targetIdentities(path)
        /\ \A f : PolicyOf(f)' = PolicyOf(f)
        /\ \A scope : PartialPolicy(scope)' = PartialPolicy(scope)
        /\ guardrails' = guardrails /\ scopes' = scopes
    BY FilesStill
  <2>3. guard.asked \subseteq UNION {targetIdentities(guard.targets[i])' : i \in 1..Len(guard.targets)}
    BY <1>3, <2>1, <2>2
  <2>4. \A i \in 1..Len(guard.targets) :
          i < guard.at => targetIdentities(guard.targets[i])' \subseteq permitted'
    BY <1>3, <1>5, <2>1, <2>2
  <2>5. guard.current = targetIdentities(guard.targets[guard.at])' /\ guard.current \subseteq Paths
    BY <1>3, <2>1, <2>2
  <2>6. stage \in {"scope", "summary"} => PermBy(PolicyOf(feature)') \subseteq permitted'
    BY <1>5, <1>9, <2>2
  <2>7. /\ Readable(guardrails')
        /\ stage \in {"active", "scope"} => policy = PartialPolicy(NoScope)'
        /\ stage = "summary" => Readable(scopes'[feature]) /\ policy = PartialPolicy(scopes[feature].content)'
    BY <1>9, <2>2
  <2>8. QED
    BY <1>3, <1>7, <2>2, <2>3, <2>4, <2>5, <2>6, <2>7 DEF GuardJudges, PartialPolicy
<1>10. ASSUME guard.disturbed PROVE GuardJudges'
  BY <1>3, <1>10 DEF GuardJudges
<1>11. AllowedWasPermitted'
  BY <1>3 DEF AllowedWasPermitted
<1>12. QED
  BY <1>6, <1>8, <1>9, <1>10, <1>11 DEF GuardTyped, GuardSound

LEMMA GuardrailsStep ==
  ASSUME Typed, GuardSound, readGuardrails
  PROVE  GuardTyped' /\ GuardSound'
<1>1. /\ guard \in GuardRecords /\ guard.stage = "guardrails" /\ guard.stage \notin Answered
      /\ GuardOnly /\ Remember
  BY DEF Typed, GuardTyped, Answered, readGuardrails, Guarding
<1>2. guardrails \in Documents(WriteBlocks)
  BY DEF Typed, FilesTyped
<1>3. CASE ~Readable(guardrails)
  <2>1. Loads(NoPolicy) /\ NoPolicy \in Policies
    BY <1>3 DEF readGuardrails, NoPolicy, Policies
  <2>2. PolicyNow = NoPolicy
    BY <1>3, PolicyNowIs
  <2>3. PermBy(NoPolicy) \subseteq permitted \cup PermBy(PolicyNow)
    BY <2>2
  <2>4. QED
    BY <1>1, <2>1, <2>3, LoadStep
<1>4. CASE Readable(guardrails)
  <2> DEFINE blocks == guardrails.content
             policy == [guard.policy EXCEPT !.blocks = blocks]
  <2>1. guard' = [guard EXCEPT !.stage = "active", !.policy.blocks = blocks]
    BY <1>4 DEF readGuardrails
  <2>2. blocks \in WriteBlocks
    BY <1>2, <1>4, DocumentsAre
  <2>3. guard.policy \in Policies
    BY <1>1 DEF GuardRecords
  <2>4. ~guard.disturbed => guard.policy = NoPolicy
    BY <1>1 DEF GuardSound, GuardPlaced, GuardJudges
  <2> HIDE DEF blocks
  <2>5. policy \in Policies
    BY <2>2, <2>3 DEF Policies
  <2>6. ~guard.disturbed => policy = PartialPolicy(NoScope)
    <3>1. SUFFICES ASSUME ~guard.disturbed PROVE policy = PartialPolicy(NoScope)
      OBVIOUS
    <3>2. policy.valid = FALSE /\ policy.blocks = blocks /\ policy.scope = NoScope
      BY <2>3, <2>4, <3>1 DEF NoPolicy, Policies
    <3>3. PartialPolicy(NoScope) \in Policies
      BY <2>2 DEF PartialPolicy, Policies, blocks
    <3>4. /\ PartialPolicy(NoScope).valid = FALSE /\ PartialPolicy(NoScope).blocks = blocks
          /\ PartialPolicy(NoScope).scope = NoScope
      BY DEF PartialPolicy, blocks
    <3> HIDE DEF policy
    <3>5. QED
      BY <2>5, <3>2, <3>3, <3>4, PoliciesEqual DEF Policies
  <2>7. guard' = [guard EXCEPT !.stage = "active", !.policy = policy]
    BY <1>1, <2>1, <2>3 DEF GuardRecords
  <2> HIDE DEF policy
  <2>8. guard' \in GuardRecords
    BY <1>1, <2>5, <2>7 DEF GuardRecords, GuardStages
  <2>9. /\ guard'.stage = "active" /\ guard'.loaded = guard.loaded /\ guard'.policy = policy
        /\ guard'.targets = guard.targets /\ guard'.at = guard.at /\ guard'.current = guard.current
        /\ guard'.asked = guard.asked /\ guard'.disturbed = guard.disturbed /\ guard'.feature = guard.feature
    BY <1>1, <2>7, <2>8 DEF GuardRecords
  <2>10. guard.feature \in Features \cup {"none"}
    BY <1>1 DEF GuardRecords
  <2> DEFINE feature == guard.feature
             stage == "active"
  <2>11. ~guard.disturbed =>
            /\ Readable(guardrails)
            /\ stage \in {"active", "scope"} => policy = PartialPolicy(NoScope)
            /\ stage \in {"scope", "summary"} =>
                  PermBy(PolicyOf(feature)) \subseteq permitted \cup PermBy(PolicyNow)
            /\ stage = "summary" => Readable(scopes[feature]) /\ policy = PartialPolicy(scopes[feature].content)
    BY <1>4, <2>6
  <2>12. QED
    BY <1>1, <2>5, <2>8, <2>9, <2>10, <2>11, ReadOnStep
<1>5. QED
  BY <1>3, <1>4

LEMMA ActiveStep ==
  ASSUME Typed, GuardSound, activeFeature
  PROVE  GuardTyped' /\ GuardSound'
<1>1. /\ guard \in GuardRecords /\ guard.stage = "active" /\ guard.stage \notin Answered
      /\ GuardOnly /\ Remember
  BY DEF Typed, GuardTyped, Answered, activeFeature, Guarding
<1>2. guard.policy \in Policies
  BY <1>1 DEF GuardRecords
<1>3. ~guard.disturbed => Readable(guardrails) /\ guard.policy = PartialPolicy(NoScope)
  BY <1>1 DEF GuardSound, GuardJudges
<1>4. CASE active \notin Features
  <2> DEFINE valid == active = "none"
             policy == [guard.policy EXCEPT !.valid = valid]
  <2>1. Loads(policy)
    BY <1>4 DEF activeFeature
  <2>2. valid \in BOOLEAN
    OBVIOUS
  <2>3. ~guard.disturbed => PolicyNow = [valid |-> valid, blocks |-> guardrails.content, scope |-> NoScope]
    BY <1>3, <1>4, PolicyNowIs
  <2> HIDE DEF valid
  <2>4. policy \in Policies
    BY <1>2, <2>2 DEF Policies
  <2>5. ~guard.disturbed => policy = PolicyNow
    BY <1>2, <1>3, <2>2, <2>3 DEF PartialPolicy, Policies
  <2> HIDE DEF policy
  <2>6. QED
    BY <1>1, <2>1, <2>4, <2>5, LoadStep
<1>5. CASE active \in Features
  <2>1. guard' = [guard EXCEPT !.stage = "scope", !.feature = active]
    BY <1>5 DEF activeFeature
  <2>2. guard' \in GuardRecords
    BY <1>1, <1>5, <2>1 DEF GuardRecords, GuardStages
  <2>3. /\ guard'.stage = "scope" /\ guard'.loaded = guard.loaded /\ guard'.policy = guard.policy
        /\ guard'.targets = guard.targets /\ guard'.at = guard.at /\ guard'.current = guard.current
        /\ guard'.asked = guard.asked /\ guard'.disturbed = guard.disturbed /\ guard'.feature = active
    BY <1>1, <2>1, <2>2 DEF GuardRecords
  <2>4. ~guard.disturbed => PermBy(PolicyOf(active)) \subseteq permitted \cup PermBy(PolicyNow)
    BY <1>3, <1>5, PolicyNowIs
  <2>5. active \in Features \cup {"none"}
    BY <1>5
  <2> DEFINE feature == active
             policy == guard.policy
             stage == "scope"
  <2>6. ~guard.disturbed =>
            /\ Readable(guardrails)
            /\ stage \in {"active", "scope"} => policy = PartialPolicy(NoScope)
            /\ stage \in {"scope", "summary"} =>
                  PermBy(PolicyOf(feature)) \subseteq permitted \cup PermBy(PolicyNow)
            /\ stage = "summary" => Readable(scopes[feature]) /\ policy = PartialPolicy(scopes[feature].content)
    BY <1>3, <2>4
  <2>7. QED
    BY <1>1, <1>2, <1>5, <2>2, <2>3, <2>5, <2>6, ReadOnStep
<1>6. QED
  BY <1>4, <1>5

LEMMA ScopeStep ==
  ASSUME Typed, GuardSound, readScope
  PROVE  GuardTyped' /\ GuardSound'
<1> DEFINE f == guard.feature
           scope == scopes[f]
<1>1. /\ guard \in GuardRecords /\ guard.stage = "scope" /\ guard.stage \notin Answered
      /\ GuardOnly /\ Remember
  BY DEF Typed, GuardTyped, Answered, readScope, Guarding
<1>2. guard.policy \in Policies
  BY <1>1 DEF GuardRecords
<1>3. f \in Features
  BY <1>1 DEF GuardSound, GuardPlaced
<1>4. scope \in Documents(Scopes)
  BY <1>3 DEF Typed, FilesTyped
<1>5. ~guard.disturbed => /\ Readable(guardrails) /\ guard.policy = PartialPolicy(NoScope)
                       /\ PermBy(PolicyOf(f)) \subseteq permitted
  BY <1>1 DEF GuardSound, GuardJudges
<1>6. CASE ~Readable(scope)
  <2> DEFINE valid == scope = Missing
             policy == [guard.policy EXCEPT !.valid = valid]
  <2>1. Loads(policy)
    BY <1>6 DEF readScope
  <2>2. valid \in BOOLEAN
    OBVIOUS
  <2>3. PolicyOf(f) = [valid |-> valid, blocks |-> guardrails.content, scope |-> NoScope]
    BY <1>6 DEF PolicyOf, PolicyWith
  <2> HIDE DEF valid
  <2>4. policy \in Policies
    BY <1>2, <2>2 DEF Policies
  <2>5. ~guard.disturbed => policy = PolicyOf(f)
    BY <1>2, <1>5, <2>2, <2>3 DEF PartialPolicy, Policies
  <2> HIDE DEF policy
  <2>6. ~guard.disturbed => PermBy(policy) \subseteq permitted \cup PermBy(PolicyNow)
    BY <1>5, <2>5
  <2>7. QED
    BY <1>1, <2>1, <2>4, <2>6, LoadStep
<1>7. CASE Readable(scope)
  <2> DEFINE content == scope.content
             policy == [guard.policy EXCEPT !.scope = content]
  <2>1. guard' = [guard EXCEPT !.stage = "summary", !.policy.scope = content]
    BY <1>7 DEF readScope
  <2>2. content \in Scopes
    BY <1>4, <1>7, DocumentsAre
  <2> HIDE DEF content
  <2>3. policy \in Policies
    BY <1>2, <2>2 DEF Policies
  <2>4. ~guard.disturbed => policy = PartialPolicy(content)
    <3>1. SUFFICES ASSUME ~guard.disturbed PROVE policy = PartialPolicy(content)
      OBVIOUS
    <3> DEFINE blocks == guardrails.content
    <3>2. guard.policy = [valid |-> FALSE, blocks |-> blocks, scope |-> NoScope]
      BY <1>5, <3>1 DEF PartialPolicy
    <3>3. PartialPolicy(content) = [valid |-> FALSE, blocks |-> blocks, scope |-> content]
      BY DEF PartialPolicy
    <3> HIDE DEF blocks
    <3>4. policy.valid = FALSE /\ policy.blocks = blocks /\ policy.scope = content
      BY <1>2, <3>2 DEF Policies
    <3>5. blocks \in WriteBlocks \cup {<<>>}
      BY <1>2, <3>2 DEF Policies
    <3>6. [valid |-> FALSE, blocks |-> blocks, scope |-> content] \in Policies
      BY <2>2, <3>5 DEF Policies
    <3> HIDE DEF policy
    <3>7. QED
      BY <2>3, <3>3, <3>4, <3>6, PoliciesEqual DEF Policies
  <2>5. guard' = [guard EXCEPT !.stage = "summary", !.policy = policy]
    BY <1>1, <1>2, <2>1 DEF GuardRecords
  <2> HIDE DEF policy
  <2>6. guard' \in GuardRecords
    BY <1>1, <2>3, <2>5 DEF GuardRecords, GuardStages
  <2>7. /\ guard'.stage = "summary" /\ guard'.loaded = guard.loaded /\ guard'.policy = policy
        /\ guard'.targets = guard.targets /\ guard'.at = guard.at /\ guard'.current = guard.current
        /\ guard'.asked = guard.asked /\ guard'.disturbed = guard.disturbed /\ guard'.feature = f
    BY <1>1, <2>5, <2>6 DEF GuardRecords
  <2> DEFINE stage == "summary"
  <2>8. ~guard.disturbed =>
            /\ Readable(guardrails)
            /\ stage \in {"active", "scope"} => policy = PartialPolicy(NoScope)
            /\ stage \in {"scope", "summary"} =>
                  PermBy(PolicyOf(f)) \subseteq permitted \cup PermBy(PolicyNow)
            /\ stage = "summary" => Readable(scopes[f]) /\ policy = PartialPolicy(scopes[f].content)
    BY <1>5, <1>7, <2>4 DEF content
  <2>9. f \in Features \cup {"none"}
    BY <1>3
  <2>10. QED
    BY <1>1, <1>3, <2>3, <2>6, <2>7, <2>8, <2>9, ReadOnStep
<1>8. QED
  BY <1>6, <1>7

LEMMA SummaryStep ==
  ASSUME Typed, GuardSound, readSummary
  PROVE  GuardTyped' /\ GuardSound'
<1> DEFINE f == guard.feature
           reviewed == summaries[f]
           agrees == Readable(reviewed) /\ scopesAgree(guard.policy.scope, reviewed.content)
           scope == IF agrees THEN guard.policy.scope ELSE NoScope
           policy == [guard.policy EXCEPT !.valid = agrees, !.scope = scope]
<1>1. /\ guard \in GuardRecords /\ guard.stage = "summary" /\ guard.stage \notin Answered
      /\ GuardOnly /\ Remember /\ Loads(policy)
  BY DEF Typed, GuardTyped, Answered, readSummary, Guarding
<1>2. guard.policy \in Policies
  BY <1>1 DEF GuardRecords
<1>3. f \in Features
  BY <1>1 DEF GuardSound, GuardPlaced
<1>4. scopes[f] \in Documents(Scopes) /\ reviewed \in Documents(Scopes)
  BY <1>3 DEF Typed, FilesTyped
<1>5. agrees \in BOOLEAN /\ scope \in Scopes \cup {NoScope}
  BY <1>2 DEF Policies
<1>6. ~guard.disturbed => /\ Readable(scopes[f]) /\ guard.policy = PartialPolicy(scopes[f].content)
                       /\ PermBy(PolicyOf(f)) \subseteq permitted
  BY <1>1 DEF GuardSound, GuardJudges
<1>7. policy \in Policies
  <2> HIDE DEF agrees, scope
  <2>1. QED
    BY <1>2, <1>5 DEF Policies
<1>8. ASSUME ~guard.disturbed PROVE policy = PolicyOf(f)
  <2> DEFINE content == scopes[f].content
             blocks == guardrails.content
  <2>1. guard.policy = [valid |-> FALSE, blocks |-> blocks, scope |-> content]
    BY <1>6, <1>8 DEF PartialPolicy
  <2>2. guard.policy.scope = content /\ guard.policy.blocks = blocks
    BY <2>1
  <2>3. scopes[f] # Missing /\ scopes[f] = Document("valid", content) /\ content \in Scopes
    BY <1>4, <1>6, <1>8, DocumentsAre
  <2>4. agrees => reviewed = Document("valid", reviewed.content) /\ reviewed.content \in Scopes
    BY <1>4, DocumentsAre
  <2>5. agrees => content = reviewed.content
    BY <2>2, <2>3, <2>4, ScopesAssumption DEF scopesAgree
  <2>6. agrees => scopes[f] = summaries[f]
    BY <2>3, <2>4, <2>5
  <2>7. scopes[f] = summaries[f] => agrees
    BY <1>6, <1>8, <2>2 DEF scopesAgree
  <2>8. PolicyOf(f) = IF agrees THEN [valid |-> TRUE, blocks |-> blocks, scope |-> content]
                      ELSE [valid |-> FALSE, blocks |-> blocks, scope |-> NoScope]
    BY <1>6, <1>8, <2>3, <2>6, <2>7 DEF PolicyOf, PolicyWith
  <2>9. scope = IF agrees THEN content ELSE NoScope
    BY <2>2
  <2> HIDE DEF agrees, scope, content, blocks
  <2>10. policy.valid = agrees /\ policy.blocks = blocks /\ policy.scope = scope
    BY <1>2, <2>2 DEF Policies
  <2>11. blocks \in WriteBlocks \cup {<<>>} /\ content \in Scopes
    BY <1>2, <2>2, <2>3 DEF Policies
  <2>12. /\ PolicyOf(f) \in Policies /\ PolicyOf(f).valid = agrees
         /\ PolicyOf(f).blocks = blocks /\ PolicyOf(f).scope = scope
    <3>1. CASE agrees
      <4>1. PolicyOf(f) = [valid |-> TRUE, blocks |-> blocks, scope |-> content] /\ scope = content
        BY <2>8, <2>9, <3>1
      <4>2. agrees = TRUE
        BY <1>5, <3>1
      <4>3. /\ PolicyOf(f) \in Policies /\ PolicyOf(f).valid = TRUE
            /\ PolicyOf(f).blocks = blocks /\ PolicyOf(f).scope = scope
        BY <4>1, <2>11 DEF Policies
      <4>4. PolicyOf(f).valid = agrees
        BY <4>2, <4>3
      <4>5. QED
        BY <4>3, <4>4
    <3>2. CASE ~agrees
      <4>1. PolicyOf(f) = [valid |-> FALSE, blocks |-> blocks, scope |-> NoScope] /\ scope = NoScope
        BY <2>8, <2>9, <3>2
      <4>2. agrees = FALSE
        BY <1>5, <3>2
      <4>3. /\ PolicyOf(f) \in Policies /\ PolicyOf(f).valid = FALSE
            /\ PolicyOf(f).blocks = blocks /\ PolicyOf(f).scope = scope
        BY <4>1, <2>11 DEF Policies
      <4>4. QED
        BY <4>2, <4>3
    <3>3. QED
      BY <3>1, <3>2
  <2> HIDE DEF policy
  <2>13. QED
    BY <1>7, <2>10, <2>12, PoliciesEqual DEF Policies
<1> HIDE DEF policy
<1>9. ~guard.disturbed => PermBy(policy) \subseteq permitted \cup PermBy(PolicyNow)
  BY <1>6, <1>8
<1>10. QED
  BY <1>1, <1>7, <1>9, LoadStep

LEMMA JudgeStep ==
  ASSUME Typed, GuardSound, guardOutcome
  PROVE  GuardTyped' /\ GuardSound'
<1>1. /\ guard \in GuardRecords /\ guard.stage = "judge" /\ guard.stage \notin Answered
      /\ GuardOnly /\ Remember
  BY DEF Typed, GuardTyped, Answered, guardOutcome, Guarding
<1>2. /\ guard.at \in 1..Len(guard.targets) /\ guard.targets \in Seq(Paths) /\ guard.at \in Nat
      /\ guard.loaded /\ Len(guard.targets) \in Nat
  BY <1>1 DEF GuardSound, GuardPlaced, GuardRecords
<1>3. ~guard.disturbed =>
        /\ guard.asked \subseteq UNION {targetIdentities(guard.targets[i]) : i \in 1..Len(guard.targets)}
        /\ \A i \in 1..Len(guard.targets) :
              i < guard.at => targetIdentities(guard.targets[i]) \subseteq permitted
        /\ guard.current = targetIdentities(guard.targets[guard.at]) /\ guard.current \subseteq Paths
        /\ PermBy(guard.policy) \subseteq permitted
  BY <1>1, <1>2 DEF GuardSound, GuardJudges
<1>4. CASE ~evaluateWriteRequest(guard.current, guard.policy)
  <2>1. Answers("denied")
    BY <1>4 DEF guardOutcome
  <2>2. QED
    BY <1>1, <2>1, AnswerStep
<1>5. CASE evaluateWriteRequest(guard.current, guard.policy)
  <2>1. ~guard.disturbed => guard.current \subseteq permitted
    BY <1>3, <1>5, JudgedIsPermitted
  <2>2. ~guard.disturbed => \A i \in 1..Len(guard.targets) :
            i <= guard.at => targetIdentities(guard.targets[i]) \subseteq permitted
    BY <1>2, <1>3, <2>1
  <2>3. CASE guard.at = Len(guard.targets)
    <3>1. Answers("allowed")
      BY <1>5, <2>3 DEF guardOutcome
    <3>2. ASSUME ~guard.disturbed PROVE guard.asked \subseteq permitted
      <4>1. \A i \in 1..Len(guard.targets) : targetIdentities(guard.targets[i]) \subseteq permitted
        BY <1>2, <2>2, <2>3, <3>2
      <4>2. QED
        BY <1>3, <3>2, <4>1
    <3>3. QED
      BY <1>1, <3>1, <3>2, AnswerStep
  <2>4. CASE guard.at # Len(guard.targets)
    <3> DEFINE at == guard.at + 1
    <3>1. guard' = [guard EXCEPT !.stage = "inspect", !.at = at]
      BY <1>5, <2>4 DEF guardOutcome
    <3>2. at \in 1..Len(guard.targets) /\ at \in Nat
      BY <1>2, <2>4
    <3>3. \A i \in 1..Len(guard.targets) : i < at => i <= guard.at
      BY <1>2
    <3> HIDE DEF at
    <3>4. guard' \in GuardRecords
      BY <1>1, <3>1, <3>2 DEF GuardRecords, GuardStages
    <3>5. /\ guard'.stage = "inspect" /\ guard'.at = at /\ guard'.loaded = guard.loaded
          /\ guard'.policy = guard.policy /\ guard'.targets = guard.targets
          /\ guard'.asked = guard.asked /\ guard'.disturbed = guard.disturbed
      BY <1>1, <3>1, <3>4 DEF GuardRecords
    <3>6. guard'.stage \notin Answered
      BY <3>5 DEF Answered
    <3>7. permitted \subseteq permitted' /\ permitted' \subseteq Paths
      BY <1>1, <3>6, PermittedGrows, Remembers DEF Typed, GuardTyped
    <3>8. GuardPlaced'
      BY <1>2, <3>2, <3>5, <3>6 DEF GuardPlaced
    <3>9. ASSUME ~guard.disturbed PROVE GuardJudges'
      <4>1. \A path : targetIdentities(path)' = targetIdentities(path)
        BY <1>1, FilesStill
      <4>2. guard.asked \subseteq UNION {targetIdentities(guard.targets[i])' : i \in 1..Len(guard.targets)}
        BY <1>3, <3>5, <3>9, <4>1
      <4>3. \A i \in 1..Len(guard.targets) :
              i < at => targetIdentities(guard.targets[i])' \subseteq permitted'
        BY <2>2, <3>3, <3>5, <3>7, <3>9, <4>1
      <4>4. PermBy(guard.policy) \subseteq permitted'
        BY <1>3, <3>7, <3>9
      <4>5. QED
        BY <1>2, <3>5, <4>2, <4>3, <4>4 DEF GuardJudges
    <3>10. ASSUME guard.disturbed PROVE GuardJudges'
      BY <3>5, <3>10 DEF GuardJudges
    <3>11. AllowedWasPermitted'
      BY <3>5 DEF AllowedWasPermitted
    <3>12. QED
      BY <3>4, <3>7, <3>8, <3>9, <3>10, <3>11 DEF GuardTyped, GuardSound
  <2>5. QED
    BY <2>3, <2>4
<1>6. QED
  BY <1>4, <1>5

-----------------------------------------------------------------------------
(* Steps of the commands *)

\* A command that is through leaves any transaction as it is.
LEMMA IdleSound ==
  /\ IdleProc \in ProcRecords
  /\ \A t : TxSound(t) => CmdSound(IdleProc, t)
<1>1. NoState \in States
  BY DEF NoState, States
<1>2. Missing \in Documents(Scopes)
  BY DEF Documents
<1>3. IdleProc \in ProcRecords /\ IdleProc.stage = "idle"
  BY <1>1, <1>2 DEF IdleProc, ProcRecords, ProcStages, Active
<1>4. QED
  BY <1>3 DEF CmdSound

\* A transaction that does not exist is in order.
LEMMA NoTxSound == NoTx \in TxRecords /\ TxSound(NoTx) /\ NoTx.phase = "none" /\ NoTx.done = 0
  BY DEF NoTx, TxRecords, TxSound

\* One command moves, and its transaction with it.
LEMMA PairStep ==
  ASSUME Typed, ProcSound, NEW p \in Procs, NEW next \in ProcRecords, NEW t \in TxRecords,
         proc' = [proc EXCEPT ![p] = next], tx' = [tx EXCEPT ![p] = t], CmdSound(next, t)
  PROVE  /\ ProcTyped' /\ ProcSound'
         /\ tx'[p] = t /\ \A q \in Procs : q # p => tx'[q] = tx[q]
<1>1. proc \in [Procs -> ProcRecords] /\ tx \in [Procs -> TxRecords]
  BY DEF Typed, ProcTyped
<1>2. proc' \in [Procs -> ProcRecords] /\ tx' \in [Procs -> TxRecords]
  BY <1>1
<1>3. ASSUME NEW q \in Procs
      PROVE  /\ proc'[q] = IF q = p THEN next ELSE proc[q]
             /\ tx'[q] = IF q = p THEN t ELSE tx[q]
  BY <1>1
<1>4. ASSUME NEW q \in Procs PROVE CmdSound(proc'[q], tx'[q])
  <2>1. CmdSound(proc[q], tx[q])
    BY DEF ProcSound
  <2>2. CASE q = p
    BY <1>3, <2>2
  <2>3. CASE q # p
    <3>1. proc'[q] = proc[q] /\ tx'[q] = tx[q]
      BY <1>3, <2>3
    <3>2. QED
      BY <2>1, <3>1
  <2>4. QED
    BY <2>2, <2>3
<1>5. ProcSound'
  BY <1>4 DEF ProcSound
<1>6. QED
  BY <1>2, <1>3, <1>5 DEF ProcTyped

\* One command moves while its transaction stays.
LEMMA MovesStep ==
  ASSUME Typed, ProcSound, NEW p \in Procs, NEW next \in ProcRecords, Moves(p, next), tx' = tx,
         CmdSound(next, tx[p])
  PROVE  ProcTyped' /\ ProcSound'
<1>1. tx \in [Procs -> TxRecords]
  BY DEF Typed, ProcTyped
<1>2. tx' = [tx EXCEPT ![p] = tx[p]] /\ tx[p] \in TxRecords
  BY <1>1
<1>3. proc' = [proc EXCEPT ![p] = next]
  BY DEF Moves
<1>4. QED
  BY <1>2, <1>3, PairStep

LEMMA IdlesStep ==
  ASSUME Typed, ProcSound, NEW p \in Procs, Moves(p, IdleProc), tx' = tx
  PROVE  ProcTyped' /\ ProcSound'
<1>1. TxSound(tx[p])
  BY DEF ProcSound, CmdSound
<1>2. IdleProc \in ProcRecords /\ CmdSound(IdleProc, tx[p])
  BY <1>1, IdleSound
<1> HIDE DEF IdleProc
<1>3. QED
  BY <1>2, MovesStep

\* While no file of an objective changes and no transaction is dropped that is
\* publishing, the files stay as sound as they are.
LEMMA FilesStay ==
  ASSUME FilesSound, UNCHANGED records, active' \in Features => active' = active,
         NEW t, NEW p \in Procs, tx'[p] = t, \A q \in Procs : q # p => tx'[q] = tx[q],
         StateWritten(t),
         tx[p].phase = "publishing" => t.ops = tx[p].ops /\ t.phase = "publishing"
  PROVE  FilesSound'
<1>1. states' = states /\ documents' = documents /\ history' = history
  BY DEF records
<1>2. active' \in Features => states'[active'] # NoState
  BY <1>1 DEF FilesSound
<1>3. ASSUME NEW q \in Procs PROVE StateWritten(tx[q])'
  <2>1. CASE q = p
    <3>1. tx'[q] = t
      BY <2>1
    <3>2. QED
      BY <1>1, <3>1 DEF StateWritten
  <2>2. CASE q # p
    <3>1. tx'[q] = tx[q] /\ StateWritten(tx[q])
      BY <2>2 DEF FilesSound
    <3>2. QED
      BY <1>1, <3>1 DEF StateWritten
  <2>3. QED
    BY <2>1, <2>2
<1>4. ASSUME NEW f \in Features PROVE Told(f)' \/ \E q \in Procs : Wrote(tx[q], f)'
  <2>1. CASE Told(f)
    BY <1>1, <2>1 DEF Told
  <2>2. ASSUME NEW q \in Procs, Wrote(tx[q], f) PROVE Wrote(tx[q], f)'
    <3>1. CASE q # p
      <4>1. tx'[q] = tx[q]
        BY <3>1
      <4>2. QED
        BY <1>1, <2>2, <4>1 DEF Wrote
    <3>2. CASE q = p
      <4>1. tx[p].phase = "publishing"
        BY <2>2, <3>2 DEF Wrote
      <4>2. tx'[q].ops = tx[q].ops /\ tx'[q].phase = "publishing"
        BY <3>2, <4>1
      <4>3. QED
        BY <1>1, <2>2, <4>2 DEF Wrote
    <3>3. QED
      BY <3>1, <3>2
  <2>3. QED
    BY <2>1, <2>2 DEF FilesSound
<1>5. QED
  BY <1>2, <1>3, <1>4 DEF FilesSound

\* Nor if nothing of it changes at all.
LEMMA FilesStill2 ==
  ASSUME FilesSound, UNCHANGED <<records, tx>>, active' \in Features => active' = active
  PROVE  FilesSound'
<1>1. states' = states /\ documents' = documents /\ history' = history /\ tx' = tx
  BY DEF records
<1>2. QED
  BY <1>1 DEF FilesSound, StateWritten, Told, Wrote

\* A command that only reads.
LEMMA ReadingStep ==
  ASSUME Inv, ProcOnly, Remember
  PROVE  FilesTyped' /\ GuardTyped' /\ GuardSound' /\ FilesSound'
<1>1. /\ UNCHANGED <<guardrails, active, scopes, summaries, states, documents, history, link, guard, tx>>
      /\ Typed /\ GuardSound /\ FilesSound
  BY DEF ProcOnly, policyFiles, records, Inv
<1>2. GuardTyped' /\ GuardSound'
  BY <1>1, QuietStep
<1>3. FilesTyped'
  BY <1>1 DEF Typed, FilesTyped
<1>4. FilesSound'
  BY <1>1, FilesStill2 DEF records
<1>5. QED
  BY <1>2, <1>3, <1>4

\* What a step that only reads leaves to be shown.
LEMMA ReadsOn ==
  ASSUME Inv, NEW p \in Procs, NEW next \in ProcRecords, Moves(p, next), ProcOnly, Remember,
         CmdSound(next, tx[p]), SpareTyped'
  PROVE  Inv'
<1>1. Typed /\ ProcSound /\ tx' = tx
  BY DEF Inv, ProcOnly
<1>2. ProcTyped' /\ ProcSound'
  BY <1>1, MovesStep
<1>3. QED
  BY <1>2, ReadingStep DEF Inv, Typed

LEMMA ReadsOut ==
  ASSUME Inv, NEW p \in Procs, Moves(p, IdleProc), ProcOnly, Remember, SpareTyped'
  PROVE  Inv'
<1>1. Typed /\ ProcSound /\ tx' = tx
  BY DEF Inv, ProcOnly
<1>2. ProcTyped' /\ ProcSound'
  BY <1>1, IdlesStep
<1>3. QED
  BY <1>2, ReadingStep DEF Inv, Typed

\* What is known of a command that moves.
LEMMA CmdIs ==
  ASSUME Inv, NEW p \in Procs
  PROVE  proc[p] \in ProcRecords /\ tx[p] \in TxRecords /\ CmdSound(proc[p], tx[p]) /\ TxSound(tx[p])
  BY DEF Inv, Typed, ProcTyped, ProcSound, CmdSound

LEMMA ObserveObjectiveStep ==
  ASSUME Inv, NEW p \in Procs, observeObjective(p)
  PROVE  Inv'
<1> DEFINE stage == IF active \in {"none", "nameless"} THEN "decide" ELSE "state"
           now == spare.commands
           next == [IdleProc EXCEPT !.stage = stage, !.feature = active, !.now = now]
<1>1. Typed /\ ProcOnly /\ Remember /\ Moves(p, next) /\ tx[p].phase = "none" /\ TxSound(tx[p])
  BY CmdIs DEF Inv, observeObjective, Free, Incomplete
<1>2. SpareTyped'
  BY <1>1, SpendTyped DEF observeObjective
<1>3. stage \in {"decide", "state"} /\ active \in Active /\ now \in Nat
  BY <1>1 DEF Typed, FilesTyped, SpareTyped
<1> HIDE DEF stage, now
<1>4. next \in ProcRecords /\ next.stage = stage
  BY <1>3, IdleSound DEF ProcRecords, ProcStages
<1> HIDE DEF next
<1>5. CmdSound(next, tx[p])
  BY <1>1, <1>3, <1>4 DEF CmdSound
<1>6. QED
  BY <1>1, <1>2, <1>4, <1>5, ReadsOn

LEMMA ReadStateStep ==
  ASSUME Inv, NEW p \in Procs, readFeatureState(p)
  PROVE  Inv'
<1> DEFINE cmd == proc[p]
<1>1. Typed /\ ProcOnly /\ Remember /\ SpareTyped' /\ cmd.stage = "state"
  BY DEF Inv, readFeatureState, Typed, SpareTyped
<1>2. cmd \in ProcRecords /\ CmdSound(cmd, tx[p]) /\ TxSound(tx[p])
  BY CmdIs
<1>3. CASE cmd.feature \in Features /\ states[cmd.feature] # NoState
  <2> DEFINE state == states[cmd.feature]
             next == [cmd EXCEPT !.stage = "history", !.state = state]
  <2>1. Moves(p, next)
    BY <1>3 DEF readFeatureState
  <2>2. state \in States /\ cmd.feature \in Features
    BY <1>1, <1>3 DEF Typed, FilesTyped
  <2> HIDE DEF state, cmd
  <2>3. next \in ProcRecords /\ next.stage = "history" /\ next.feature = cmd.feature
    BY <1>2, <2>2 DEF ProcRecords, ProcStages
  <2> HIDE DEF next
  <2>4. CmdSound(next, tx[p])
    BY <1>1, <1>2, <2>2, <2>3 DEF CmdSound
  <2>5. QED
    BY <1>1, <2>1, <2>3, <2>4, ReadsOn
<1>4. CASE ~(cmd.feature \in Features /\ states[cmd.feature] # NoState)
  <2>1. Moves(p, IdleProc)
    BY <1>4 DEF readFeatureState
  <2>2. QED
    BY <1>1, <2>1, ReadsOut
<1>5. QED
  BY <1>3, <1>4

LEMMA ReadHistoryStep ==
  ASSUME Inv, NEW p \in Procs, readHistory(p)
  PROVE  Inv'
<1> DEFINE cmd == proc[p]
           log == history[cmd.feature]
           next == [cmd EXCEPT !.stage = "decide", !.log = log]
<1>1. Typed /\ ProcOnly /\ Remember /\ SpareTyped' /\ Moves(p, next) /\ cmd.stage = "history"
  BY DEF Inv, readHistory, Typed, SpareTyped
<1>2. cmd \in ProcRecords /\ CmdSound(cmd, tx[p]) /\ cmd.feature \in Features
  BY <1>1, CmdIs DEF CmdSound
<1>3. log \in Seq(Lines)
  BY <1>1, <1>2 DEF Typed, FilesTyped
<1> HIDE DEF log, cmd
<1>4. next \in ProcRecords /\ next.stage = "decide"
  BY <1>2, <1>3 DEF ProcRecords, ProcStages
<1> HIDE DEF next
<1>5. CmdSound(next, tx[p])
  BY <1>1, <1>2, <1>4 DEF CmdSound
<1>6. QED
  BY <1>1, <1>4, <1>5, ReadsOn

LEMMA ObserveScopeStep ==
  ASSUME Inv, NEW p \in Procs, observeScopeRecord(p)
  PROVE  Inv'
<1> DEFINE next == [IdleProc EXCEPT !.stage = "summary", !.feature = active]
<1>1. /\ Typed /\ ProcOnly /\ Remember /\ Moves(p, next) /\ tx[p].phase = "none" /\ TxSound(tx[p])
      /\ active \in Features
  BY CmdIs DEF Inv, observeScopeRecord, Free, Incomplete
<1>2. SpareTyped'
  BY <1>1, SpendTyped DEF observeScopeRecord
<1>3. next \in ProcRecords /\ next.stage = "summary" /\ next.feature = active
  BY <1>1, IdleSound DEF ProcRecords, ProcStages, Active
<1> HIDE DEF next
<1>4. CmdSound(next, tx[p])
  BY <1>1, <1>3 DEF CmdSound
<1>5. QED
  BY <1>1, <1>2, <1>3, <1>4, ReadsOn

LEMMA ReadReviewerStep ==
  ASSUME Inv, NEW p \in Procs, readReviewerScope(p)
  PROVE  Inv'
<1> DEFINE cmd == proc[p]
           reviewed == summaries[cmd.feature]
           next == [cmd EXCEPT !.stage = "scope", !.scope = reviewed]
<1>1. Typed /\ ProcOnly /\ Remember /\ SpareTyped' /\ cmd.stage = "summary"
  BY DEF Inv, readReviewerScope, Typed, SpareTyped
<1>2. cmd \in ProcRecords /\ CmdSound(cmd, tx[p]) /\ cmd.feature \in Features
  BY <1>1, CmdIs DEF CmdSound
<1>3. reviewed \in Documents(Scopes)
  BY <1>1, <1>2 DEF Typed, FilesTyped
<1>4. Moves(p, next) \/ Moves(p, IdleProc)
  BY DEF readReviewerScope
<1> HIDE DEF reviewed, cmd
<1>5. next \in ProcRecords /\ next.stage = "scope" /\ next.feature = cmd.feature
  BY <1>2, <1>3 DEF ProcRecords, ProcStages
<1> HIDE DEF next
<1>6. CmdSound(next, tx[p])
  BY <1>1, <1>2, <1>5 DEF CmdSound
<1>7. QED
  BY <1>1, <1>4, <1>5, <1>6, ReadsOn, ReadsOut

LEMMA ScopeRecordStep ==
  ASSUME Inv, NEW p \in Procs, scopeRecordOutcome(p)
  PROVE  Inv'
<1> DEFINE cmd == proc[p]
           onFile == scopes[cmd.feature]
           write == Write("scope", cmd.feature, cmd.scope)
           plan == <<write>>
           next == [cmd EXCEPT !.stage = "preflight", !.expect = onFile, !.plan = plan]
<1>1. Typed /\ ProcOnly /\ Remember /\ SpareTyped' /\ cmd.stage = "scope"
  BY DEF Inv, scopeRecordOutcome, Typed, SpareTyped
<1>2. cmd \in ProcRecords /\ CmdSound(cmd, tx[p]) /\ cmd.feature \in Features
  BY <1>1, CmdIs DEF CmdSound
<1>3. onFile \in Documents(Scopes) /\ cmd.scope \in Documents(Scopes)
  BY <1>1, <1>2 DEF Typed, FilesTyped, ProcRecords
<1>4. Moves(p, next) \/ Moves(p, IdleProc)
  BY DEF scopeRecordOutcome
<1>5. write \in Writes
  BY <1>2, <1>3 DEF Write, Writes, Files, Contents
<1>6. ScopePlan(plan)
  BY <1>2, <1>3 DEF ScopePlan
<1> HIDE DEF onFile, cmd, write
<1>7. plan \in Seq(Writes)
  BY <1>5
<1> HIDE DEF plan
<1>8. next \in ProcRecords /\ next.stage = "preflight" /\ next.plan = plan
  BY <1>2, <1>3, <1>7 DEF ProcRecords, ProcStages
<1> HIDE DEF next
<1>9. CmdSound(next, tx[p])
  BY <1>1, <1>2, <1>6, <1>8 DEF CmdSound
<1>10. QED
  BY <1>1, <1>4, <1>8, <1>9, ReadsOn, ReadsOut

\* The line a plan appends tells the state it writes.
LEMMA RecordedStep ==
  ASSUME Inv, NEW p \in Procs, NEW text \in Texts, NEW replace \in BOOLEAN, recorded(p, text, replace)
  PROVE  Inv'
<1> DEFINE cmd == proc[p]
           feature == featureIdentity[text]
           state == stateFor(cmd.state, text, cmd.now)
           line == [transition |-> Transition(cmd.state), at |-> state.at, revision |-> state.revision,
                    text |-> state.text, replaced |-> cmd.state.text]
           before == inherited(cmd, text)
           log == Append(before, line)
           plan == <<Write("state", feature, state), Write("document", feature, state),
                     Write("history", feature, log), Write("active", feature, feature)>>
           next == [cmd EXCEPT !.stage = "preflight", !.plan = plan]
<1>1. Typed /\ ProcOnly /\ Remember /\ SpareTyped' /\ cmd.stage = "decide"
  BY DEF Inv, recorded, Typed, SpareTyped
<1>2. cmd \in ProcRecords /\ CmdSound(cmd, tx[p])
  BY CmdIs
<1>3. CASE ~decideObjective(cmd.state, text, replace)
  <2>1. Moves(p, IdleProc)
    BY <1>3 DEF recorded
  <2>2. QED
    BY <1>1, <2>1, ReadsOut
<1>4. CASE decideObjective(cmd.state, text, replace)
  <2>1. Moves(p, next)
    BY <1>4 DEF recorded, appendedHistory
  <2>2. feature \in Features
    BY <1>4, IdentityAssumption DEF decideObjective
  <2>3. cmd.state \in States /\ cmd.log \in Seq(Lines) /\ cmd.now \in Nat
    BY <1>2 DEF ProcRecords
  <2> DEFINE revision == cmd.state.revision + 1
             transition == Transition(cmd.state)
             replaced == cmd.state.text
             now == cmd.now
  <2>4. revision \in Nat \ {0} /\ replaced \in Texts \cup {"none"} /\ now \in Nat
    BY <2>3 DEF States
  <2>5. transition \in {"created", "replaced", "reopened", "completed"}
    BY DEF Transition
  <2>6. state = [text |-> text, status |-> "active", revision |-> revision, at |-> now]
    BY DEF stateFor
  <2>7. before \in Seq(Lines)
    BY <2>3 DEF inherited
  <2>8. line = [transition |-> transition, at |-> state.at, revision |-> state.revision,
                text |-> state.text, replaced |-> replaced]
    BY DEF transition, replaced
  <2> HIDE DEF cmd, revision, transition, replaced, before, line, now
  <2>9. /\ state \in States /\ state.text = text /\ state.revision = revision /\ state.at = now
    BY <2>4, <2>6 DEF States
  <2> HIDE DEF state
  <2>10. line \in Lines /\ line.text = text /\ line.revision = revision /\ line.at = now
    BY <2>4, <2>5, <2>8, <2>9 DEF Lines
  <2>11. log \in Seq(Lines) /\ log # <<>> /\ Last(log) = line
    BY <2>7, <2>10 DEF Last
  <2>12. state # NoState
    BY <2>9, NamesAssumption DEF NoState
  <2> HIDE DEF log, feature
  <2>13. Tells(state, log)
    BY <2>9, <2>10, <2>11, <2>12 DEF Tells
  <2>14. ObjectivePlan(plan)
    BY <2>2, <2>9, <2>11, <2>13 DEF ObjectivePlan
  <2>15. /\ Write("state", feature, state) \in Writes /\ Write("document", feature, state) \in Writes
         /\ Write("history", feature, log) \in Writes /\ Write("active", feature, feature) \in Writes
    BY <2>2, <2>9, <2>11 DEF Write, Writes, Files, Contents, Active
  <2>16. plan \in Seq(Writes)
    BY <2>15
  <2> HIDE DEF plan
  <2>17. next \in ProcRecords /\ next.stage = "preflight" /\ next.plan = plan
    BY <1>2, <2>16 DEF ProcRecords, ProcStages
  <2>18. CmdSound(cmd, tx[p]) /\ cmd.stage = "decide"
    BY <1>1, <1>2 DEF cmd
  <2> HIDE DEF next
  <2>19. CmdSound(next, tx[p])
    BY <2>14, <2>17, <2>18 DEF CmdSound
  <2>20. QED
    BY <1>1, <2>1, <2>17, <2>19, ReadsOn
<1>5. QED
  BY <1>3, <1>4

-----------------------------------------------------------------------------
(* Steps of applyPlan up to the marker *)

\* What a destination holds is typed.
LEMMA ContentTyped ==
  ASSUME Typed, NEW w, w.file \in Files, w.feature \in Features
  PROVE  Content(w) \in Contents
<1>1. /\ states[w.feature] \in States /\ documents[w.feature] \in States /\ history[w.feature] \in Seq(Lines)
      /\ scopes[w.feature] \in Documents(Scopes) /\ active \in Active
  BY DEF Typed, FilesTyped
<1>2. Content(w) \in {states[w.feature], documents[w.feature], history[w.feature], scopes[w.feature], active}
  BY DEF Content, Files
<1>3. QED
  BY <1>1, <1>2 DEF Contents

LEMMA PreflightStep ==
  ASSUME Inv, NEW p \in Procs, preflight(p)
  PROVE  Inv'
<1> DEFINE cmd == proc[p]
           next == [cmd EXCEPT !.stage = "inspect"]
<1>1. ProcOnly /\ Remember /\ SpareTyped' /\ cmd.stage = "preflight"
  BY DEF Inv, preflight, Typed, SpareTyped
<1>2. cmd \in ProcRecords /\ CmdSound(cmd, tx[p])
  BY CmdIs
<1>3. Moves(p, next) \/ Moves(p, IdleProc)
  BY DEF preflight
<1> HIDE DEF cmd
<1>4. next \in ProcRecords /\ next.stage = "inspect" /\ next.plan = cmd.plan
  BY <1>2 DEF ProcRecords, ProcStages
<1> HIDE DEF next
<1>5. CmdSound(next, tx[p])
  BY <1>1, <1>2, <1>4 DEF CmdSound
<1>6. QED
  BY <1>1, <1>3, <1>4, <1>5, ReadsOn, ReadsOut

LEMMA ObservePathStep ==
  ASSUME Inv, NEW p \in Procs, observeManagedPath(p)
  PROVE  Inv'
<1> DEFINE cmd == proc[p]
           write == cmd.plan[Len(cmd.seen) + 1]
           seen == Append(cmd.seen, Content(write))
           next == [cmd EXCEPT !.seen = seen]
<1>1. /\ Typed /\ ProcOnly /\ Remember /\ SpareTyped' /\ cmd.stage = "inspect"
      /\ Len(cmd.seen) < Len(cmd.plan) /\ Moves(p, next)
  BY DEF Inv, observeManagedPath, Typed, SpareTyped
<1>2. cmd \in ProcRecords /\ CmdSound(cmd, tx[p])
  BY CmdIs
<1>3. cmd.plan \in Seq(Writes) /\ cmd.seen \in Seq(Contents)
  BY <1>2 DEF ProcRecords
<1>4. write \in Writes
  BY <1>1, <1>3
<1>5. Content(write) \in Contents
  BY <1>1, <1>4, ContentTyped DEF Writes
<1> HIDE DEF write
<1>6. seen \in Seq(Contents)
  BY <1>3, <1>5
<1> HIDE DEF cmd, seen
<1>7. next \in ProcRecords /\ next.stage = "inspect" /\ next.plan = cmd.plan
  BY <1>1, <1>2, <1>6 DEF ProcRecords, ProcStages
<1> HIDE DEF next
<1>8. CmdSound(next, tx[p])
  BY <1>1, <1>2, <1>7 DEF CmdSound
<1>9. QED
  BY <1>1, <1>7, <1>8, ReadsOn

LEMMA PreflightAgainStep ==
  ASSUME Inv, NEW p \in Procs, preflightAgain(p)
  PROVE  Inv'
<1> DEFINE cmd == proc[p]
           next == [cmd EXCEPT !.stage = "mark"]
<1>1. /\ ProcOnly /\ Remember /\ SpareTyped' /\ cmd.stage = "inspect"
      /\ Len(cmd.seen) = Len(cmd.plan)
  BY DEF Inv, preflightAgain, Typed, SpareTyped
<1>2. cmd \in ProcRecords /\ CmdSound(cmd, tx[p])
  BY CmdIs
<1>3. \/ Moves(p, next) /\ normalized(cmd) # <<>>
      \/ Moves(p, IdleProc)
  BY DEF preflightAgain
<1> HIDE DEF cmd
<1>4. next \in ProcRecords /\ next.stage = "mark" /\ next.plan = cmd.plan /\ next.seen = cmd.seen
  BY <1>2 DEF ProcRecords, ProcStages
<1> HIDE DEF next
<1>5. normalized(next) = normalized(cmd)
  BY <1>4 DEF normalized
<1>6. normalized(cmd) # <<>> => CmdSound(next, tx[p])
  BY <1>1, <1>2, <1>4, <1>5 DEF CmdSound
<1>7. QED
  BY <1>1, <1>3, <1>4, <1>6, ReadsOn, ReadsOut

\* The operations of a command past its observations.
LEMMA NormalizedSound ==
  ASSUME NEW cmd \in ProcRecords, Len(cmd.seen) = Len(cmd.plan), normalized(cmd) # <<>>,
         ObjectivePlan(cmd.plan) \/ ScopePlan(cmd.plan)
  PROVE  normalized(cmd) \in Seq(Ops) /\ SoundOps(normalized(cmd))
<1> DEFINE plan == cmd.plan
           seen == cmd.seen
           last == Len(plan)
           count == IF seen[last] = plan[last].result THEN last - 1 ELSE last
           op(i) == [file |-> plan[i].file, feature |-> plan[i].feature,
                     expected |-> seen[i], result |-> plan[i].result]
           ops == [i \in 1..count |-> op(i)]
<1>1. normalized(cmd) = ops
  BY DEF normalized
<1>2. plan \in Seq(Writes) /\ seen \in Seq(Contents) /\ Len(seen) = Len(plan)
  BY DEF ProcRecords
<1>3. last \in {1, 4}
  <2>1. ObjectivePlan(plan) => Len(plan) = 4
    BY DEF ObjectivePlan
  <2>2. ScopePlan(plan) => Len(plan) = 1
    BY DEF ScopePlan
  <2>3. QED
    BY <2>1, <2>2
<1>4. count \in {last - 1, last}
  OBVIOUS
<1>5. ASSUME NEW i \in 1..last PROVE op(i) \in Ops
  <2>1. plan[i] \in Writes /\ seen[i] \in Contents
    BY <1>2, <1>5
  <2>2. QED
    BY <2>1 DEF Writes, Ops
<1> HIDE DEF count
<1>6. count \in Nat /\ \A i \in 1..count : i \in 1..last
  BY <1>3, <1>4
<1>7. ops \in Seq(Ops)
  <2>1. \A i \in 1..count : op(i) \in Ops
    BY <1>5, <1>6
  <2> HIDE DEF op
  <2>2. QED
    BY <1>6, <2>1
<1>8. Len(ops) = count
  BY <1>6
<1>9. ASSUME NEW i \in 1..count
      PROVE  ops[i].file = plan[i].file /\ ops[i].feature = plan[i].feature /\ ops[i].result = plan[i].result
  BY <1>9
<1>10. count # 0
  <2>1. SUFFICES ASSUME count = 0 PROVE FALSE
    OBVIOUS
  <2>2. Len(ops) = 0
    BY <1>8, <2>1
  <2> HIDE DEF ops
  <2>3. ops = <<>>
    BY <1>7, <2>2
  <2>4. QED
    BY <1>1, <2>3
<1> HIDE DEF ops
<1>11. CASE ObjectivePlan(plan)
  <2>1. PICK f \in Features, state \in States, log \in Seq(Lines) :
           /\ Tells(state, log)
           /\ plan = <<Write("state", f, state), Write("document", f, state), Write("history", f, log),
                       Write("active", f, f)>>
    BY <1>11 DEF ObjectivePlan
  <2>2. last = 4 /\ count \in {3, 4}
    BY <1>4, <2>1
  <2>3. OpIs(ops[1], "state", f, state) /\ OpIs(ops[2], "document", f, state) /\ OpIs(ops[3], "history", f, log)
    BY <1>9, <2>1, <2>2 DEF OpIs, Write
  <2>4. count = 4 => OpIs(ops[4], "active", f, f)
    BY <1>9, <2>1, <2>2 DEF OpIs, Write
  <2>5. ObjectiveOps(ops, f, state, log)
    BY <1>8, <2>1, <2>2, <2>3, <2>4 DEF ObjectiveOps
  <2>6. QED
    BY <1>1, <1>7, <2>5 DEF SoundOps
<1>12. CASE ScopePlan(plan)
  <2>1. PICK f \in Features, scope \in Documents(Scopes) : plan = <<Write("scope", f, scope)>>
    BY <1>12 DEF ScopePlan
  <2>2. last = 1 /\ count = 1
    BY <1>4, <1>10, <2>1
  <2>3. OpIs(ops[1], "scope", f, scope)
    BY <1>9, <2>1, <2>2 DEF OpIs, Write
  <2>4. ScopeOps(ops, f, scope)
    BY <1>8, <2>2, <2>3 DEF ScopeOps
  <2>5. QED
    BY <1>1, <1>7, <2>4 DEF SoundOps
<1>13. QED
  BY <1>11, <1>12

-----------------------------------------------------------------------------
(* Steps of the transaction that leave the files alone *)

\* Neither a file nor the guard is touched, and p's transaction becomes t.
LEMMA TxStep ==
  ASSUME Inv, TxOnly, NEW p \in Procs, NEW t \in TxRecords, NEW next \in ProcRecords,
         Moves(p, next), SetTx(p, t), CmdSound(next, t), StateWritten(t),
         tx[p].phase = "publishing" => t.ops = tx[p].ops /\ t.phase = "publishing"
  PROVE  Inv'
<1>1. /\ UNCHANGED <<guardrails, active, scopes, summaries, states, documents, history, link, guard, spare>>
      /\ Remember /\ Typed /\ ProcSound /\ GuardSound /\ FilesSound
  BY DEF TxOnly, policyFiles, records, Inv
<1>2. GuardTyped' /\ GuardSound'
  BY <1>1, QuietStep
<1>3. ProcTyped' /\ ProcSound' /\ tx'[p] = t /\ \A q \in Procs : q # p => tx'[q] = tx[q]
  BY <1>1, PairStep DEF Moves, SetTx
<1>4. FilesSound'
  BY <1>1, <1>3, FilesStay DEF records
<1>5. FilesTyped' /\ SpareTyped'
  BY <1>1 DEF Typed, FilesTyped, SpareTyped
<1>6. QED
  BY <1>2, <1>3, <1>4, <1>5 DEF Inv, Typed

LEMMA MarkStep ==
  ASSUME Inv, NEW p \in Procs, markTransaction(p)
  PROVE  Inv'
<1> DEFINE cmd == proc[p]
           ops == normalized(cmd)
           t == [phase |-> "begun", ops |-> ops, done |-> 0]
           next == [cmd EXCEPT !.stage = "precheck"]
<1>1. TxOnly /\ Moves(p, next) /\ SetTx(p, t) /\ cmd.stage = "mark"
  BY DEF markTransaction, Stage
<1>2. cmd \in ProcRecords /\ CmdSound(cmd, tx[p])
  BY CmdIs
<1>3. tx[p].phase = "none" /\ ops \in Seq(Ops) /\ SoundOps(ops)
  BY <1>1, <1>2, NormalizedSound DEF CmdSound
<1> HIDE DEF cmd, ops
<1>4. t \in TxRecords /\ t.phase = "begun" /\ t.ops = ops /\ t.done = 0
  BY <1>3 DEF TxRecords
<1>5. next \in ProcRecords /\ next.stage = "precheck"
  BY <1>2 DEF ProcRecords, ProcStages
<1>6. Len(ops) \in Nat
  BY <1>3
<1> HIDE DEF t, next
<1>7. TxSound(t)
  BY <1>3, <1>4, <1>6 DEF TxSound
<1>8. CmdSound(next, t)
  BY <1>4, <1>5, <1>7 DEF CmdSound
<1>9. StateWritten(t)
  BY <1>4 DEF StateWritten
<1>10. QED
  BY <1>1, <1>3, <1>4, <1>5, <1>8, <1>9, TxStep

\* A transaction that stays, while its command goes on or is through.
LEMMA TxStays ==
  ASSUME Inv, TxOnly, NEW p \in Procs, NEW next \in ProcRecords, Moves(p, next), tx' = tx,
         CmdSound(next, tx[p])
  PROVE  Inv'
<1>1. ProcOnly /\ Remember /\ SpareTyped'
  BY DEF TxOnly, ProcOnly, Inv, Typed, SpareTyped
<1>2. QED
  BY <1>1, ReadsOn

LEMMA TxGivenUp ==
  ASSUME Inv, TxOnly, NEW p \in Procs, Moves(p, IdleProc), tx' = tx
  PROVE  Inv'
<1>1. IdleProc \in ProcRecords /\ CmdSound(IdleProc, tx[p])
  BY CmdIs, IdleSound
<1> HIDE DEF IdleProc
<1>2. QED
  BY <1>1, TxStays

\* The transaction goes to another phase, or counts another operation.
LEMMA PreconditionsStep ==
  ASSUME Inv, NEW p \in Procs, assertPreconditions(p)
  PROVE  Inv'
<1> DEFINE cmd == proc[p]
           old == tx[p]
           t == [old EXCEPT !.phase = "prepared"]
           next == [cmd EXCEPT !.stage = "authorize"]
<1>1. TxOnly /\ cmd.stage = "precheck"
  BY DEF assertPreconditions
<1>2. cmd \in ProcRecords /\ old \in TxRecords /\ CmdSound(cmd, old) /\ TxSound(old)
  BY CmdIs
<1>3. \/ Moves(p, next) /\ SetTx(p, t)
      \/ Moves(p, IdleProc) /\ tx' = tx
  BY DEF assertPreconditions, Stage
<1>4. old.phase \in {"begun", "prepared"} /\ tx[p].phase # "publishing"
  BY <1>1, <1>2 DEF CmdSound
<1> HIDE DEF cmd, old
<1>5. t \in TxRecords /\ t.phase = "prepared" /\ t.ops = old.ops /\ t.done = old.done
  BY <1>2 DEF TxRecords
<1>6. next \in ProcRecords /\ next.stage = "authorize"
  BY <1>2 DEF ProcRecords, ProcStages
<1> HIDE DEF t, next
<1>7. TxSound(t) /\ t.done = 0
  BY <1>2, <1>4, <1>5 DEF TxSound
<1>8. CmdSound(next, t) /\ StateWritten(t)
  BY <1>5, <1>6, <1>7 DEF CmdSound, StateWritten
<1>9. QED
  BY <1>1, <1>3, <1>4, <1>5, <1>6, <1>8, TxStep, TxGivenUp

LEMMA AuthorizeStep ==
  ASSUME Inv, NEW p \in Procs, authorizePublication(p)
  PROVE  Inv'
<1> DEFINE cmd == proc[p]
           old == tx[p]
           t == [old EXCEPT !.phase = "publishing"]
           next == [cmd EXCEPT !.stage = "publish"]
<1>1. TxOnly /\ cmd.stage = "authorize" /\ Moves(p, next) /\ SetTx(p, t)
  BY DEF authorizePublication, Stage
<1>2. cmd \in ProcRecords /\ old \in TxRecords /\ CmdSound(cmd, old) /\ TxSound(old)
  BY CmdIs
<1>3. old.phase \in {"begun", "prepared"} /\ tx[p].phase # "publishing"
  BY <1>1, <1>2 DEF CmdSound
<1> HIDE DEF cmd, old
<1>4. t \in TxRecords /\ t.phase = "publishing" /\ t.ops = old.ops /\ t.done = old.done
  BY <1>2 DEF TxRecords
<1>5. next \in ProcRecords /\ next.stage = "publish"
  BY <1>2 DEF ProcRecords, ProcStages
<1> HIDE DEF t, next
<1>6. TxSound(t) /\ t.done = 0
  BY <1>2, <1>3, <1>4 DEF TxSound
<1>7. CmdSound(next, t) /\ StateWritten(t)
  BY <1>4, <1>5, <1>6 DEF CmdSound, StateWritten
<1>8. QED
  BY <1>1, <1>3, <1>4, <1>5, <1>7, TxStep

LEMMA PublishableStep ==
  ASSUME Inv, NEW p \in Procs, assertPublishable(p)
  PROVE  Inv'
<1> DEFINE cmd == proc[p]
           next == [cmd EXCEPT !.stage = "rename"]
<1>1. TxOnly /\ cmd.stage = "publish" /\ tx' = tx /\ ~Published(p)
  BY DEF assertPublishable
<1>2. cmd \in ProcRecords /\ CmdSound(cmd, tx[p]) /\ TxSound(tx[p]) /\ tx[p] \in TxRecords
  BY CmdIs
<1>3. Moves(p, next) \/ Moves(p, IdleProc)
  BY DEF assertPublishable, Stage
<1>4. tx[p].done < Len(tx[p].ops)
  BY <1>1, <1>2 DEF TxSound, Published, TxRecords
<1> HIDE DEF cmd
<1>5. next \in ProcRecords /\ next.stage = "rename"
  BY <1>2 DEF ProcRecords, ProcStages
<1> HIDE DEF next
<1>6. CmdSound(next, tx[p])
  BY <1>1, <1>2, <1>4, <1>5 DEF CmdSound
<1>7. QED
  BY <1>1, <1>3, <1>5, <1>6, TxStays, TxGivenUp

\* One more operation counted, whose destination holds its result.
LEMMA DoneSound ==
  ASSUME Inv, NEW p \in Procs, tx[p].phase = "publishing", tx[p].done < Len(tx[p].ops)
  PROVE  LET t == [tx[p] EXCEPT !.done = @ + 1]
         IN  /\ t \in TxRecords /\ TxSound(t)
             /\ t.phase = "publishing" /\ t.ops = tx[p].ops /\ t.done = tx[p].done + 1
             /\ t.done > 0
<1> DEFINE old == tx[p]
           done == old.done + 1
           t == [old EXCEPT !.done = done]
<1>1. old \in TxRecords /\ TxSound(old)
  BY CmdIs
<1>2. done \in Nat /\ done > 0 /\ done \in 0..Len(old.ops)
  BY <1>1 DEF TxRecords
<1>3. old.phase = "publishing"
  OBVIOUS
<1> HIDE DEF old
<1>4. t \in TxRecords /\ t.phase = "publishing" /\ t.ops = old.ops /\ t.done = done
  BY <1>1, <1>2, <1>3 DEF TxRecords, done
<1> HIDE DEF done
<1>5. TxSound(t)
  BY <1>1, <1>2, <1>3, <1>4 DEF TxSound
<1>6. QED
  BY <1>2, <1>4, <1>5 DEF old, done

\* What stands first in a transaction's operations.
LEMMA FirstOp ==
  ASSUME NEW t \in TxRecords, SoundOps(t.ops), t.ops[1].file = "state"
  PROVE  t.ops[1].feature \in Features /\ t.ops[1].result \in States /\ t.ops[1].result # NoState
<1>1. PICK f \in Features, state \in States, log \in Seq(Lines) : ObjectiveOps(t.ops, f, state, log)
  BY DEF SoundOps, ScopeOps, OpIs
<1>2. QED
  BY <1>1 DEF ObjectiveOps, OpIs, Tells

LEMMA StateCounted ==
  ASSUME Inv, NEW p \in Procs, tx[p].phase = "publishing", tx[p].done < Len(tx[p].ops),
         Content(NextOp(p)) = NextOp(p).result, NEW t \in TxRecords, t.ops = tx[p].ops
  PROVE  StateWritten(t)
<1>1. tx[p] \in TxRecords /\ SoundOps(tx[p].ops) /\ StateWritten(tx[p]) /\ tx[p].done \in Nat
  BY CmdIs DEF TxSound, Inv, FilesSound, TxRecords
<1>2. SUFFICES ASSUME t.ops[1].file = "state" PROVE states[t.ops[1].feature] # NoState
  BY DEF StateWritten
<1>3. CASE tx[p].done > 0
  BY <1>1, <1>2, <1>3 DEF StateWritten
<1>4. CASE tx[p].done = 0
  <2>1. NextOp(p) = tx[p].ops[1]
    BY <1>4 DEF NextOp
  <2>2. states[tx[p].ops[1].feature] = tx[p].ops[1].result
    BY <1>2, <2>1 DEF Content
  <2>3. QED
    BY <1>1, <1>2, <2>2, FirstOp
<1>5. QED
  BY <1>1, <1>3, <1>4

LEMMA ResultStep ==
  ASSUME Inv, NEW p \in Procs, assertResult(p)
  PROVE  Inv'
<1> DEFINE cmd == proc[p]
           t == [tx[p] EXCEPT !.done = @ + 1]
           next == [cmd EXCEPT !.stage = "publish"]
<1>1. TxOnly /\ cmd.stage = "result"
  BY DEF assertResult
<1>2. cmd \in ProcRecords /\ CmdSound(cmd, tx[p]) /\ TxSound(tx[p])
  BY CmdIs
<1>3. \/ Moves(p, next) /\ SetTx(p, t) /\ Content(NextOp(p)) = NextOp(p).result
      \/ Moves(p, IdleProc) /\ tx' = tx
  BY DEF assertResult, Stage, Done
<1>4. tx[p].phase = "publishing" /\ tx[p].done < Len(tx[p].ops)
  BY <1>1, <1>2 DEF CmdSound
<1> HIDE DEF cmd
<1>5. next \in ProcRecords /\ next.stage = "publish"
  BY <1>2 DEF ProcRecords, ProcStages
<1>6. t \in TxRecords /\ TxSound(t) /\ t.phase = "publishing" /\ t.ops = tx[p].ops
  BY <1>4, DoneSound
<1> HIDE DEF t, next
<1>7. CmdSound(next, t)
  BY <1>5, <1>6 DEF CmdSound
<1>8. CASE Moves(p, next) /\ SetTx(p, t) /\ Content(NextOp(p)) = NextOp(p).result
  <2>1. StateWritten(t)
    BY <1>4, <1>6, <1>8, StateCounted
  <2>2. QED
    BY <1>1, <1>5, <1>6, <1>7, <1>8, <2>1, TxStep
<1>9. QED
  BY <1>1, <1>3, <1>8, TxGivenUp

LEMMA CrashStep ==
  ASSUME Inv, NEW p \in Procs, crash(p)
  PROVE  Inv'
<1>1. Moves(p, IdleProc) /\ ProcOnly /\ Remember /\ Typed
  BY DEF crash, Inv
<1>2. SpareTyped'
  BY <1>1, SpendTyped DEF crash
<1>3. QED
  BY <1>1, <1>2, ReadsOut

-----------------------------------------------------------------------------
(* Steps that put a file in its place *)

\* Which operation of an objective comes next.
LEMMA NextOpIs ==
  ASSUME NEW t \in TxRecords, t.done < Len(t.ops), NEW f, NEW state, NEW log,
         ObjectiveOps(t.ops, f, state, log), NEW op, op = t.ops[t.done + 1]
  PROVE  \/ t.done = 0 /\ OpIs(op, "state", f, state)
         \/ t.done = 1 /\ OpIs(op, "document", f, state)
         \/ t.done = 2 /\ OpIs(op, "history", f, log)
         \/ t.done = 3 /\ OpIs(op, "active", f, f)
<1>1. t.done \in Nat /\ Len(t.ops) \in {3, 4}
  BY DEF TxRecords, ObjectiveOps
<1>2. t.done \in 0..3 /\ (t.done = 3 => Len(t.ops) = 4)
  BY <1>1
<1>3. CASE t.done = 0
  BY <1>3 DEF ObjectiveOps
<1>4. CASE t.done = 1
  BY <1>4 DEF ObjectiveOps
<1>5. CASE t.done = 2
  BY <1>5 DEF ObjectiveOps
<1>6. CASE t.done = 3
  BY <1>2, <1>6 DEF ObjectiveOps
<1>7. QED
  BY <1>2, <1>3, <1>4, <1>5, <1>6

\* The guard is told when a scope takes the place of another.
LEMMA PutGuard ==
  ASSUME Inv, NEW op, Put(op), Remember
  PROVE  GuardTyped' /\ GuardSound'
<1>1. Typed /\ GuardSound /\ UNCHANGED <<guardrails, summaries, link>> /\ scopes \in [Features -> Documents(Scopes)]
  BY DEF Inv, Put, Typed, FilesTyped
<1>2. CASE op.file = "scope" /\ scopes[op.feature] \notin {Missing, op.result}
  BY <1>1, <1>2, DisturbedStep DEF Put
<1>3. CASE op.file = "scope" /\ scopes[op.feature] \in {Missing, op.result}
  <2>1. guard' = guard /\ scopes' = [scopes EXCEPT ![op.feature] = op.result]
    BY <1>3 DEF Put
  <2>2. \A f \in Features : scopes[f] = Missing \/ scopes'[f] = scopes[f]
    BY <1>1, <1>3, <2>1
  <2>3. QED
    BY <1>1, <2>1, <2>2, QuietStep
<1>4. CASE op.file # "scope"
  <2>1. guard' = guard /\ scopes' = scopes
    BY <1>4 DEF Put
  <2>2. QED
    BY <1>1, <2>1, QuietStep
<1>5. QED
  BY <1>2, <1>3, <1>4

\* Another feature's files, and its claims, are not touched.
LEMMA OtherFeature ==
  ASSUME FilesSound, NEW g \in Features, states'[g] = states[g], documents'[g] = documents[g],
         history'[g] = history[g], \A q \in Procs : tx'[q].ops = tx[q].ops /\ tx'[q].phase = tx[q].phase
  PROVE  Told(g)' \/ \E q \in Procs : Wrote(tx[q], g)'
<1>1. CASE Told(g)
  BY <1>1 DEF Told
<1>2. ASSUME NEW q \in Procs, Wrote(tx[q], g) PROVE Wrote(tx[q], g)'
  <2>1. tx'[q].ops = tx[q].ops /\ tx'[q].phase = tx[q].phase
    OBVIOUS
  <2>2. PICK state \in States, log \in Seq(Lines) :
          /\ ObjectiveOps(tx[q].ops, g, state, log)
          /\ states[g] = state \/ documents[g] = state \/ history[g] = log
    BY <1>2 DEF Wrote
  <2>3. ObjectiveOps(tx'[q].ops, g, state, log)
    BY <2>1, <2>2
  <2>4. tx'[q].phase = "publishing"
    BY <1>2, <2>1 DEF Wrote
  <2>5. states'[g] = state \/ documents'[g] = state \/ history'[g] = log
    BY <2>2
  <2>6. QED
    BY <2>3, <2>4, <2>5 DEF Wrote
<1>3. QED
  BY <1>1, <1>2 DEF FilesSound

\* Whoever puts a file in its place answers for it until it is through.
LEMMA PutFiles ==
  ASSUME Inv, NEW p \in Procs, tx[p].phase = "publishing", tx[p].done < Len(tx[p].ops), Put(NextOp(p)),
         NEW t \in TxRecords, tx'[p] = t, \A q \in Procs : q # p => tx'[q] = tx[q],
         t.ops = tx[p].ops, t.phase = "publishing"
  PROVE  FilesTyped' /\ FilesSound'
<1> DEFINE op == NextOp(p)
<1>1. /\ tx[p] \in TxRecords /\ SoundOps(tx[p].ops) /\ tx[p].done \in Nat /\ FilesTyped /\ FilesSound
      /\ StateWritten(tx[p])
  BY CmdIs DEF Inv, Typed, TxSound, TxRecords, FilesSound
<1>2. op = tx[p].ops[tx[p].done + 1]
  BY DEF NextOp
<1>3. Put(op) /\ UNCHANGED <<guardrails, summaries, link>>
  BY DEF Put
<1>4. \A q \in Procs : tx'[q].ops = tx[q].ops /\ tx'[q].phase = tx[q].phase
  OBVIOUS
<1> HIDE DEF op
<1>5. /\ states \in [Features -> States] /\ documents \in [Features -> States]
      /\ history \in [Features -> Seq(Lines)] /\ scopes \in [Features -> Documents(Scopes)]
      /\ active \in Active
  BY <1>1 DEF FilesTyped
<1>6. ASSUME \A g \in Features : states[g] # NoState => states'[g] # NoState,
             tx[p].done = 0 /\ op.file = "state" => states'[op.feature] # NoState,
             NEW q \in Procs
      PROVE  StateWritten(tx[q])'
  <2>1. SUFFICES ASSUME tx'[q].done > 0, tx'[q].ops[1].file = "state"
                 PROVE  states'[tx'[q].ops[1].feature] # NoState
    BY DEF StateWritten
  <2>2. tx[q] \in TxRecords /\ StateWritten(tx[q]) /\ tx[q].done \in Nat /\ TxSound(tx[q])
    BY <1>1, CmdIs DEF FilesSound, TxRecords
  <2>3. tx'[q].ops = tx[q].ops
    BY <1>4
  <2>4. CASE tx[q].done > 0
    <3>1. tx[q].phase # "none" /\ tx[q].ops[1].file = "state"
      BY <2>1, <2>2, <2>3, <2>4 DEF TxSound
    <3>2. tx[q].ops[1].feature \in Features
      BY <2>2, <3>1, FirstOp DEF TxSound
    <3>3. states[tx[q].ops[1].feature] # NoState
      BY <2>2, <2>4, <3>1 DEF StateWritten
    <3>4. QED
      BY <1>6, <2>3, <3>2, <3>3
  <2>5. CASE tx[q].done = 0
    <3>1. q = p
      BY <2>1, <2>5
    <3>2. op = tx[p].ops[1]
      BY <1>2, <2>5, <3>1
    <3>3. QED
      BY <1>6, <2>1, <2>3, <2>5, <3>1, <3>2
  <2>6. QED
    BY <2>2, <2>4, <2>5
<1>7. CASE \E f \in Features, scope \in Documents(Scopes) : ScopeOps(tx[p].ops, f, scope)
  <2>1. PICK f \in Features, scope \in Documents(Scopes) : ScopeOps(tx[p].ops, f, scope)
    BY <1>7
  <2>2. tx[p].done = 0 /\ OpIs(op, "scope", f, scope)
    BY <1>1, <1>2, <2>1 DEF ScopeOps
  <2>3. /\ states' = states /\ documents' = documents /\ history' = history /\ active' = active
        /\ scopes' = [scopes EXCEPT ![f] = scope]
    BY <1>3, <2>2 DEF Put, OpIs
  <2>4. FilesTyped'
    BY <1>1, <1>3, <1>5, <2>1, <2>3 DEF FilesTyped
  <2>5. \A q \in Procs : StateWritten(tx[q])'
    BY <1>6, <2>2, <2>3 DEF OpIs
  <2>6. \A g \in Features : Told(g)' \/ \E q \in Procs : Wrote(tx[q], g)'
    BY <1>1, <1>4, <2>3, OtherFeature
  <2>7. active' \in Features => states'[active'] # NoState
    BY <1>1, <2>3 DEF FilesSound
  <2>8. QED
    BY <2>4, <2>5, <2>6, <2>7 DEF FilesSound
<1>8. CASE \E f \in Features, state \in States, log \in Seq(Lines) : ObjectiveOps(tx[p].ops, f, state, log)
  <2>1. PICK f \in Features, state \in States, log \in Seq(Lines) : ObjectiveOps(tx[p].ops, f, state, log)
    BY <1>8
  <2>2. \/ tx[p].done = 0 /\ OpIs(op, "state", f, state)
        \/ tx[p].done = 1 /\ OpIs(op, "document", f, state)
        \/ tx[p].done = 2 /\ OpIs(op, "history", f, log)
        \/ tx[p].done = 3 /\ OpIs(op, "active", f, f)
    BY <1>1, <1>2, <2>1, NextOpIs
  <2>3. state # NoState
    BY <2>1 DEF ObjectiveOps, Tells
  <2>4. /\ states' = IF op.file = "state" THEN [states EXCEPT ![f] = state] ELSE states
        /\ documents' = IF op.file = "document" THEN [documents EXCEPT ![f] = state] ELSE documents
        /\ history' = IF op.file = "history" THEN [history EXCEPT ![f] = log] ELSE history
        /\ active' = IF op.file = "active" THEN f ELSE active
        /\ scopes' = scopes /\ op.feature = f
    BY <1>3, <2>2 DEF Put, OpIs
  <2>5. /\ states' \in [Features -> States] /\ documents' \in [Features -> States]
        /\ history' \in [Features -> Seq(Lines)] /\ active' \in Active
    BY <1>5, <2>1, <2>4 DEF Active
  <2>6. FilesTyped'
    BY <1>1, <1>3, <2>4, <2>5 DEF FilesTyped
  <2>7. ASSUME NEW g \in Features
        PROVE  /\ states'[g] = IF op.file = "state" /\ g = f THEN state ELSE states[g]
               /\ documents'[g] = IF op.file = "document" /\ g = f THEN state ELSE documents[g]
               /\ history'[g] = IF op.file = "history" /\ g = f THEN log ELSE history[g]
    BY <1>5, <2>4
  <2>8. /\ \A g \in Features : states[g] # NoState => states'[g] # NoState
        /\ tx[p].done = 0 /\ op.file = "state" => states'[op.feature] # NoState
    BY <2>1, <2>3, <2>4, <2>7
  <2>9. \A q \in Procs : StateWritten(tx[q])'
    BY <1>6, <2>8
  <2>10. active' \in Features => states'[active'] # NoState
    <3>1. CASE op.file # "active"
      <4>1. active' = active
        BY <2>4, <3>1
      <4>2. QED
        BY <1>1, <2>8, <4>1 DEF FilesSound
    <3>2. CASE op.file = "active"
      <4>1. tx[p].done = 3 /\ active' = f
        BY <2>2, <2>4, <3>2 DEF OpIs
      <4>2. tx[p].ops[1].file = "state" /\ tx[p].ops[1].feature = f
        BY <2>1 DEF ObjectiveOps, OpIs
      <4>3. states[f] # NoState
        BY <1>1, <4>1, <4>2 DEF StateWritten
      <4>4. QED
        BY <2>1, <2>8, <4>1, <4>3
    <3>3. QED
      BY <3>1, <3>2
  <2>11. ASSUME NEW g \in Features PROVE Told(g)' \/ \E q \in Procs : Wrote(tx[q], g)'
    <3>1. CASE g # f \/ op.file = "active"
      <4>1. states'[g] = states[g] /\ documents'[g] = documents[g] /\ history'[g] = history[g]
        BY <2>7, <3>1
      <4>2. QED
        BY <1>1, <1>4, <4>1, OtherFeature
    <3>2. CASE g = f /\ op.file # "active"
      <4>1. states'[g] = state \/ documents'[g] = state \/ history'[g] = log
        BY <2>2, <2>7, <3>2 DEF OpIs
      <4>2. tx'[p].phase = "publishing" /\ ObjectiveOps(tx'[p].ops, g, state, log)
        BY <1>4, <2>1, <3>2
      <4>3. Wrote(tx[p], g)'
        BY <2>1, <4>1, <4>2 DEF Wrote
      <4>4. QED
        BY <4>3
    <3>3. QED
      BY <3>1, <3>2
  <2>12. QED
    BY <2>6, <2>9, <2>10, <2>11 DEF FilesSound
<1>9. QED
  BY <1>1, <1>7, <1>8 DEF SoundOps

LEMMA PublishStep ==
  ASSUME Inv, NEW p \in Procs, publishOperation(p)
  PROVE  Inv'
<1> DEFINE cmd == proc[p]
           next == [cmd EXCEPT !.stage = "result"]
<1>1. cmd.stage = "rename" /\ Put(NextOp(p)) /\ Moves(p, next) /\ tx' = tx /\ Remember
  BY DEF publishOperation, Stage
<1>2. /\ cmd \in ProcRecords /\ CmdSound(cmd, tx[p]) /\ tx[p] \in TxRecords
      /\ Typed /\ ProcSound
  BY CmdIs DEF Inv
<1>3. tx[p].phase = "publishing" /\ tx[p].done < Len(tx[p].ops)
  BY <1>1, <1>2 DEF CmdSound
<1> HIDE DEF cmd
<1>4. next \in ProcRecords /\ next.stage = "result"
  BY <1>2 DEF ProcRecords, ProcStages
<1> HIDE DEF next
<1>5. CmdSound(next, tx[p])
  BY <1>2, <1>3, <1>4 DEF CmdSound
<1>6. ProcTyped' /\ ProcSound'
  BY <1>1, <1>2, <1>4, <1>5, MovesStep
<1>7. FilesTyped' /\ FilesSound'
  BY <1>1, <1>2, <1>3, PutFiles
<1>8. GuardTyped' /\ GuardSound'
  BY <1>1, PutGuard
<1>9. SpareTyped'
  BY <1>1, <1>2 DEF Put, Typed, SpareTyped
<1>10. QED
  BY <1>6, <1>7, <1>8, <1>9 DEF Inv, Typed

-----------------------------------------------------------------------------
(* The end of a transaction *)

\* Found to hold all that was written, the files of the feature tell the same.
LEMMA ResultsTell ==
  ASSUME Inv, NEW p \in Procs, ResultsStand(p), NEW f \in Features, Wrote(tx[p], f)
  PROVE  Told(f)
<1>1. PICK state \in States, log \in Seq(Lines) : ObjectiveOps(tx[p].ops, f, state, log)
  BY DEF Wrote
<1>2. Tells(state, log)
  BY <1>1 DEF ObjectiveOps
<1>3. tx[p].ops \in Seq(Ops) /\ Len(tx[p].ops) \in {3, 4}
  BY <1>1, CmdIs DEF TxRecords, ObjectiveOps
<1>4. {1, 2, 3} \subseteq DOMAIN tx[p].ops
  BY <1>3
<1>5. /\ Content(tx[p].ops[1]) = tx[p].ops[1].result /\ Content(tx[p].ops[2]) = tx[p].ops[2].result
      /\ Content(tx[p].ops[3]) = tx[p].ops[3].result
  BY <1>4 DEF ResultsStand
<1>6. states[f] = state
  BY <1>1, <1>5 DEF ObjectiveOps, OpIs, Content
<1>7. documents[f] = state
  BY <1>1, <1>5 DEF ObjectiveOps, OpIs, Content
<1>8. history[f] = log
  BY <1>1, <1>5 DEF ObjectiveOps, OpIs, Content
<1>9. QED
  BY <1>2, <1>6, <1>7, <1>8 DEF Tells, Told

\* A transaction that is over has nothing to answer for.
LEMMA OverStep ==
  ASSUME Inv, NEW p \in Procs, NEW next \in ProcRecords, proc' = [proc EXCEPT ![p] = next],
         SetTx(p, NoTx), TxOnly, CmdSound(next, NoTx), tx[p].phase = "publishing" => ResultsStand(p)
  PROVE  Inv'
<1>1. /\ UNCHANGED <<guardrails, active, scopes, summaries, states, documents, history, link, guard, spare>>
      /\ Remember /\ Typed /\ ProcSound /\ GuardSound /\ FilesSound
  BY DEF TxOnly, policyFiles, records, Inv
<1>2. GuardTyped' /\ GuardSound'
  BY <1>1, QuietStep
<1>3. NoTx \in TxRecords /\ NoTx.done = 0
  BY NoTxSound
<1> HIDE DEF NoTx
<1>4. ProcTyped' /\ ProcSound' /\ tx'[p] = NoTx /\ \A q \in Procs : q # p => tx'[q] = tx[q]
  BY <1>1, <1>3, PairStep DEF SetTx
<1>5. ASSUME NEW q \in Procs PROVE StateWritten(tx[q])'
  <2>1. CASE q = p
    BY <1>3, <1>4, <2>1 DEF StateWritten
  <2>2. CASE q # p
    <3>1. tx'[q] = tx[q] /\ StateWritten(tx[q])
      BY <1>1, <1>4, <2>2 DEF FilesSound
    <3>2. QED
      BY <1>1, <3>1 DEF StateWritten
  <2>3. QED
    BY <2>1, <2>2
<1>6. ASSUME NEW f \in Features PROVE Told(f)' \/ \E q \in Procs : Wrote(tx[q], f)'
  <2>1. CASE Told(f)
    BY <1>1, <2>1 DEF Told
  <2>2. ASSUME NEW q \in Procs, Wrote(tx[q], f) PROVE Told(f)' \/ Wrote(tx[q], f)'
    <3>1. CASE q # p
      <4>1. tx'[q] = tx[q]
        BY <1>4, <3>1
      <4>2. QED
        BY <1>1, <2>2, <4>1 DEF Wrote
    <3>2. CASE q = p
      <4>1. ResultsStand(p) /\ Wrote(tx[p], f)
        BY <2>2, <3>2 DEF Wrote
      <4>2. Told(f)
        BY <4>1, ResultsTell
      <4>3. QED
        BY <1>1, <4>2 DEF Told
    <3>3. QED
      BY <3>1, <3>2
  <2>3. QED
    BY <1>1, <2>1, <2>2 DEF FilesSound
<1>7. active' \in Features => states'[active'] # NoState
  BY <1>1 DEF FilesSound
<1>8. FilesSound'
  BY <1>5, <1>6, <1>7 DEF FilesSound
<1>9. FilesTyped' /\ SpareTyped'
  BY <1>1 DEF Typed, FilesTyped, SpareTyped
<1>10. QED
  BY <1>2, <1>4, <1>8, <1>9 DEF Inv, Typed

LEMMA CommitStep ==
  ASSUME Inv, NEW p \in Procs, commitTransaction(p)
  PROVE  Inv'
<1>1. TxOnly /\ Moves(p, IdleProc)
  BY DEF commitTransaction
<1>2. CASE ResultsStand(p)
  <2>1. SetTx(p, NoTx)
    BY <1>2 DEF commitTransaction
  <2>2. IdleProc \in ProcRecords /\ CmdSound(IdleProc, NoTx)
    BY IdleSound, NoTxSound
  <2> HIDE DEF IdleProc, NoTx
  <2>3. QED
    BY <1>1, <1>2, <2>1, <2>2, OverStep DEF Moves
<1>3. CASE ~ResultsStand(p)
  <2>1. tx' = tx
    BY <1>3 DEF commitTransaction
  <2>2. QED
    BY <1>1, <2>1, TxGivenUp
<1>4. QED
  BY <1>2, <1>3

\* Recovery drops, counts on, or writes on.
LEMMA RecoverStep ==
  ASSUME Inv, NEW p \in Procs, recover(p)
  PROVE  Inv'
<1> DEFINE cmd == proc[p]
<1>1. proc' = proc /\ cmd.stage = "idle"
  BY DEF recover, Abandoned
<1>2. /\ cmd \in ProcRecords /\ CmdSound(cmd, tx[p]) /\ TxSound(tx[p]) /\ tx[p] \in TxRecords
      /\ Typed /\ ProcSound
  BY CmdIs DEF Inv
<1>3. proc' = [proc EXCEPT ![p] = cmd]
  BY <1>1, <1>2 DEF Typed, ProcTyped
<1> HIDE DEF cmd
<1>4. ASSUME NEW t, TxSound(t) PROVE CmdSound(cmd, t)
  BY <1>1, <1>4 DEF CmdSound
<1>5. CASE /\ tx[p].phase = "publishing" => Published(p) /\ ResultsStand(p)
           /\ SetTx(p, NoTx) /\ TxOnly
  <2>1. CmdSound(cmd, NoTx)
    BY <1>4, NoTxSound
  <2> HIDE DEF NoTx
  <2>2. QED
    BY <1>2, <1>3, <1>5, <2>1, OverStep
<1> DEFINE t == [tx[p] EXCEPT !.done = @ + 1]
<1>6. ASSUME tx[p].phase = "publishing", ~Published(p), Done(p)
      PROVE  /\ t \in TxRecords /\ TxSound(t) /\ t.phase = "publishing" /\ t.ops = tx[p].ops
             /\ tx[p].done < Len(tx[p].ops) /\ tx' = [tx EXCEPT ![p] = t]
  <2>1. tx[p].done < Len(tx[p].ops)
    BY <1>2, <1>6 DEF TxSound, Published, TxRecords
  <2>2. QED
    BY <1>6, <2>1, DoneSound DEF Done, SetTx
<1>7. CASE /\ tx[p].phase = "publishing" /\ ~Published(p) /\ Done(p)
           /\ Content(NextOp(p)) = NextOp(p).result /\ TxOnly
  <2>1. /\ t \in TxRecords /\ TxSound(t) /\ t.phase = "publishing" /\ t.ops = tx[p].ops
        /\ tx[p].done < Len(tx[p].ops) /\ tx' = [tx EXCEPT ![p] = t]
    BY <1>6, <1>7
  <2> HIDE DEF t
  <2>2. CmdSound(cmd, t)
    BY <1>4, <2>1
  <2>3. StateWritten(t)
    BY <1>7, <2>1, StateCounted
  <2>4. QED
    BY <1>2, <1>3, <1>7, <2>1, <2>2, <2>3, TxStep DEF Moves, SetTx
<1>8. CASE /\ tx[p].phase = "publishing" /\ ~Published(p) /\ Done(p)
           /\ Put(NextOp(p)) /\ Remember
  <2>1. /\ t \in TxRecords /\ TxSound(t) /\ t.phase = "publishing" /\ t.ops = tx[p].ops
        /\ tx[p].done < Len(tx[p].ops) /\ tx' = [tx EXCEPT ![p] = t]
    BY <1>6, <1>8
  <2> HIDE DEF t
  <2>2. CmdSound(cmd, t)
    BY <1>4, <2>1
  <2>3. ProcTyped' /\ ProcSound' /\ tx'[p] = t /\ \A q \in Procs : q # p => tx'[q] = tx[q]
    BY <1>2, <1>3, <2>1, <2>2, PairStep
  <2>4. FilesTyped' /\ FilesSound'
    BY <1>8, <2>1, <2>3, PutFiles
  <2>5. GuardTyped' /\ GuardSound'
    BY <1>8, PutGuard
  <2>6. SpareTyped'
    BY <1>2, <1>8 DEF Put, Typed, SpareTyped
  <2>7. QED
    BY <2>3, <2>4, <2>5, <2>6 DEF Inv, Typed
<1>9. QED
  BY <1>5, <1>7, <1>8 DEF recover

-----------------------------------------------------------------------------
(* Edits *)

LEMMA EditsStep ==
  ASSUME Inv, ByHand, FilesTyped', active' \in Features => active' = active
  PROVE  Inv'
<1>1. /\ Typed /\ ProcSound /\ GuardSound /\ FilesSound
      /\ UNCHANGED <<records, proc, tx>> /\ guard' = Disturbed /\ Remember /\ Spend("edits")
  BY DEF Inv, ByHand
<1>2. GuardTyped' /\ GuardSound' /\ SpareTyped'
  BY <1>1, DisturbedStep, SpendTyped
<1>3. ProcTyped' /\ ProcSound'
  BY <1>1 DEF Typed, ProcTyped, ProcSound
<1>4. FilesSound'
  BY <1>1, FilesStill2
<1>5. QED
  BY <1>2, <1>3, <1>4 DEF Inv, Typed

LEMMA ByHandStep ==
  ASSUME Inv,
         \/ \E content \in Documents(WriteBlocks) : editGuardrails(content)
         \/ \E content \in {"none", "nameless", "corrupt"} : editActive(content)
         \/ \E f \in Features, content \in Documents(Scopes) :
              editSummary(f, content) \/ editScope(f, content)
         \/ \E path \in Paths, to \in Paths \cup {"outside", "dangling"} : relink(path, to)
  PROVE  Inv'
<1>1. FilesTyped
  BY DEF Inv, Typed
<1>2. ASSUME NEW content \in Documents(WriteBlocks), editGuardrails(content) PROVE Inv'
  BY <1>1, <1>2, EditsStep DEF FilesTyped, editGuardrails, ByHand, records
<1>3. ASSUME NEW content \in {"none", "nameless", "corrupt"}, editActive(content) PROVE Inv'
  BY <1>1, <1>3, EditsStep, NamesAssumption DEF FilesTyped, editActive, ByHand, records, Active
<1>4. ASSUME NEW f \in Features, NEW content \in Documents(Scopes), editSummary(f, content) PROVE Inv'
  BY <1>1, <1>4, EditsStep DEF FilesTyped, editSummary, ByHand, records
<1>5. ASSUME NEW f \in Features, NEW content \in Documents(Scopes), editScope(f, content) PROVE Inv'
  BY <1>1, <1>5, EditsStep DEF FilesTyped, editScope, ByHand, records
<1>6. ASSUME NEW path \in Paths, NEW to \in Paths \cup {"outside", "dangling"}, relink(path, to) PROVE Inv'
  BY <1>1, <1>6, EditsStep DEF FilesTyped, relink, ByHand, records, Identities
<1>7. QED
  BY <1>2, <1>3, <1>4, <1>5, <1>6

-----------------------------------------------------------------------------
(* The invariant *)

LEMMA InitInv == Init => Inv
<1> SUFFICES ASSUME Init PROVE Inv
  OBVIOUS
<1>1. PICK start \in Starts :
        /\ active = IF start = "fresh" THEN "none" ELSE featureIdentity[start]
        /\ states = [f \in Features |-> IF start # "fresh" /\ f = featureIdentity[start]
                                        THEN ImportedState(start) ELSE NoState]
        /\ documents = states
        /\ history = [f \in Features |-> IF start # "fresh" /\ f = featureIdentity[start]
                                         THEN <<ImportedLine(start)>> ELSE <<>>]
  BY DEF Init
<1>2. start # "fresh" => start \in Texts /\ featureIdentity[start] \in Features
  BY StartsAssumption
<1>3. NoState \in States /\ NoState.text = "none"
  BY DEF NoState, States
<1>4. start # "fresh" =>
        /\ ImportedState(start) \in States /\ ImportedState(start).text = start
        /\ ImportedState(start).revision = 1 /\ ImportedState(start).at = 0
  BY <1>2 DEF ImportedState, States
<1>5. start # "fresh" =>
        /\ ImportedLine(start) \in Lines /\ ImportedLine(start).text = start
        /\ ImportedLine(start).revision = 1 /\ ImportedLine(start).at = 0
  BY <1>2 DEF ImportedLine, Lines
<1>6. states \in [Features -> States] /\ documents \in [Features -> States]
  BY <1>1, <1>3, <1>4
<1>7. history \in [Features -> Seq(Lines)]
  BY <1>1, <1>5
<1>8. scopes \in [Features -> Documents(Scopes)] /\ summaries \in [Features -> Documents(Scopes)]
  BY ScopesAssumption DEF Init, Documents
<1>9. guardrails \in Documents(WriteBlocks)
  BY DEF Init, Documents
<1>10. link \in [Paths -> Identities]
  BY DEF Init, Identities
<1>11. active \in Active
  BY <1>1, <1>2 DEF Active
<1>12. FilesTyped
  BY <1>6, <1>7, <1>8, <1>9, <1>10, <1>11 DEF FilesTyped
<1>13. NoGuard \in GuardRecords /\ NoGuard.stage = "idle" /\ NoGuard.at = 1
  BY DEF NoGuard, GuardRecords, GuardStages, NoPolicy, Policies
<1>14. GuardTyped /\ GuardSound
  BY <1>13 DEF Init, GuardTyped, GuardSound, GuardPlaced, GuardJudges, AllowedWasPermitted, Answered
<1>15. ProcTyped /\ ProcSound /\ \A p \in Procs : tx[p] = NoTx
  <2>1. \A p \in Procs : proc[p] = IdleProc /\ tx[p] = NoTx
    BY DEF Init
  <2>2. IdleProc \in ProcRecords /\ NoTx \in TxRecords /\ CmdSound(IdleProc, NoTx)
    BY IdleSound, NoTxSound
  <2>3. proc \in [Procs -> ProcRecords] /\ tx \in [Procs -> TxRecords]
    BY <2>2 DEF Init
  <2> HIDE DEF IdleProc, NoTx
  <2>4. QED
    BY <2>1, <2>2, <2>3 DEF ProcTyped, ProcSound
<1>16. SpareTyped
  BY BudgetsAssumption DEF Init, SpareTyped
<1>17. FilesSound
  <2>1. active \in Features => states[active] # NoState
    BY <1>1, <1>2, <1>3, <1>4, NamesAssumption
  <2>2. ASSUME NEW f \in Features PROVE Told(f)
    <3>1. SUFFICES ASSUME states[f] # NoState PROVE Told(f)
      BY DEF Told
    <3>2. start # "fresh" /\ f = featureIdentity[start]
      BY <1>1, <3>1
    <3>3. states[f] = ImportedState(start) /\ documents[f] = states[f] /\ history[f] = <<ImportedLine(start)>>
      BY <1>1, <3>2
    <3>4. Last(<<ImportedLine(start)>>) = ImportedLine(start) /\ <<ImportedLine(start)>> # <<>>
      BY DEF Last
    <3>5. QED
      BY <1>4, <1>5, <3>2, <3>3, <3>4 DEF Told
  <2>3. ASSUME NEW p \in Procs PROVE StateWritten(tx[p])
    BY <1>15, NoTxSound DEF StateWritten
  <2>4. QED
    BY <2>1, <2>2, <2>3 DEF FilesSound
<1>18. QED
  BY <1>12, <1>14, <1>15, <1>16, <1>17 DEF Inv, Typed

\* A step of the guard leaves everything else as it was.
LEMMA GuardOnlyStep ==
  ASSUME Inv, GuardOnly, GuardTyped', GuardSound', SpareTyped'
  PROVE  Inv'
<1>1. UNCHANGED <<guardrails, active, scopes, summaries, link, states, documents, history, proc, tx>>
  BY FilesStill
<1>2. FilesTyped' /\ ProcTyped' /\ ProcSound'
  BY <1>1 DEF Inv, Typed, FilesTyped, ProcTyped, ProcSound
<1>3. FilesSound'
  BY <1>1, FilesStill2 DEF Inv, records
<1>4. QED
  BY <1>2, <1>3 DEF Inv, Typed

LEMMA GuardSteps ==
  ASSUME Inv,
         \/ \E request \in Requests : relayPreToolUse(request)
         \/ inspectMutationTarget \/ readGuardrails \/ activeFeature \/ readScope
         \/ readSummary \/ guardOutcome \/ relayFails
  PROVE  Inv'
<1>1. Typed /\ GuardSound
  BY DEF Inv
<1>2. ASSUME NEW request \in Requests, relayPreToolUse(request) PROVE Inv'
  BY <1>1, <1>2, RelayStep, GuardOnlyStep DEF relayPreToolUse
<1>3. ASSUME spare' = spare PROVE SpareTyped'
  BY <1>1, <1>3 DEF Typed, SpareTyped
<1>4. CASE inspectMutationTarget
  BY <1>1, <1>3, <1>4, InspectStep, GuardOnlyStep DEF inspectMutationTarget
<1>5. CASE readGuardrails
  BY <1>1, <1>3, <1>5, GuardrailsStep, GuardOnlyStep DEF readGuardrails
<1>6. CASE activeFeature
  BY <1>1, <1>3, <1>6, ActiveStep, GuardOnlyStep DEF activeFeature
<1>7. CASE readScope
  BY <1>1, <1>3, <1>7, ScopeStep, GuardOnlyStep DEF readScope
<1>8. CASE readSummary
  BY <1>1, <1>3, <1>8, SummaryStep, GuardOnlyStep DEF readSummary
<1>9. CASE guardOutcome
  BY <1>1, <1>3, <1>9, JudgeStep, GuardOnlyStep DEF guardOutcome
<1>10. CASE relayFails
  <2>1. Answers("denied") /\ Remember /\ GuardOnly /\ spare' = spare
    BY <1>10 DEF relayFails
  <2>2. GuardTyped' /\ GuardSound'
    BY <1>1, <2>1, AnswerStep
  <2>3. QED
    BY <1>3, <2>1, <2>2, GuardOnlyStep
<1>11. QED
  BY <1>2, <1>4, <1>5, <1>6, <1>7, <1>8, <1>9, <1>10

LEMMA CommandSteps ==
  ASSUME Inv, NEW p \in Procs,
         \/ observeObjective(p) \/ readFeatureState(p) \/ readHistory(p)
         \/ \E text \in Texts, replace \in BOOLEAN : recorded(p, text, replace)
         \/ observeScopeRecord(p) \/ readReviewerScope(p)
         \/ scopeRecordOutcome(p)
         \/ preflight(p) \/ observeManagedPath(p) \/ preflightAgain(p)
         \/ markTransaction(p) \/ assertPreconditions(p) \/ authorizePublication(p)
         \/ assertPublishable(p) \/ publishOperation(p) \/ assertResult(p)
         \/ commitTransaction(p)
         \/ crash(p) \/ recover(p)
  PROVE  Inv'
  BY ObserveObjectiveStep, ReadStateStep, ReadHistoryStep, RecordedStep, ObserveScopeStep, ReadReviewerStep,
     ScopeRecordStep, PreflightStep, ObservePathStep, PreflightAgainStep, MarkStep, PreconditionsStep,
     AuthorizeStep, PublishableStep, PublishStep, ResultStep, CommitStep, CrashStep, RecoverStep

LEMMA NextInv ==
  ASSUME Inv, [Next]_vars
  PROVE  Inv'
<1>1. CASE UNCHANGED vars
  <2>1. UNCHANGED <<guardrails, active, scopes, summaries, link, states, documents, history, guard, proc, tx,
                    spare, permitted>>
    BY <1>1 DEF vars, policyFiles, records
  <2>2. FilesTyped' /\ GuardTyped' /\ ProcTyped' /\ SpareTyped' /\ ProcSound'
    BY <2>1 DEF Inv, Typed, FilesTyped, GuardTyped, ProcTyped, SpareTyped, ProcSound
  <2>3. GuardSound'
    BY <2>1 DEF Inv, GuardSound, GuardPlaced, GuardJudges, AllowedWasPermitted, PolicyOf, PartialPolicy,
                targetIdentities
  <2>4. FilesSound'
    BY <2>1, FilesStill2 DEF Inv, records
  <2>5. QED
    BY <2>2, <2>3, <2>4 DEF Inv, Typed
<1>2. QED
  BY <1>1, CommandSteps, GuardSteps, ByHandStep DEF Next

\* The inductive invariant holds of every behaviour.
THEOREM Invariance == Spec => []Inv
<1>1. Init => Inv
  BY InitInv
<1>2. Inv /\ [Next]_vars => Inv'
  BY NextInv
<1>3. QED
  BY <1>1, <1>2, PTL DEF Spec

\* Files, request, commands, transactions and bounds keep their types, whatever
\* is raced, interrupted or edited (composition/write-guard.ts,
\* domain/cli/objective.ts, composition/transactions.ts).
THEOREM TypeCorrect == Spec => []TypeOK
<1>1. Inv => TypeOK
  <2>1. SUFFICES ASSUME Inv PROVE TypeOK
    OBVIOUS
  <2>2. Typed /\ GuardPlaced
    BY <2>1 DEF Inv, GuardSound
  <2>3. guard \in GuardRecords
    BY <2>2 DEF Typed, GuardTyped
  <2>4. /\ guard.stage \in GuardStages /\ guard.policy \in Policies
        /\ guard.asked \subseteq Paths \cup {"outside", "dangling"}
    BY <2>3 DEF GuardRecords, Identities
  <2>5. guard.at \in 1..(Len(guard.targets) + 1)
    <3>1. Len(guard.targets) \in Nat
      BY <2>3 DEF GuardRecords
    <3>2. QED
      BY <2>2, <3>1 DEF GuardPlaced
  <2>6. ASSUME NEW p \in Procs
        PROVE  /\ proc[p].stage \in ProcStages
               /\ tx[p].phase \in {"none", "begun", "prepared", "publishing"}
               /\ tx[p].done \in 0..Len(tx[p].ops)
    BY <2>1, CmdIs DEF ProcRecords, TxRecords, TxSound
  <2>7. QED
    BY <2>2, <2>4, <2>6, <2>5 DEF TypeOK, Typed, FilesTyped, GuardTyped, SpareTyped, Identities
<1>2. QED
  BY <1>1, Invariance, PTL

\* Unless it is disturbed meanwhile - a person edits a policy file or relinks a
\* path, or a scope record's rename replaces a scope.json that appeared since its
\* check - whatever the guard allows was permitted, path by path and under its
\* canonical name too, by the whole policy at some instant while it ran, though
\* it reads four files one after the other and commands switch the feature and
\* record scopes in between (composition/write-guard.ts policyState, guardOutcome).
THEOREM GuardAllowsThePermitted == Spec => []AllowedWasPermitted
<1>1. Inv => AllowedWasPermitted
  BY DEF Inv, GuardSound
<1>2. QED
  BY <1>1, Invariance, PTL

\* The four files of an objective are published one after the other, any command
\* may die between two of them, and any number of commands may publish side by
\* side: where no transaction is left publishing, state, document and the last
\* line of the history tell one objective, and an active feature always has one
\* (domain/cli/objective.ts recorded, composition/transactions.ts assertResults).
THEOREM HistoryIsTrue == Spec => []HistoryTellsState
<1>1. Inv => HistoryTellsState
  BY DEF Inv, FilesSound, HistoryTellsState, Wrote
<1>2. QED
  BY <1>1, Invariance, PTL

=============================================================================
