----------------------------- MODULE LeaseLocks -----------------------------
(***************************************************************************)
(* Work leases as their callers use them: inspect, acquire, renew, release,*)
(* takeover and recoverClaim of composition/locks.ts, by sessions that are *)
(* separate processes and share nothing but files.                         *)
(*                                                                         *)
(* A call takes the administration claim of its resource, and it does so   *)
(* (and gives the claim back) inside the admission claim of the project.   *)
(* The transition itself is published by a managed transaction, first the  *)
(* trail, then the lease.  ManagedTransaction models that transaction in   *)
(* detail; here it is reduced to its marker, its authorisation and its two *)
(* publications.                                                           *)
(***************************************************************************)
EXTENDS LeasePolicy, FiniteSets

CONSTANTS
    Project, Run,   \* resources: the project and the runs below it
    TTL,            \* what callers ask for
    ClaimTTL,       \* how long claim and admission records are valid
    Offset,         \* Offset[s]: how far the clock of s runs ahead
    Works,          \* Works[s]: the resources session s works on
    NoClaim, NoGuard, NoPlan,
    MaxTime, MaxCall, MaxFailure   \* bounds on the environment

Resource == {Project} \cup Run

ASSUME LocksAssumption ==
    /\ Project \notin Run
    /\ TTL \subseteq Nat \ {0}
    /\ ClaimTTL \in Nat
    /\ Offset \in [Session -> 0 .. Skew]
    /\ Works \in [Session -> SUBSET Resource]
    /\ LeaseId = Session \X (1 .. MaxCall)
    /\ MaxTime \in Nat /\ MaxCall \in Nat /\ MaxFailure \in Nat

VARIABLES
    now,        \* real time
    admission,  \* .brain/locks/.admission/claim
    claim,      \* claim[r]: <scope>/claim
    trail,      \* trail[r]: <scope>/events.jsonl
    lease,      \* lease[r]: <scope>/lease.json
    txs,        \* transactions with a marker that are not terminal
    sess,       \* sess[s]: the call a session has in progress
    guard,      \* guard[s]: the observation of a lease the session works with
    reply,      \* what the last call of a session returned
    failures,   \* how many processes have crashed or failed to build a record
    asked,      \* asked[s]: the resources session s has asked for so far
    unbuilt     \* the sessions that have failed to build an admission record

vars == <<now, admission, claim, trail, lease, txs, sess, guard, reply, failures, asked, unbuilt>>

Claim == [by : Session, call : 1 .. MaxCall, expires : Nat, marked : BOOLEAN]

Admission == [by : Session, call : 1 .. MaxCall, scope : Resource, expires : Nat]

Guard == [res : Resource, trail : Seq(Transition), lease : Lease]

\* What a transition publishes, and the files it was prepared over.
Plan == [by : Session, call : 1 .. MaxCall, res : Resource,
         base : Seq(Transition), old : Lease \cup {NoLease},
         trail : Seq(Transition), lease : Lease, phase : {"prepared", "publishing"}]

Kind == {"none", "inspect", "acquire", "renew", "release", "takeover", "recover"}

PC == {"idle", "dead", "before", "pre", "admit", "elect", "again", "hold", "family", "claim",
       "leave", "decide", "preflight", "mark", "authorize", "trail", "lease",
       "confirm", "unclaim", "unmark", "reclaim"}

Success == {"acquired", "renewed", "released", "taken_over", "recovered"}

Failure == {"conflict", "recovery_required", "revision_conflict", "corrupt", "internal_failure"}

Seen == {"empty", "active", "released", "skew", "takeover_eligible"}

Outcome == Success \cup Failure \cup Seen \cup {"none", "absent"}

Idle(n) == [pc |-> "idle", call |-> n, kind |-> "none", res |-> Project, ttl |-> 0,
            seen |-> NoGuard, goal |-> "idle", after |-> "idle", adm |-> NoClaim,
            mine |-> NoClaim, plan |-> NoPlan, out |-> "none", got |-> NoGuard]

NoReply == [kind |-> "none", res |-> Project, out |-> "none"]

Init ==
    /\ now = 0
    /\ admission = NoClaim
    /\ claim = [r \in Resource |-> NoClaim]
    /\ trail = [r \in Resource |-> <<>>]
    /\ lease = [r \in Resource |-> NoLease]
    /\ txs = {}
    /\ sess = [s \in Session |-> Idle(0)]
    /\ guard = [s \in Session |-> NoGuard]
    /\ reply = [s \in Session |-> NoReply]
    /\ failures = 0
    /\ asked = [s \in Session |-> {}]
    /\ unbuilt = {}

-----------------------------------------------------------------------------
(* What a session sees.                                                    *)

Clock(s) == now + Offset[s]

Look(s, r) == Observation(trail[r], lease[r], Clock(s))

Unreadable == {"recovery_required", "corrupt"}

Standing == {"active", "skew", "takeover_eligible"}

\* Mutant: a lease that is not there is taken for one.
CurrentGuardAlways(r) == [res |-> r, trail |-> trail[r], lease |-> lease[r]]

CurrentGuard(r) ==
    IF lease[r] = NoLease THEN NoGuard
    ELSE [res |-> r, trail |-> trail[r], lease |-> lease[r]]

\* currentBinding.
CurrentBinding(s, r) ==
    IF lease[r] = NoLease THEN NoBinding
    ELSE [action |-> IF Look(s, r) = "released" THEN "release" ELSE "acquire",
          lease |-> lease[r]]

Marked(r) == claim[r] # NoClaim /\ claim[r].marked

Me(s) == sess[s]

At(s, pc) == sess[s].pc = pc

Goto(s, pc) == sess' = [sess EXCEPT ![s].pc = pc]

\* Work under the claim is over: the claim has to be given back.
Conclude(s, out) ==
    sess' = [sess EXCEPT ![s].pc = "admit", ![s].goal = "unclaim", ![s].out = out]

\* Work under the admission is over: leave it, then go on at after.
Leave(s, after, out) ==
    sess' = [sess EXCEPT ![s].pc = "leave", ![s].after = after, ![s].out = out]

\* The call returns; a caller works with the guard of a transition that
\* succeeded.
Return(s, out) ==
    /\ sess' = [sess EXCEPT ![s] = Idle(Me(s).call)]
    /\ reply' = [reply EXCEPT ![s] = [kind |-> Me(s).kind, res |-> Me(s).res, out |-> out]]
    /\ guard' = IF out \in Success /\ Me(s).got # NoGuard
                THEN [guard EXCEPT ![s] = Me(s).got] ELSE guard

Files == <<admission, claim, trail, lease, txs>>

Failing == <<failures, unbuilt>>

World == <<now, asked, Failing>>

Asks(s, r) == asked' = [asked EXCEPT ![s] = @ \cup {r}]

-----------------------------------------------------------------------------
(* The calls.                                                              *)

\* inspectLease: a pending cleanup and an unreadable pair are reported.
Inspect(s, r) ==
    /\ At(s, "idle") /\ Me(s).call < MaxCall
    /\ LET seen == IF Marked(r) THEN "recovery_required" ELSE Look(s, r)
       IN  /\ reply' = [reply EXCEPT ![s] = [kind |-> "inspect", res |-> r, out |-> seen]]
           /\ guard' = [guard EXCEPT ![s] = IF seen \in Unreadable THEN @ ELSE CurrentGuard(r)]
    /\ sess' = [sess EXCEPT ![s].call = @ + 1]
    /\ Asks(s, r)
    /\ UNCHANGED <<Files, now, Failing>>

Begin(s, kind, r, pc) ==
    /\ At(s, "idle") /\ Me(s).call < MaxCall
    /\ \E ttl \in TTL :
        sess' = [sess EXCEPT ![s] =
            [Idle(Me(s).call + 1) EXCEPT !.pc = pc, !.kind = kind, !.res = r, !.ttl = ttl,
                                         !.seen = guard[s], !.goal = "hold"]]
    /\ Asks(s, r)
    /\ UNCHANGED <<Files, now, Failing, reply>>

Acquire(s, r) == Begin(s, "acquire", r, "before") /\ UNCHANGED guard

Owns(s) == guard[s] # NoGuard /\ guard[s].lease.owner = s

Renew(s) == Owns(s) /\ Begin(s, "renew", guard[s].res, "pre") /\ UNCHANGED guard

\* Whoever asks for a release no longer relies on the lease.
Release(s) ==
    /\ Owns(s) /\ Begin(s, "release", guard[s].res, "before")
    /\ guard' = [guard EXCEPT ![s] = NoGuard]

Takeover(s) ==
    guard[s] # NoGuard /\ Begin(s, "takeover", guard[s].res, "pre") /\ UNCHANGED guard

\* recoverClaim, with the claim the caller observed.
RecoverClaim(s, r) ==
    /\ At(s, "idle") /\ Me(s).call < MaxCall
    /\ claim[r] # NoClaim /\ ~Marked(r) /\ Look(s, r) \notin Unreadable
    /\ sess' = [sess EXCEPT ![s] =
            [Idle(Me(s).call + 1) EXCEPT !.pc = "admit", !.kind = "recover", !.res = r,
                                         !.goal = "reclaim", !.mine = claim[r]]]
    /\ Asks(s, r)
    /\ UNCHANGED <<Files, now, Failing, guard, reply>>

-----------------------------------------------------------------------------
(* Before the claim.                                                       *)

\* acquire and release look before they claim.  A release that already took
\* place is reported again.
Before(s) ==
    /\ At(s, "before")
    /\ LET r == Me(s).res
           saw == IF Marked(r) THEN "recovery_required" ELSE Look(s, r)
       IN  \/ saw \in Unreadable /\ Return(s, saw)
           \/ /\ Me(s).kind = "acquire" /\ saw \in Standing
              /\ Return(s, "conflict")
           \/ /\ Me(s).kind = "acquire" /\ saw \in {"empty", "released"}
              /\ sess' = [sess EXCEPT ![s].pc = "pre", ![s].seen = CurrentGuard(r)]
              /\ UNCHANGED <<guard, reply>>
           \/ /\ Me(s).kind = "release" /\ saw = "released" /\ CurrentGuard(r) = Me(s).seen
              /\ Return(s, "released")
           \/ /\ Me(s).kind = "release" /\ saw \notin Unreadable
              /\ ~(saw = "released" /\ CurrentGuard(r) = Me(s).seen)
              /\ Goto(s, "pre") /\ UNCHANGED <<guard, reply>>
    /\ UNCHANGED <<Files, World>>

\* acquireLeaseConflict: nobody holds the claim and the files are those the
\* caller observed.
AsObserved(s, r) == claim[r] = NoClaim /\ CurrentGuard(r) = Me(s).seen

\* acquireClaim.
PreAdmission(s) ==
    /\ At(s, "pre")
    /\ LET r == Me(s).res
       IN  \/ /\ Marked(r) \/ (Look(s, r) \notin Unreadable /\ AsObserved(s, r))
              /\ Goto(s, "admit") /\ UNCHANGED <<guard, reply>>
           \/ /\ ~Marked(r) /\ Look(s, r) \in Unreadable
              /\ Return(s, Look(s, r))
           \/ /\ ~Marked(r) /\ Look(s, r) \notin Unreadable /\ ~AsObserved(s, r)
              /\ Return(s, "conflict")
    /\ UNCHANGED <<Files, World>>

-----------------------------------------------------------------------------
(* Admission.                                                              *)

AdmissionHeld(s) == admission # NoClaim /\ admission.expires + Skew > Clock(s)

\* Mutant: administrations of different runs wait for each other.
IndependentNever(s) == FALSE

\* independentAdmissionScope: administrations of two different runs do not
\* wait for each other.
Independent(s) ==
    admission.scope \in Run /\ Me(s).res \in Run /\ admission.scope # Me(s).res

\* Mutant: a claim that could not be given back is reported as a conflict.
BlockedQuietly == [hold |-> "conflict", unclaim |-> "conflict", reclaim |-> "conflict"]

\* What the caller is told when somebody else holds the admission: a refused
\* return of the claim leaves the claim in place.
Blocked == [hold |-> "conflict", unclaim |-> "recovery_required", reclaim |-> "conflict"]

\* Mutant: whoever finds the admission held waits for it.
AdmitWaits(s) ==
    /\ At(s, "admit") /\ ~AdmissionHeld(s)
    /\ admission' = NoClaim
    /\ Goto(s, "elect")
    /\ UNCHANGED <<claim, trail, lease, txs, World, guard, reply>>

\* withAdmission, up to the election: an expired holder is retired.
Admit(s) ==
    /\ At(s, "admit")
    /\ \/ /\ ~AdmissionHeld(s)
          /\ admission' = NoClaim
          /\ Goto(s, "elect") /\ UNCHANGED <<guard, reply>>
       \/ /\ AdmissionHeld(s) /\ Independent(s)
          /\ Goto(s, Me(s).goal) /\ UNCHANGED <<admission, guard, reply>>
       \/ /\ AdmissionHeld(s) /\ ~Independent(s)
          /\ Return(s, Blocked[Me(s).goal]) /\ UNCHANGED admission
    /\ UNCHANGED <<claim, trail, lease, txs, World>>

AdmissionRecord(s) ==
    [by |-> s, call |-> Me(s).call, scope |-> Me(s).res, expires |-> Clock(s) + ClaimTTL]

\* The election is an exclusive rename.
Elect(s) ==
    /\ At(s, "elect")
    /\ \/ /\ admission = NoClaim
          /\ admission' = AdmissionRecord(s)
          /\ sess' = [sess EXCEPT ![s].pc = Me(s).goal, ![s].adm = AdmissionRecord(s)]
       \/ /\ admission # NoClaim
          /\ Goto(s, "again") /\ UNCHANGED admission
    /\ UNCHANGED <<claim, trail, lease, txs, World, guard, reply>>

\* What the caller is told of a failure that nobody's record explains.
Unexplained ==
    [hold |-> "internal_failure", unclaim |-> "recovery_required", reclaim |-> "internal_failure"]

\* Who lost the election looks once more.  A winner that has left already is
\* reported as a failure; otherwise the election is repeated, unless the holder
\* administers another run.
Again(s) ==
    /\ At(s, "again")
    /\ \/ /\ admission = NoClaim
          /\ Return(s, Unexplained[Me(s).goal]) /\ UNCHANGED admission
       \/ /\ AdmissionHeld(s) /\ Independent(s)
          /\ Goto(s, Me(s).goal) /\ UNCHANGED <<admission, guard, reply>>
       \/ /\ admission # NoClaim /\ ~(AdmissionHeld(s) /\ Independent(s))
          /\ admission' = IF AdmissionHeld(s) THEN admission ELSE NoClaim
          /\ Goto(s, "admit") /\ UNCHANGED <<guard, reply>>
    /\ UNCHANGED <<claim, trail, lease, txs, World>>

\* A file operation fails while the record is built, or right after it was
\* published, and then the record stays.  Whoever is found admitted is named in a
\* conflict: an independent run, or the caller itself.
BuildFails(s) ==
    /\ At(s, "elect") /\ failures < MaxFailure
    /\ \/ admission' = admission
       \/ admission = NoClaim /\ admission' = AdmissionRecord(s)
    /\ Return(s, IF admission' = NoClaim THEN Unexplained[Me(s).goal] ELSE Blocked[Me(s).goal])
    /\ failures' = failures + 1
    /\ unbuilt' = unbuilt \cup {s}
    /\ UNCHANGED <<claim, trail, lease, txs, now, asked>>

\* The finally of withAdmission: only the own record is retired.
LeaveAdmission(s) ==
    /\ At(s, "leave")
    /\ admission' = IF admission # NoClaim /\ admission = Me(s).adm THEN NoClaim ELSE admission
    /\ IF Me(s).after = "idle" THEN Return(s, Me(s).out)
       ELSE /\ sess' = [sess EXCEPT ![s].pc = Me(s).after, ![s].adm = NoClaim]
            /\ UNCHANGED <<guard, reply>>
    /\ UNCHANGED <<claim, trail, lease, txs, World>>

-----------------------------------------------------------------------------
(* Taking the claim, inside the admission.                                 *)

\* helpScopeRecovery on behalf of whoever marked the claim.
HelpCleanup(r) == claim' = [claim EXCEPT ![r] = NoClaim]

\* acquireClaimHeld, up to the check of the family.
Hold(s) ==
    /\ At(s, "hold")
    /\ LET r == Me(s).res
       IN  \/ Marked(r) /\ HelpCleanup(r) /\ UNCHANGED sess
           \/ /\ ~Marked(r) /\ Look(s, r) \in Unreadable
              /\ Leave(s, "idle", Look(s, r)) /\ UNCHANGED claim
           \/ /\ ~Marked(r) /\ Look(s, r) \notin Unreadable
              /\ IF AsObserved(s, r) THEN Goto(s, "family") ELSE Leave(s, "idle", "conflict")
              /\ UNCHANGED claim
    /\ UNCHANGED <<admission, trail, lease, txs, World, guard, reply>>

Family(r) == IF r = Project THEN Run ELSE {Project}

\* Mutant: only leases count as held, claims do not.
InTheWayByLease(s, q) == Look(s, q) \in {"active", "skew"}

InTheWay(s, q) == claim[q] # NoClaim \/ Look(s, q) \in {"active", "skew"}

\* activeFamilyClaim.
CheckFamily(s) ==
    /\ At(s, "family")
    /\ LET kin == Family(Me(s).res)
       IN  \/ /\ \A q \in kin : ~InTheWay(s, q) /\ Look(s, q) \notin Unreadable
              /\ Goto(s, "claim")
           \/ /\ \E q \in kin : InTheWay(s, q)
              /\ Leave(s, "idle", "conflict")
           \/ \E q \in kin : Look(s, q) \in Unreadable /\ Leave(s, "idle", Look(s, q))
    /\ UNCHANGED <<Files, World, guard, reply>>

\* The exclusive rename that publishes the claim.
TakeClaim(s) ==
    /\ At(s, "claim")
    /\ LET r == Me(s).res
           record == [by |-> s, call |-> Me(s).call, expires |-> Clock(s) + ClaimTTL,
                      marked |-> FALSE]
       IN  \/ /\ claim[r] = NoClaim
              /\ claim' = [claim EXCEPT ![r] = record]
              /\ sess' = [sess EXCEPT ![s].pc = "leave", ![s].after = "decide", ![s].mine = record]
           \/ /\ claim[r] # NoClaim
              /\ Leave(s, "idle", "conflict") /\ UNCHANGED claim
    /\ UNCHANGED <<admission, trail, lease, txs, World, guard, reply>>

-----------------------------------------------------------------------------
(* The transition, under the claim.                                        *)

Decision(s) ==
    LET me == Me(s)
        current == CurrentBinding(s, me.res)
        id == <<s, me.call>>
    IN  CASE me.kind = "acquire" -> DecideAcquire(current, s, id, Clock(s), me.ttl)
          [] me.kind = "renew" -> DecideRenew(current, me.seen.lease, Clock(s), me.ttl)
          [] me.kind = "release" -> DecideRelease(current, me.seen.lease, Clock(s))
          [] me.kind = "takeover" ->
                DecideTakeover(current, me.seen.lease, s, id, Clock(s), me.ttl)

\* prepareLeaseTransition.
Prepare(s, d) ==
    LET r == Me(s).res
    IN  [by |-> s, call |-> Me(s).call, res |-> r, base |-> trail[r], old |-> lease[r],
         trail |-> Append(trail[r], [action |-> d.action, lease |-> d.lease]),
         lease |-> d.lease, phase |-> "prepared"]

\* The files are read again, and decided upon, once the claim is held.
Decide(s) ==
    /\ At(s, "decide")
    /\ LET r == Me(s).res
           d == Decision(s)
       IN  \/ Look(s, r) \in Unreadable /\ Conclude(s, Look(s, r))
           \/ /\ Look(s, r) = "empty" /\ Me(s).kind # "acquire"
              /\ Conclude(s, "corrupt")
           \/ /\ Look(s, r) \notin Unreadable
              /\ Look(s, r) = "empty" => Me(s).kind = "acquire"
              /\ IF d.kind # "transition"
                 THEN Conclude(s, IF d.kind = "invalid_transition" THEN "internal_failure"
                                  ELSE "conflict")
                 ELSE IF ~Extends(trail[r], d.action, d.lease.token)
                 THEN Conclude(s, "internal_failure")
                 ELSE sess' = [sess EXCEPT ![s].pc = "preflight", ![s].plan = Prepare(s, d)]
    /\ UNCHANGED <<Files, World, guard, reply>>

\* preflightManagedTransactions.
Preflight(s) ==
    /\ At(s, "preflight")
    /\ IF txs = {} THEN Goto(s, "mark") ELSE Conclude(s, "recovery_required")
    /\ UNCHANGED <<Files, World, guard, reply>>

MarkTransaction(s) ==
    /\ At(s, "mark")
    /\ txs' = txs \cup {Me(s).plan}
    /\ Goto(s, "authorize")
    /\ UNCHANGED <<admission, claim, trail, lease, World, guard, reply>>

AtBase(p) == trail[p.res] = p.base /\ lease[p.res] = p.old

Publishing(p) == [p EXCEPT !.phase = "publishing"]

\* The preconditions, then the document that says "publishing".  A refused
\* transaction stays behind for recovery to abort.
Authorize(s) ==
    /\ At(s, "authorize")
    /\ LET p == Me(s).plan
       IN  IF AtBase(p)
           THEN /\ txs' = (txs \ {p}) \cup {Publishing(p)}
                /\ Goto(s, "trail")
           ELSE Conclude(s, "revision_conflict") /\ UNCHANGED txs
    /\ UNCHANGED <<admission, claim, trail, lease, World, guard, reply>>

\* Operation 1: events.jsonl.
PublishTrail(s) ==
    /\ At(s, "trail")
    /\ LET p == Me(s).plan
       IN  IF trail[p.res] = p.base
           THEN trail' = [trail EXCEPT ![p.res] = p.trail] /\ Goto(s, "lease")
           ELSE Conclude(s, "corrupt") /\ UNCHANGED trail
    /\ UNCHANGED <<admission, claim, lease, txs, World, guard, reply>>

\* Operation 2: lease.json; both results stand, and the transaction commits.
PublishLease(s) ==
    /\ At(s, "lease")
    /\ LET p == Me(s).plan
       IN  IF lease[p.res] = p.old /\ trail[p.res] = p.trail
           THEN /\ lease' = [lease EXCEPT ![p.res] = p.lease]
                /\ txs' = txs \ {Publishing(p)}
                /\ Goto(s, "confirm")
           ELSE Conclude(s, "corrupt") /\ UNCHANGED <<lease, txs>>
    /\ UNCHANGED <<admission, claim, trail, World, guard, reply>>

Achieved == [acquire |-> "acquired", renew |-> "renewed", release |-> "released",
             takeover |-> "taken_over"]

\* publishLeaseTransition reads back what the caller will work with.
Confirm(s) ==
    /\ At(s, "confirm")
    /\ LET saw == Look(s, Me(s).res)
       IN  IF saw \in Unreadable THEN Conclude(s, saw)
           ELSE sess' = [sess EXCEPT ![s].pc = "admit", ![s].goal = "unclaim",
                                     ![s].out = Achieved[Me(s).kind],
                                     ![s].got = CurrentGuard(Me(s).res)]
    /\ UNCHANGED <<Files, World, guard, reply>>

-----------------------------------------------------------------------------
(* Giving the claim back, inside the admission again.                      *)

Unmarked(c) == [c EXCEPT !.marked = FALSE]

IsMine(s, r) == claim[r] # NoClaim /\ Unmarked(claim[r]) = Unmarked(Me(s).mine)

\* releaseClaimHeld: help a pending cleanup, or mark the own claim.  A claim
\* that is gone, or somebody else's, is reported as recovery_required.
Unclaim(s) ==
    /\ At(s, "unclaim")
    /\ LET r == Me(s).res
       IN  \/ /\ Marked(r) /\ HelpCleanup(r)
              /\ IF IsMine(s, r) THEN Leave(s, "idle", Me(s).out) ELSE UNCHANGED sess
           \/ /\ IsMine(s, r) /\ ~Marked(r)
              /\ claim' = [claim EXCEPT ![r].marked = TRUE]
              /\ Goto(s, "unmark")
           \/ /\ ~Marked(r) /\ ~IsMine(s, r)
              /\ Leave(s, "idle", "recovery_required") /\ UNCHANGED claim
    /\ UNCHANGED <<admission, trail, lease, txs, World, guard, reply>>

\* helpScopeRecovery of the own marker.
Unmark(s) ==
    /\ At(s, "unmark")
    /\ LET r == Me(s).res
       IN  IF IsMine(s, r)
           THEN HelpCleanup(r) /\ Leave(s, "idle", Me(s).out)
           ELSE /\ Leave(s, "idle", IF Me(s).kind = "recover" THEN "absent"
                                    ELSE "recovery_required")
                /\ UNCHANGED claim
    /\ UNCHANGED <<admission, trail, lease, txs, World, guard, reply>>

ClaimExpired(s, c) == c.expires + Skew <= Clock(s)

\* Mutant: the age of the claim is not looked at.
ReclaimableYoung(s, r) == IsMine(s, r)

Reclaimable(s, r) == IsMine(s, r) /\ ClaimExpired(s, claim[r])

\* recoverClaimHeld: no transaction may be pending, and the claim must be the
\* one observed and have expired.
Reclaim(s) ==
    /\ At(s, "reclaim")
    /\ LET r == Me(s).res
       IN  \/ txs # {} /\ Leave(s, "idle", "recovery_required") /\ UNCHANGED claim
           \/ /\ txs = {} /\ Marked(r) /\ HelpCleanup(r)
              /\ IF IsMine(s, r) THEN Leave(s, "idle", "recovered") ELSE UNCHANGED sess
           \/ /\ txs = {} /\ claim[r] = NoClaim
              /\ Leave(s, "idle", "absent") /\ UNCHANGED claim
           \/ /\ txs = {} /\ claim[r] # NoClaim /\ ~Marked(r)
              /\ IF Reclaimable(s, r)
                 THEN /\ claim' = [claim EXCEPT ![r].marked = TRUE]
                      /\ sess' = [sess EXCEPT ![s].pc = "unmark", ![s].out = "recovered"]
                 ELSE Leave(s, "idle", "corrupt") /\ UNCHANGED claim
    /\ UNCHANGED <<admission, trail, lease, txs, World, guard, reply>>

-----------------------------------------------------------------------------
(* The environment.                                                        *)

Tick == now < MaxTime /\ now' = now + 1
        /\ UNCHANGED <<Files, sess, guard, reply, asked, Failing>>

\* A process dies in the middle of a call; its files stay.
Crash(s) ==
    /\ failures < MaxFailure /\ ~At(s, "idle") /\ ~At(s, "dead")
    /\ sess' = [sess EXCEPT ![s] = [Idle(Me(s).call) EXCEPT !.pc = "dead"]]
    /\ guard' = [guard EXCEPT ![s] = NoGuard]
    /\ failures' = failures + 1
    /\ UNCHANGED <<Files, now, reply, asked, unbuilt>>

\* The driver of a transaction has returned, or its process is gone.
Abandoned(p) ==
    ~(sess[p.by].call = p.call /\ sess[p.by].pc \in {"authorize", "trail", "lease"})

\* Mutant: recovery commits once the trail is published.
RecoverTrailOnly(p) ==
    /\ p \in txs /\ Abandoned(p)
    /\ trail[p.res] \in {p.base, p.trail}
    /\ trail' = IF p.phase = "prepared" THEN trail ELSE [trail EXCEPT ![p.res] = p.trail]
    /\ txs' = txs \ {p}
    /\ UNCHANGED <<admission, claim, lease, sess, guard, reply, World>>

\* recoverManagedMutation of an abandoned transaction: abort it, or roll it
\* forward when every file is as before or as published.
RecoverTransaction(p) ==
    /\ p \in txs /\ Abandoned(p)
    /\ \/ p.phase = "prepared" /\ UNCHANGED <<trail, lease>>
       \/ /\ p.phase = "publishing"
          /\ trail[p.res] \in {p.base, p.trail} /\ lease[p.res] \in {p.old, p.lease}
          /\ trail' = [trail EXCEPT ![p.res] = p.trail]
          /\ lease' = [lease EXCEPT ![p.res] = p.lease]
    /\ txs' = txs \ {p}
    /\ UNCHANGED <<admission, claim, sess, guard, reply, World>>

-----------------------------------------------------------------------------
Call(s) ==
    \/ \E r \in Works[s] : Inspect(s, r) \/ Acquire(s, r) \/ RecoverClaim(s, r)
    \/ Renew(s) \/ Release(s) \/ Takeover(s)

AcquireClaim(s) ==
    Before(s) \/ PreAdmission(s) \/ Hold(s) \/ CheckFamily(s) \/ TakeClaim(s)

WithAdmission(s) == Admit(s) \/ Elect(s) \/ Again(s) \/ LeaveAdmission(s)

Publish(s) ==
    \/ Decide(s) \/ Preflight(s) \/ MarkTransaction(s) \/ Authorize(s)
    \/ PublishTrail(s) \/ PublishLease(s) \/ Confirm(s)

ReturnClaim(s) == Unclaim(s) \/ Unmark(s) \/ Reclaim(s)

Step(s) == AcquireClaim(s) \/ WithAdmission(s) \/ Publish(s) \/ ReturnClaim(s)

Next ==
    \/ \E s \in Session : Call(s) \/ Step(s) \/ BuildFails(s) \/ Crash(s)
    \/ \E p \in txs : RecoverTransaction(p)
    \/ Tick

Spec == Init /\ [][Next]_vars

\* The scheduler runs a process that can move.
FairSpec == Spec /\ \A s \in Session : WF_vars(Step(s))

-----------------------------------------------------------------------------
(* Properties.                                                             *)

CallState == [pc : PC, call : 0 .. MaxCall, kind : Kind, res : Resource, ttl : TTL \cup {0},
          seen : Guard \cup {NoGuard}, goal : {"idle", "hold", "unclaim", "reclaim"},
          after : {"idle", "decide"}, adm : Admission \cup {NoClaim},
          mine : Claim \cup {NoClaim}, plan : Plan \cup {NoPlan}, out : Outcome,
          got : Guard \cup {NoGuard}]

\* Every variable keeps its type; with the fencing token within its bound.
TypeOK ==
    /\ now \in 0 .. MaxTime
    /\ admission \in Admission \cup {NoClaim}
    /\ claim \in [Resource -> Claim \cup {NoClaim}]
    /\ trail \in [Resource -> Seq(Transition)]
    /\ lease \in [Resource -> Lease \cup {NoLease}]
    /\ txs \subseteq Plan
    /\ sess \in [Session -> CallState]
    /\ guard \in [Session -> Guard \cup {NoGuard}]
    /\ reply \in [Session -> [kind : Kind, res : Resource, out : Outcome]]
    /\ failures \in 0 .. MaxFailure
    /\ asked \in [Session -> SUBSET Resource]
    /\ unbuilt \subseteq Session

\* A session relies on a lease: it is in its name, not released, and writable by
\* its own clock.
Relies(s, r) ==
    /\ guard[s] # NoGuard /\ guard[s].res = r
    /\ guard[s].lease.owner = s
    /\ Last(guard[s].trail).action # "release"
    /\ Clock(s) < guard[s].lease.expires

\* The promise of the skew window (classifyLeaseTime): two sessions whose clocks
\* differ by no more than the skew never rely on the same resource at once,
\* whatever crashed, expired or was taken over.
OneHolder ==
    \A s, t \in Session, r \in Resource : Relies(s, r) /\ Relies(t, r) => s = t

\* The promise of activeFamilyClaim: the project and one of its runs are never
\* relied upon by two sessions at once.
ScopesExclude ==
    \A s, t \in Session, r \in Run : Relies(s, Project) /\ Relies(t, r) => s = t

\* What verifyLeaseBinding refuses never comes about by the protocol itself: as
\* long as no transaction is under way, trail and lease of a resource agree and
\* the trail is legal.
FilesAgree ==
    txs = {} => \A r \in Resource :
        (trail[r] = <<>> /\ lease[r] = NoLease) \/ Binds(trail[r], lease[r])

\* A transaction that was authorised can always be rolled forward
\* (recoverManagedMutation): what it found or published still stands, because the
\* claim keeps every other transition away.
AlwaysRollsForward ==
    \A p \in txs : p.phase = "publishing" =>
        trail[p.res] \in {p.base, p.trail} /\ lease[p.res] \in {p.old, p.lease}

\* A history is only extended (prepareLeaseTransition): no transition is ever
\* overwritten by one that was prepared over an older state, and a new owner
\* always comes with a higher fencing token.
HistoryExtends ==
    [][\A r \in Resource :
        trail'[r] # trail[r] =>
            /\ Len(trail'[r]) = Len(trail[r]) + 1
            /\ SubSeq(trail'[r], 1, Len(trail[r])) = trail[r]
            /\ Last(trail'[r]).lease.token >= LastToken(trail[r])
            /\ trail[r] # <<>> /\ Last(trail'[r]).lease.id # Last(trail[r]).lease.id =>
                 Last(trail'[r]).lease.token > LastToken(trail[r])]_vars

\* completeWithClaim: a session that returned leaves its claim behind only if it
\* was told recovery_required.
NoSilentClaim ==
    \A r \in Resource :
        LET c == claim[r]
        IN  c # NoClaim /\ sess[c.by].pc = "idle" /\ sess[c.by].call = c.call
                => reply[c.by].out = "recovery_required"

\* independentAdmissionScope: an acquisition that returned was refused as a conflict
\* only for a reason in its own family: a history, a claim, or another session that
\* has asked for something there.  Work on one run never stands in the way of another
\* run.  Not promised to a session whose own admission record could not be built: it
\* is told whoever is admitted, and may leave a record that refuses its next call.
RunsDoNotConflict ==
    \A s \in Session \ unbuilt :
        At(s, "idle") /\ reply[s].kind = "acquire" /\ reply[s].out = "conflict" =>
            \E q \in {reply[s].res} \cup Family(reply[s].res) :
                \/ trail[q] # <<>> \/ claim[q] # NoClaim
                \/ \E t \in Session \ {s} : q \in asked[t]

\* runtime.state_corrupt stands for files no protocol can interpret: without
\* damage an inspection never reports it, even while another session publishes.
InspectionIsTrue ==
    \A s \in Session : reply[s].kind = "inspect" => reply[s].out # "corrupt"

\* Every call of a live process returns, whatever the others do or leave behind.
EveryCallReturns ==
    \A s \in Session : ~At(s, "idle") ~> (At(s, "idle") \/ At(s, "dead"))

=============================================================================
