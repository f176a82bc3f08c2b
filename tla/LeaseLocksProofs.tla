--------------------------- MODULE LeaseLocksProofs ---------------------------
(* Proofs about LeaseLocks: the trail and the lease of a resource agree and    *)
(* its history only grows, whoever holds, loses or steals which claim; and a   *)
(* call that returns leaves no claim behind silently.  At most one session      *)
(* relies on a resource, and independent runs stay apart.                      *)
EXTENDS LeaseLocks, TLAPS

\* A trail and a lease that an inspection can read.
Agreed(t, l) == (t = <<>> /\ l = NoLease) \/ Binds(t, l)

\* What a plan adds to the trail it was prepared over.
Added(p) == Last(p.trail)

\* A plan as a decision leaves it: one legal transition of its own session on a
\* pair that agreed; a lease of another identity has a higher token.
PlanSound(p) ==
    /\ Added(p) \in Transition /\ p.trail = Append(p.base, Added(p))
    /\ Added(p).lease = p.lease
    /\ Agreed(p.base, p.old)
    /\ Extends(p.base, Added(p).action, p.lease.token)
    /\ p.base # <<>> /\ p.lease.id # Last(p.base).lease.id => p.lease.token > LastToken(p.base)

Prefix(a, t) == Len(a) <= Len(t) /\ \A i \in 1 .. Len(a) : t[i] = a[i]

\* A plan is never ahead of the files; while a transition is half published, it
\* is behind.
PlanStands(p) ==
    /\ Prefix(p.base, trail[p.res])
    /\ ~Agreed(trail[p.res], lease[p.res]) => Len(p.base) < Len(trail[p.res])

Lifecycle == {"acquire", "renew", "release", "takeover"}

Deciding == {"decide", "preflight", "mark", "authorize", "trail", "lease", "confirm"}

Planned == {"preflight", "mark", "authorize", "trail", "lease"}

\* What a call holds at each place.
CallSound(c) ==
    /\ c.pc \notin {"idle", "dead"} => c.call >= 1
    /\ c.pc \in {"before", "pre"} => c.goal = "hold"
    /\ c.pc \in {"admit", "elect", "again"} =>
         c.goal \in {"hold", "unclaim", "reclaim"} /\ (c.goal # "reclaim" => c.kind \in Lifecycle)
    /\ c.pc \in Deciding \cup {"before", "pre", "hold", "family", "claim", "unclaim"} =>
         c.kind \in Lifecycle
    /\ c.pc = "leave" /\ c.after = "decide" => c.kind \in Lifecycle
    /\ c.pc \in Planned => c.plan \in Plan /\ PlanSound(c.plan)

Calls == \A s \in Session : CallSound(sess[s])

Plans ==
    /\ \A p \in txs : PlanSound(p) /\ PlanStands(p)
    /\ \A s \in Session : sess[s].pc \in Planned => PlanStands(sess[s].plan)

\* A resource whose files do not agree is in the middle of a publication.
Filed ==
    \A r \in Resource :
        \/ Agreed(trail[r], lease[r])
        \/ \E p \in txs : p.phase = "publishing" /\ p.res = r /\ trail[r] = p.trail /\ lease[r] = p.old

\* A call carries a plan of its own, and what it drives is on record.
Drives(s) ==
    LET c == sess[s]
    IN  /\ c.pc \in Planned =>
             c.plan.by = s /\ c.plan.call = c.call /\ c.plan.res = c.res /\ c.plan.phase = "prepared"
        /\ c.pc = "authorize" => c.plan \in txs
        /\ c.pc \in {"trail", "lease"} => Publishing(c.plan) \in txs

Driven == \A s \in Session : Drives(s)

\* A call that holds the claim of its resource.
Holding(c) ==
    \/ c.pc \in Deciding \cup {"unclaim"}
    \/ c.pc = "leave" /\ c.after = "decide"
    \/ c.pc \in {"admit", "elect", "again"} /\ c.goal = "unclaim"
    \/ c.pc = "unmark" /\ c.kind # "recover"

\* A claim is of a call that holds it, or that left it and was told so, or that
\* is over.
Claimed(r) ==
    LET c == claim[r]
        me == sess[c.by]
    IN  c # NoClaim =>
          /\ c.call <= me.call
          /\ c.call = me.call =>
               \/ me.pc = "dead"
               \/ me.pc = "idle" /\ reply[c.by].out = "recovery_required"
               \/ Holding(me) /\ me.res = r /\ Unmarked(c) = Unmarked(me.mine)

ClaimsHeld == \A r \in Resource : Claimed(r)

Inv == TypeOK /\ Calls /\ Plans /\ Driven /\ Filed /\ ClaimsHeld

\* A step that gives back or marks claims and takes none.
ClaimsWane ==
    /\ claim' \in [Resource -> Claim \cup {NoClaim}]
    /\ \A r \in Resource : claim'[r] # NoClaim =>
         claim[r] # NoClaim /\ Unmarked(claim'[r]) = Unmarked(claim[r])

\* A call that holds a claim goes on holding it, gives it back, finds that it is
\* not its own any more, or ends as one that may leave it behind.
Keeps(s) ==
    Holding(sess[s]) =>
        \/ /\ Holding(sess'[s])
           /\ sess'[s].res = sess[s].res /\ sess'[s].mine = sess[s].mine
        \/ claim'[sess[s].res] = NoClaim
        \/ ~IsMine(s, sess[s].res)
        \/ sess'[s].pc = "dead"
        \/ sess'[s].pc = "idle" /\ reply'[s].out = "recovery_required"

-----------------------------------------------------------------------------
(* Steps of a call.                                                          *)

USE DEF Resource

LEMMA GotoFields ==
    ASSUME TypeOK, NEW s \in Session, NEW pc \in PC, Goto(s, pc)
    PROVE  /\ sess' = [sess EXCEPT ![s] = sess'[s]] /\ sess'[s] \in CallState
           /\ sess'[s].pc = pc /\ sess'[s].call = sess[s].call /\ sess'[s].kind = sess[s].kind
           /\ sess'[s].res = sess[s].res /\ sess'[s].seen = sess[s].seen
           /\ sess'[s].goal = sess[s].goal /\ sess'[s].after = sess[s].after
           /\ sess'[s].mine = sess[s].mine /\ sess'[s].plan = sess[s].plan
           /\ sess'[s].out = sess[s].out /\ sess'[s].got = sess[s].got /\ sess'[s].ttl = sess[s].ttl
  <1>1. sess \in [Session -> CallState] /\ sess[s] \in CallState
    BY DEF TypeOK
  <1>2. sess'[s] = [sess[s] EXCEPT !.pc = pc] /\ sess' = [sess EXCEPT ![s] = sess'[s]]
    BY <1>1 DEF Goto
  <1>. QED
    BY <1>1, <1>2 DEF CallState

LEMMA ConcludeFields ==
    ASSUME TypeOK, NEW s \in Session, NEW out \in Outcome, Conclude(s, out)
    PROVE  /\ sess' = [sess EXCEPT ![s] = sess'[s]] /\ sess'[s] \in CallState
           /\ sess'[s].pc = "admit" /\ sess'[s].call = sess[s].call /\ sess'[s].kind = sess[s].kind
           /\ sess'[s].res = sess[s].res /\ sess'[s].goal = "unclaim" /\ sess'[s].mine = sess[s].mine
           /\ sess'[s].got = sess[s].got /\ sess'[s].out = out
           /\ sess'[s].seen = sess[s].seen /\ sess'[s].ttl = sess[s].ttl
  <1>1. sess \in [Session -> CallState] /\ sess[s] \in CallState
    BY DEF TypeOK
  <1>2. /\ sess'[s] = [sess[s] EXCEPT !.pc = "admit", !.goal = "unclaim", !.out = out]
        /\ sess' = [sess EXCEPT ![s] = sess'[s]]
    BY <1>1 DEF Conclude
  <1>3. "admit" \in PC /\ "unclaim" \in {"idle", "hold", "unclaim", "reclaim"}
    BY DEF PC
  <1>4. sess'[s] \in CallState
    BY <1>1, <1>2, <1>3 DEF CallState
  <1>. QED
    BY <1>1, <1>2, <1>4 DEF CallState

LEMMA LeaveFields ==
    ASSUME TypeOK, NEW s \in Session, NEW after \in {"idle", "decide"}, NEW out \in Outcome,
           Leave(s, after, out)
    PROVE  /\ sess' = [sess EXCEPT ![s] = sess'[s]] /\ sess'[s] \in CallState
           /\ sess'[s].pc = "leave" /\ sess'[s].call = sess[s].call /\ sess'[s].kind = sess[s].kind
           /\ sess'[s].res = sess[s].res /\ sess'[s].after = after /\ sess'[s].mine = sess[s].mine
           /\ sess'[s].got = sess[s].got /\ sess'[s].out = out
           /\ sess'[s].seen = sess[s].seen /\ sess'[s].ttl = sess[s].ttl
  <1>1. sess \in [Session -> CallState] /\ sess[s] \in CallState
    BY DEF TypeOK
  <1>2. /\ sess'[s] = [sess[s] EXCEPT !.pc = "leave", !.after = after, !.out = out]
        /\ sess' = [sess EXCEPT ![s] = sess'[s]]
    BY <1>1 DEF Leave
  <1>3. "leave" \in PC
    BY DEF PC
  <1>4. sess'[s] \in CallState
    BY <1>1, <1>2, <1>3 DEF CallState
  <1>. QED
    BY <1>1, <1>2, <1>4 DEF CallState

LEMMA ReturnFields ==
    ASSUME TypeOK, NEW s \in Session, NEW out \in Outcome, Return(s, out)
    PROVE  /\ sess' = [sess EXCEPT ![s] = sess'[s]] /\ sess'[s] \in CallState
           /\ sess'[s].pc = "idle" /\ sess'[s].call = sess[s].call
           /\ sess'[s].got = NoGuard /\ sess'[s].kind = "none"
           /\ reply' \in [Session -> [kind : Kind, res : Resource, out : Outcome]]
           /\ reply'[s].out = out /\ \A t \in Session \ {s} : reply'[t] = reply[t]
           /\ guard' \in [Session -> Guard \cup {NoGuard}]
           /\ \A t \in Session \ {s} : guard'[t] = guard[t]
           /\ guard'[s] \in {guard[s], sess[s].got}
  <1>1. /\ sess \in [Session -> CallState] /\ sess[s] \in CallState
        /\ guard \in [Session -> Guard \cup {NoGuard}]
        /\ reply \in [Session -> [kind : Kind, res : Resource, out : Outcome]]
    BY DEF TypeOK
  <1>2. /\ sess[s].call \in 0 .. MaxCall /\ sess[s].kind \in Kind /\ sess[s].res \in Resource
        /\ sess[s].got \in Guard \cup {NoGuard}
    BY <1>1 DEF CallState
  <1>3. sess' = [sess EXCEPT ![s] = Idle(sess[s].call)] /\ sess'[s] = Idle(sess[s].call)
    BY <1>1 DEF Return, Me
  <1>4. Idle(sess[s].call) \in CallState
    BY <1>2 DEF Idle, CallState, PC, Kind, Outcome
  <1>5. /\ Idle(sess[s].call).pc = "idle" /\ Idle(sess[s].call).call = sess[s].call
        /\ Idle(sess[s].call).got = NoGuard /\ Idle(sess[s].call).kind = "none"
    BY DEF Idle
  <1>6. [kind |-> sess[s].kind, res |-> sess[s].res, out |-> out] \in
            [kind : Kind, res : Resource, out : Outcome]
    BY <1>2
  <1>7. /\ reply' \in [Session -> [kind : Kind, res : Resource, out : Outcome]]
        /\ reply'[s].out = out /\ \A t \in Session \ {s} : reply'[t] = reply[t]
    BY <1>1, <1>6 DEF Return, Me
  <1>8. /\ guard' \in [Session -> Guard \cup {NoGuard}]
        /\ \A t \in Session \ {s} : guard'[t] = guard[t]
        /\ guard'[s] \in {guard[s], sess[s].got}
    BY <1>1, <1>2 DEF Return, Me
  <1>. QED
    BY <1>1, <1>3, <1>4, <1>5, <1>7, <1>8

LEMMA UnmarkedFields ==
    ASSUME NEW c \in Claim, NEW d \in Claim, Unmarked(c) = Unmarked(d)
    PROVE  c.by = d.by /\ c.call = d.call
  BY DEF Unmarked, Claim

LEMMA ClaimsKept ==
    ASSUME Inv, NEW s \in Session, sess' = [sess EXCEPT ![s] = sess'[s]], ClaimsWane,
           \A t \in Session \ {s} : reply'[t] = reply[t], sess[s].call \in Nat, sess'[s].call \in Nat,
           \/ sess[s].call < sess'[s].call
           \/ sess[s].call = sess'[s].call /\ sess[s].pc \notin {"idle", "dead"} /\ Keeps(s)
    PROVE  ClaimsHeld'
  <1>1. SUFFICES ASSUME NEW r \in Resource, claim'[r] # NoClaim PROVE Claimed(r)'
    BY DEF ClaimsHeld, Claimed
  <1>. DEFINE c == claim[r]
              d == claim'[r]
  <1>2. sess \in [Session -> CallState] /\ claim \in [Resource -> Claim \cup {NoClaim}]
    BY DEF Inv, TypeOK
  <1>3. c # NoClaim /\ Unmarked(d) = Unmarked(c) /\ c \in Claim /\ d \in Claim
    BY <1>1, <1>2 DEF ClaimsWane
  <1>4. c.by = d.by /\ c.call = d.call /\ c.by \in Session /\ c.call \in Nat
    BY <1>3, UnmarkedFields DEF Claim
  <1>5. Claimed(r)
    BY DEF Inv, ClaimsHeld
  <1>6. CASE c.by # s
    <2>1. sess'[d.by] = sess[c.by] /\ reply'[d.by] = reply[c.by]
      BY <1>2, <1>4, <1>6
    <2>. QED
      BY <1>3, <1>4, <1>5, <2>1 DEF Claimed, Holding
  <1>7. CASE c.by = s /\ sess[s].call < sess'[s].call
    <2>1. c.call <= sess[s].call
      BY <1>3, <1>5, <1>7 DEF Claimed
    <2>2. d.call < sess'[d.by].call
      BY <1>4, <1>7, <2>1
    <2>3. d.call <= sess'[d.by].call /\ d.call # sess'[d.by].call
      BY <1>4, <1>7, <2>2
    <2>. QED
      BY <1>1, <2>3 DEF Claimed
  <1>8. CASE /\ c.by = s /\ sess[s].call = sess'[s].call /\ sess[s].pc \notin {"idle", "dead"}
             /\ Keeps(s)
    <2>1. c.call <= sess[s].call
      BY <1>3, <1>5, <1>8 DEF Claimed
    <2>2. SUFFICES ASSUME c.call = sess[s].call
                   PROVE  \/ sess'[s].pc = "dead"
                          \/ sess'[s].pc = "idle" /\ reply'[s].out = "recovery_required"
                          \/ /\ Holding(sess'[s]) /\ sess'[s].res = r
                             /\ Unmarked(d) = Unmarked(sess'[s].mine)
      BY <1>4, <1>8, <2>1 DEF Claimed, Holding
    <2>3. Holding(sess[s]) /\ sess[s].res = r /\ Unmarked(c) = Unmarked(sess[s].mine)
      BY <1>3, <1>5, <1>8, <2>2 DEF Claimed
    <2>4. IsMine(s, r)
      BY <1>3, <2>3 DEF IsMine, Me
    <2>. QED
      BY <1>1, <1>3, <1>8, <2>3, <2>4 DEF Keeps
  <1>. QED
    BY <1>6, <1>7, <1>8

\* A step of a call that touches no file of a resource but the claim.
LEMMA Moves ==
    ASSUME Inv, NEW s \in Session, sess' = [sess EXCEPT ![s] = sess'[s]], sess'[s] \in CallState,
           CallSound(sess'[s]), sess'[s].pc \in Planned => PlanStands(sess'[s].plan), Drives(s)',
           trail' = trail, lease' = lease, txs' = txs
    PROVE  sess' \in [Session -> CallState] /\ Calls' /\ Plans' /\ Driven' /\ Filed'
  <1>1. sess \in [Session -> CallState]
    BY DEF Inv, TypeOK
  <1>2. \A t \in Session \ {s} : sess'[t] = sess[t]
    BY <1>1
  <1>3. sess' \in [Session -> CallState]
    BY <1>1
  <1>4. Calls'
    <2>. SUFFICES ASSUME NEW t \in Session PROVE CallSound(sess'[t])
      BY DEF Calls, CallSound, PlanSound, Agreed, Added
    <2>. QED
      BY <1>2 DEF Inv, Calls
  <1>5. Plans'
    <2>1. ASSUME NEW p PROVE PlanStands(p)' <=> PlanStands(p)
      BY DEF PlanStands
    <2>. QED
      BY <1>2, <2>1 DEF Inv, Plans, PlanStands, PlanSound, Agreed, Added
  <1>6. Filed'
    BY DEF Inv, Filed
  <1>7. Driven'
    <2>. SUFFICES ASSUME NEW t \in Session, t # s PROVE Drives(t)'
      BY DEF Driven
    <2>1. Drives(t)
      BY DEF Inv, Driven
    <2>. QED
      BY <1>2, <2>1 DEF Drives
  <1>. QED
    BY <1>3, <1>4, <1>5, <1>6, <1>7

LEMMA NothingDriven ==
    ASSUME NEW s \in Session, sess'[s].pc \notin Planned
    PROVE  Drives(s)' /\ (sess'[s].pc \in Planned => PlanStands(sess'[s].plan))
  BY DEF Drives, Planned

\* What a step of a call leaves alone: the clock, the bounds, and what it told
\* others.
Local(s) ==
    /\ now' = now /\ failures' \in 0 .. MaxFailure
    /\ asked' \in [Session -> SUBSET Resource] /\ unbuilt' \subseteq Session
    /\ guard' \in [Session -> Guard \cup {NoGuard}]
    /\ reply' \in [Session -> [kind : Kind, res : Resource, out : Outcome]]
    /\ \A t \in Session \ {s} : reply'[t] = reply[t]

LEMMA DrivingStep ==
    ASSUME Inv, NEW s \in Session, sess' = [sess EXCEPT ![s] = sess'[s]], sess'[s] \in CallState,
           CallSound(sess'[s]), sess'[s].pc \in Planned => PlanStands(sess'[s].plan), Drives(s)',
           trail' = trail, lease' = lease, txs' = txs, Local(s), ClaimsWane,
           admission' \in Admission \cup {NoClaim},
           \/ sess[s].call < sess'[s].call
           \/ sess[s].call = sess'[s].call /\ sess[s].pc \notin {"idle", "dead"} /\ Keeps(s)
    PROVE  Inv'
  <1>1. sess' \in [Session -> CallState] /\ Calls' /\ Plans' /\ Driven' /\ Filed'
    BY Moves
  <1>2. sess[s].call \in Nat /\ sess'[s].call \in Nat
    BY LocksAssumption DEF Inv, TypeOK, CallState
  <1>3. ClaimsHeld'
    BY <1>2, ClaimsKept DEF Local
  <1>4. TypeOK'
    BY <1>1 DEF Inv, TypeOK, Local, ClaimsWane
  <1>. QED
    BY <1>1, <1>3, <1>4 DEF Inv

LEMMA CallStep ==
    ASSUME Inv, NEW s \in Session, sess' = [sess EXCEPT ![s] = sess'[s]], sess'[s] \in CallState,
           CallSound(sess'[s]), sess'[s].pc \notin Planned,
           trail' = trail, lease' = lease, txs' = txs, Local(s), ClaimsWane,
           admission' \in Admission \cup {NoClaim},
           \/ sess[s].call < sess'[s].call
           \/ sess[s].call = sess'[s].call /\ sess[s].pc \notin {"idle", "dead"} /\ Keeps(s)
    PROVE  Inv'
  BY NothingDriven, DrivingStep

-----------------------------------------------------------------------------
(* What a session sees.                                                      *)

LEMMA ClockType ==
    ASSUME TypeOK, NEW s \in Session
    PROVE  Clock(s) \in Nat
  BY LocksAssumption, LeaseAssumption DEF TypeOK, Clock

LEMMA LookType ==
    ASSUME NEW s, NEW r
    PROVE  Look(s, r) \in Outcome /\ Look(s, r) # "none"
  BY DEF Look, Observation, ClassifyLeaseTime, Outcome, Success, Failure, Seen

\* What can be read agrees.
LEMMA ReadableAgrees ==
    ASSUME NEW s, NEW r, Look(s, r) \notin Unreadable
    PROVE  /\ Agreed(trail[r], lease[r])
           /\ Look(s, r) = "empty" <=> lease[r] = NoLease
           /\ lease[r] # NoLease => Binds(trail[r], lease[r])
  BY DEF Look, Observation, ClassifyLeaseTime, Unreadable, Agreed, Binds

LEMMA CurrentGuardType ==
    ASSUME TypeOK, NEW r \in Resource
    PROVE  CurrentGuard(r) \in Guard \cup {NoGuard}
  <1>1. trail[r] \in Seq(Transition) /\ lease[r] \in Lease \cup {NoLease}
    BY DEF TypeOK
  <1>. QED
    BY <1>1 DEF CurrentGuard, Guard

LEMMA OutcomeNames ==
    /\ {"acquired", "renewed", "released", "taken_over", "recovered", "conflict", "recovery_required",
        "revision_conflict", "corrupt", "internal_failure", "none", "absent"} \subseteq Outcome
  BY DEF Outcome, Success, Failure, Seen

LEMMA MeType ==
    ASSUME TypeOK, NEW s \in Session
    PROVE  /\ sess \in [Session -> CallState] /\ Me(s) = sess[s] /\ sess[s] \in CallState
           /\ sess[s].pc \in PC /\ sess[s].call \in 0 .. MaxCall /\ sess[s].kind \in Kind
           /\ sess[s].res \in Resource /\ sess[s].ttl \in TTL \cup {0}
           /\ sess[s].seen \in Guard \cup {NoGuard}
           /\ sess[s].goal \in {"idle", "hold", "unclaim", "reclaim"}
           /\ sess[s].after \in {"idle", "decide"} /\ sess[s].adm \in Admission \cup {NoClaim}
           /\ sess[s].mine \in Claim \cup {NoClaim} /\ sess[s].plan \in Plan \cup {NoPlan}
           /\ sess[s].out \in Outcome /\ sess[s].got \in Guard \cup {NoGuard}
  <1>1. sess \in [Session -> CallState] /\ Me(s) = sess[s] /\ sess[s] \in CallState
    BY DEF TypeOK, Me
  <1>. QED
    BY <1>1 DEF CallState

LEMMA NothingMoves ==
    ASSUME TypeOK, claim' = claim
    PROVE  ClaimsWane
  BY DEF TypeOK, ClaimsWane

LEMMA HelpWanes ==
    ASSUME TypeOK, NEW r \in Resource, HelpCleanup(r)
    PROVE  ClaimsWane /\ claim'[r] = NoClaim
  BY DEF TypeOK, ClaimsWane, HelpCleanup

LEMMA MarkingWanes ==
    ASSUME TypeOK, NEW r \in Resource, claim[r] # NoClaim,
           claim' = [claim EXCEPT ![r].marked = TRUE]
    PROVE  ClaimsWane
  <1>1. claim \in [Resource -> Claim \cup {NoClaim}] /\ claim[r] \in Claim
    BY DEF TypeOK
  <1>2. claim'[r] = [claim[r] EXCEPT !.marked = TRUE] /\ claim'[r] \in Claim
    BY <1>1 DEF Claim
  <1>3. Unmarked(claim'[r]) = Unmarked(claim[r])
    BY <1>1, <1>2 DEF Claim, Unmarked
  <1>. QED
    BY <1>1, <1>2, <1>3 DEF ClaimsWane

LEMMA LocalKept ==
    ASSUME TypeOK, NEW s \in Session, UNCHANGED World, UNCHANGED <<guard, reply>>
    PROVE  Local(s)
  BY DEF TypeOK, Local, World, Failing

LEMMA LocalReturn ==
    ASSUME TypeOK, NEW s \in Session, UNCHANGED World, NEW out \in Outcome, Return(s, out)
    PROVE  Local(s)
  <1>1. /\ now' = now /\ failures' \in 0 .. MaxFailure
        /\ asked' \in [Session -> SUBSET Resource] /\ unbuilt' \subseteq Session
    BY DEF World, Failing, TypeOK
  <1>. QED
    BY <1>1, ReturnFields DEF Local

\* A call returns from a place where it holds no claim, or says so.
LEMMA ReturnsStep ==
    ASSUME Inv, NEW s \in Session, NEW out \in Outcome, Return(s, out), Local(s),
           UNCHANGED <<claim, trail, lease, txs>>, admission' \in Admission \cup {NoClaim},
           sess[s].pc \notin {"idle", "dead"},
           ~Holding(sess[s]) \/ out = "recovery_required"
    PROVE  Inv'
  <1>1. TypeOK
    BY DEF Inv
  <1>2. ClaimsWane
    BY <1>1, NothingMoves
  <1>3. /\ sess' = [sess EXCEPT ![s] = sess'[s]] /\ sess'[s] \in CallState
        /\ sess'[s].pc = "idle" /\ sess'[s].call = sess[s].call /\ reply'[s].out = out
    BY <1>1, ReturnFields
  <1>4. CallSound(sess'[s]) /\ sess'[s].pc \notin Planned
    BY <1>3 DEF CallSound, Planned, Deciding
  <1>5. Keeps(s)
    BY <1>3 DEF Keeps
  <1>. QED
    BY <1>2, <1>3, <1>4, <1>5, CallStep

LEMMA ReturnStep ==
    ASSUME Inv, NEW s \in Session, NEW out \in Outcome, Return(s, out), UNCHANGED World,
           UNCHANGED <<claim, trail, lease, txs>>, admission' \in Admission \cup {NoClaim},
           sess[s].pc \notin {"idle", "dead"},
           ~Holding(sess[s]) \/ out = "recovery_required"
    PROVE  Inv'
  <1>1. Local(s)
    BY LocalReturn DEF Inv
  <1>. QED
    BY <1>1, ReturnsStep

\* A call goes on at another place.
LEMMA GotoStep ==
    ASSUME Inv, NEW s \in Session, NEW pc \in PC, Goto(s, pc), UNCHANGED World,
           UNCHANGED <<trail, lease, txs, guard, reply>>, admission' \in Admission \cup {NoClaim},
           ClaimsWane, sess[s].pc \notin {"idle", "dead"},
           CallSound(sess'[s]), pc \notin Planned, Keeps(s)
    PROVE  Inv'
  <1>1. TypeOK
    BY DEF Inv
  <1>2. Local(s)
    BY <1>1, LocalKept
  <1>3. /\ sess' = [sess EXCEPT ![s] = sess'[s]] /\ sess'[s] \in CallState
        /\ sess'[s].pc = pc /\ sess'[s].call = sess[s].call /\ sess'[s].plan = sess[s].plan
    BY <1>1, GotoFields
  <1>. QED
    BY <1>2, <1>3, CallStep

\* A call that holds a claim sets out to give it back.
LEMMA ConcludeStep ==
    ASSUME Inv, NEW s \in Session, NEW out \in Outcome, Conclude(s, out), UNCHANGED World,
           UNCHANGED <<admission, claim, trail, lease, txs, guard, reply>>, sess[s].pc \in Deciding
    PROVE  Inv'
  <1>1. TypeOK
    BY DEF Inv
  <1>2. Local(s) /\ ClaimsWane /\ admission' \in Admission \cup {NoClaim}
    BY <1>1, LocalKept, NothingMoves DEF TypeOK
  <1>3. /\ sess' = [sess EXCEPT ![s] = sess'[s]] /\ sess'[s] \in CallState
        /\ sess'[s].pc = "admit" /\ sess'[s].call = sess[s].call /\ sess'[s].kind = sess[s].kind
        /\ sess'[s].res = sess[s].res /\ sess'[s].goal = "unclaim" /\ sess'[s].mine = sess[s].mine
    BY <1>1, ConcludeFields
  <1>4. CallSound(sess[s])
    BY DEF Inv, Calls
  <1>5. CallSound(sess'[s]) /\ sess'[s].pc \notin Planned
    BY <1>3, <1>4 DEF CallSound, Planned, Deciding
  <1>6. Keeps(s)
    BY <1>3 DEF Keeps, Holding
  <1>7. sess[s].pc \notin {"idle", "dead"}
    BY DEF Deciding
  <1>. QED
    BY <1>2, <1>3, <1>5, <1>6, <1>7, CallStep

\* A call leaves the admission to return.
LEMMA LeaveStep ==
    ASSUME Inv, NEW s \in Session, NEW out \in Outcome, Leave(s, "idle", out), UNCHANGED World,
           UNCHANGED <<admission, trail, lease, txs, guard, reply>>, ClaimsWane,
           sess[s].pc \notin {"idle", "dead"},
           ~Holding(sess[s]) \/ claim'[sess[s].res] = NoClaim \/ ~IsMine(s, sess[s].res)
    PROVE  Inv'
  <1>1. TypeOK
    BY DEF Inv
  <1>2. Local(s) /\ admission' \in Admission \cup {NoClaim}
    BY <1>1, LocalKept DEF TypeOK
  <1>3. /\ sess' = [sess EXCEPT ![s] = sess'[s]] /\ sess'[s] \in CallState
        /\ sess'[s].pc = "leave" /\ sess'[s].call = sess[s].call /\ sess'[s].after = "idle"
    BY <1>1, LeaveFields
  <1>4. CallSound(sess[s])
    BY DEF Inv, Calls
  <1>5. CallSound(sess'[s]) /\ sess'[s].pc \notin Planned
    BY <1>3, <1>4 DEF CallSound, Planned, Deciding
  <1>6. Keeps(s)
    BY DEF Keeps
  <1>. QED
    BY <1>2, <1>3, <1>5, <1>6, CallStep

-----------------------------------------------------------------------------
(* Every action keeps the invariant.                                         *)

\* A call begins.
LEMMA BeginFields ==
    ASSUME TypeOK, NEW s \in Session, NEW kind \in Lifecycle, NEW r \in Resource,
           NEW pc \in {"before", "pre"}, Begin(s, kind, r, pc)
    PROVE  /\ sess' = [sess EXCEPT ![s] = sess'[s]] /\ sess'[s] \in CallState
           /\ sess'[s].pc = pc /\ sess'[s].call = sess[s].call + 1 /\ sess'[s].kind = kind
           /\ sess'[s].got = NoGuard /\ sess'[s].res = r /\ sess'[s].goal = "hold"
           /\ sess'[s].seen = guard[s] /\ sess'[s].ttl \in TTL
  <1>1. sess \in [Session -> CallState] /\ guard[s] \in Guard \cup {NoGuard}
    BY DEF TypeOK
  <1>2. sess[s].call \in 0 .. MaxCall /\ sess[s].call < MaxCall /\ MaxCall \in Nat
    BY MeType, LocksAssumption DEF Begin, Me
  <1>3. PICK ttl \in TTL : sess' = [sess EXCEPT ![s] =
            [Idle(Me(s).call + 1) EXCEPT !.pc = pc, !.kind = kind, !.res = r, !.ttl = ttl,
                                         !.seen = guard[s], !.goal = "hold"]]
    BY DEF Begin
  <1>4. sess'[s] = [pc |-> pc, call |-> sess[s].call + 1, kind |-> kind, res |-> r, ttl |-> ttl,
            seen |-> guard[s], goal |-> "hold", after |-> "idle", adm |-> NoClaim,
            mine |-> NoClaim, plan |-> NoPlan, out |-> "none", got |-> NoGuard]
    BY <1>1, <1>3 DEF Idle, Me
  <1>5. sess[s].call + 1 \in 0 .. MaxCall /\ pc \in PC /\ kind \in Kind /\ "none" \in Outcome
    BY <1>2 DEF PC, Lifecycle, Kind, Outcome
  <1>6. sess'[s] \in CallState
    BY <1>1, <1>4, <1>5 DEF CallState
  <1>. QED
    BY <1>1, <1>3, <1>4, <1>6

LEMMA AskedKept ==
    ASSUME TypeOK, NEW s \in Session, NEW r \in Resource, Asks(s, r)
    PROVE  asked' \in [Session -> SUBSET Resource]
  BY DEF TypeOK, Asks

LEMMA BeginStep ==
    ASSUME Inv, NEW s \in Session, NEW kind \in Lifecycle, NEW r \in Resource,
           NEW pc \in {"before", "pre"}, Begin(s, kind, r, pc),
           guard' \in [Session -> Guard \cup {NoGuard}]
    PROVE  Inv'
  <1>1. TypeOK
    BY DEF Inv
  <1>2. UNCHANGED <<Files, now, Failing, reply>> /\ Asks(s, r)
    BY DEF Begin
  <1>3. /\ sess' = [sess EXCEPT ![s] = sess'[s]] /\ sess'[s] \in CallState
        /\ sess'[s].pc = pc /\ sess'[s].call = sess[s].call + 1 /\ sess'[s].kind = kind
        /\ sess'[s].goal = "hold"
    BY <1>1, BeginFields
  <1>4. sess[s].call \in Nat
    BY <1>1, MeType
  <1>5. CallSound(sess'[s]) /\ sess'[s].pc \notin Planned
    BY <1>3, <1>4 DEF CallSound, Planned, Deciding
  <1>6. Local(s)
    BY <1>1, <1>2, AskedKept DEF Local, Failing, TypeOK
  <1>7. ClaimsWane /\ admission' \in Admission \cup {NoClaim}
    BY <1>1, <1>2, NothingMoves DEF Files, TypeOK
  <1>8. sess[s].call < sess'[s].call
    BY <1>3, <1>4
  <1>. QED
    BY <1>2, <1>3, <1>5, <1>6, <1>7, <1>8, CallStep DEF Files

LEMMA GuardRes ==
    ASSUME TypeOK, NEW s \in Session, guard[s] # NoGuard
    PROVE  guard[s].res \in Resource /\ guard \in [Session -> Guard \cup {NoGuard}]
  BY DEF TypeOK, Guard

LEMMA AcquireStep == ASSUME Inv, NEW s \in Session, NEW r \in Resource, Acquire(s, r) PROVE Inv'
  <1>1. guard' \in [Session -> Guard \cup {NoGuard}]
    BY DEF Acquire, Inv, TypeOK
  <1>. QED
    BY <1>1, BeginStep DEF Acquire, Lifecycle

LEMMA RenewStep == ASSUME Inv, NEW s \in Session, Renew(s) PROVE Inv'
  <1>1. guard[s].res \in Resource /\ guard' \in [Session -> Guard \cup {NoGuard}]
    BY GuardRes DEF Renew, Owns, Inv
  <1>. QED
    BY <1>1, BeginStep DEF Renew, Lifecycle

LEMMA ReleaseStep == ASSUME Inv, NEW s \in Session, Release(s) PROVE Inv'
  <1>1. guard[s].res \in Resource /\ guard' \in [Session -> Guard \cup {NoGuard}]
    BY GuardRes DEF Release, Owns, Inv
  <1>. QED
    BY <1>1, BeginStep DEF Release, Lifecycle

LEMMA TakeoverStep == ASSUME Inv, NEW s \in Session, Takeover(s) PROVE Inv'
  <1>1. guard[s].res \in Resource /\ guard' \in [Session -> Guard \cup {NoGuard}]
    BY GuardRes DEF Takeover, Inv
  <1>. QED
    BY <1>1, BeginStep DEF Takeover, Lifecycle

LEMMA InspectStep == ASSUME Inv, NEW s \in Session, NEW r \in Resource, Inspect(s, r) PROVE Inv'
  <1>. DEFINE seen == IF Marked(r) THEN "recovery_required" ELSE Look(s, r)
              view == IF seen \in Unreadable THEN guard[s] ELSE CurrentGuard(r)
  <1>1. /\ TypeOK /\ sess[s].pc = "idle" /\ sess[s].call < MaxCall
        /\ UNCHANGED <<Files, now, Failing>> /\ Asks(s, r)
    BY DEF Inv, Inspect, At, Me
  <1>2. seen \in Outcome
    BY LookType, OutcomeNames
  <1>3. view \in Guard \cup {NoGuard}
    BY <1>1, CurrentGuardType DEF TypeOK
  <1>4. /\ reply' = [reply EXCEPT ![s] = [kind |-> "inspect", res |-> r, out |-> seen]]
        /\ guard' = [guard EXCEPT ![s] = view]
        /\ sess' = [sess EXCEPT ![s].call = @ + 1]
    BY DEF Inspect
  <1>5. [kind |-> "inspect", res |-> r, out |-> seen] \in [kind : Kind, res : Resource, out : Outcome]
    BY <1>2 DEF Kind
  <1>. HIDE DEF seen, view
  <1>6. Local(s)
    BY <1>1, <1>3, <1>4, <1>5, AskedKept DEF Local, Failing, TypeOK
  <1>7. sess \in [Session -> CallState] /\ sess[s] \in CallState /\ sess[s].call \in 0 .. MaxCall
    BY <1>1, MeType
  <1>8. sess[s].call + 1 \in 0 .. MaxCall
    BY <1>1, <1>7, LocksAssumption
  <1>9. sess'[s] = [sess[s] EXCEPT !.call = sess[s].call + 1] /\ sess' = [sess EXCEPT ![s] = sess'[s]]
    BY <1>4, <1>7
  <1>10. sess'[s] \in CallState
    BY <1>7, <1>8, <1>9 DEF CallState
  <1>11. sess'[s].pc = "idle" /\ sess'[s].call = sess[s].call + 1
    BY <1>1, <1>7, <1>9 DEF CallState
  <1>12. CallSound(sess'[s]) /\ sess'[s].pc \notin Planned
    BY <1>11 DEF CallSound, Planned, Deciding
  <1>13. ClaimsWane /\ admission' \in Admission \cup {NoClaim}
    BY <1>1, NothingMoves DEF Files, TypeOK
  <1>14. sess[s].call < sess'[s].call
    BY <1>7, <1>11
  <1>. QED
    BY <1>1, <1>6, <1>9, <1>10, <1>12, <1>13, <1>14, CallStep DEF Files

LEMMA RecoverClaimStep ==
    ASSUME Inv, NEW s \in Session, NEW r \in Resource, RecoverClaim(s, r) PROVE Inv'
  <1>1. /\ TypeOK /\ sess[s].pc = "idle" /\ sess[s].call < MaxCall /\ claim[r] # NoClaim
        /\ UNCHANGED <<Files, now, Failing, guard, reply>> /\ Asks(s, r)
    BY DEF Inv, RecoverClaim, At, Me
  <1>2. sess \in [Session -> CallState] /\ sess[s] \in CallState /\ sess[s].call \in 0 .. MaxCall
    BY <1>1, MeType
  <1>3. sess[s].call + 1 \in 0 .. MaxCall /\ claim[r] \in Claim
    BY <1>1, <1>2, LocksAssumption DEF TypeOK
  <1>4. /\ sess' = [sess EXCEPT ![s] = sess'[s]]
        /\ sess'[s] = [pc |-> "admit", call |-> sess[s].call + 1, kind |-> "recover", res |-> r,
            ttl |-> 0, seen |-> NoGuard, goal |-> "reclaim", after |-> "idle", adm |-> NoClaim,
            mine |-> claim[r], plan |-> NoPlan, out |-> "none", got |-> NoGuard]
    BY <1>2 DEF RecoverClaim, Idle, Me
  <1>5. sess'[s] \in CallState
    BY <1>3, <1>4, OutcomeNames DEF CallState, PC, Kind
  <1>6. CallSound(sess'[s]) /\ sess'[s].pc \notin Planned
    BY <1>2, <1>4 DEF CallSound, Planned, Deciding
  <1>7. ClaimsWane /\ admission' \in Admission \cup {NoClaim} /\ Local(s)
    BY <1>1, NothingMoves, AskedKept DEF Files, Failing, Local, TypeOK
  <1>8. sess[s].call < sess'[s].call
    BY <1>2, <1>4
  <1>. QED
    BY <1>1, <1>4, <1>5, <1>6, <1>7, <1>8, CallStep DEF Files

LEMMA BeforeStep == ASSUME Inv, NEW s \in Session, Before(s) PROVE Inv'
  <1>. DEFINE r == sess[s].res
              saw == IF Marked(r) THEN "recovery_required" ELSE Look(s, r)
  <1>1. TypeOK /\ sess[s].pc = "before" /\ UNCHANGED <<Files, World>> /\ CallSound(sess[s])
    BY DEF Inv, Before, At, Calls
  <1>2. /\ ~Holding(sess[s]) /\ sess[s].kind \in Lifecycle /\ r \in Resource
        /\ sess[s].call >= 1 /\ sess[s].goal = "hold"
    BY <1>1, MeType DEF Holding, CallSound, Deciding
  <1>3. /\ ClaimsWane /\ admission' \in Admission \cup {NoClaim}
        /\ UNCHANGED <<claim, trail, lease, txs>>
    BY <1>1, NothingMoves DEF Files, TypeOK
  <1>4. CASE \E out \in Outcome : Return(s, out)
    BY <1>1, <1>2, <1>3, <1>4, ReturnStep
  <1>5. CASE Goto(s, "pre") /\ UNCHANGED <<guard, reply>>
    <2>1. "pre" \in PC /\ "pre" \notin Planned
      BY DEF PC, Planned
    <2>2. /\ sess'[s].pc = "pre" /\ sess'[s].call = sess[s].call /\ sess'[s].kind = sess[s].kind
          /\ sess'[s].goal = sess[s].goal
      BY <1>1, <1>5, <2>1, GotoFields
    <2>3. CallSound(sess'[s]) /\ Keeps(s)
      BY <1>1, <1>2, <2>2 DEF CallSound, Keeps, Planned, Deciding
    <2>. QED
      BY <1>1, <1>3, <1>5, <2>1, <2>3, GotoStep
  <1>6. CASE /\ sess' = [sess EXCEPT ![s].pc = "pre", ![s].seen = CurrentGuard(r)]
             /\ UNCHANGED <<guard, reply>>
    <2>1. sess \in [Session -> CallState] /\ sess[s] \in CallState
      BY <1>1, MeType
    <2>2. CurrentGuard(r) \in Guard \cup {NoGuard} /\ "pre" \in PC
      BY <1>1, <1>2, CurrentGuardType DEF PC
    <2>3. /\ sess' = [sess EXCEPT ![s] = sess'[s]]
          /\ sess'[s] = [sess[s] EXCEPT !.pc = "pre", !.seen = CurrentGuard(r)]
      BY <1>6, <2>1
    <2>4. sess'[s] \in CallState
      BY <2>1, <2>2, <2>3 DEF CallState
    <2>5. /\ sess'[s].pc = "pre" /\ sess'[s].call = sess[s].call /\ sess'[s].kind = sess[s].kind
          /\ sess'[s].goal = sess[s].goal
      BY <2>1, <2>3 DEF CallState
    <2>6. CallSound(sess'[s]) /\ Keeps(s) /\ sess'[s].pc \notin Planned
      BY <1>1, <1>2, <2>5 DEF CallSound, Keeps, Planned, Deciding
    <2>7. Local(s)
      BY <1>1, <1>6, LocalKept
    <2>. QED
      BY <1>1, <1>3, <2>3, <2>4, <2>5, <2>6, <2>7, CallStep
  <1>7. saw \in Outcome /\ "conflict" \in Outcome /\ "released" \in Outcome
    BY LookType, OutcomeNames
  <1>. QED
    <2>1. \/ Return(s, saw) \/ Return(s, "conflict") \/ Return(s, "released")
          \/ Goto(s, "pre") /\ UNCHANGED <<guard, reply>>
          \/ /\ sess' = [sess EXCEPT ![s].pc = "pre", ![s].seen = CurrentGuard(r)]
             /\ UNCHANGED <<guard, reply>>
      BY DEF Before, Me
    <2>. QED
      BY <1>4, <1>5, <1>6, <1>7, <2>1

LEMMA PreAdmissionStep == ASSUME Inv, NEW s \in Session, PreAdmission(s) PROVE Inv'
  <1>1. TypeOK /\ sess[s].pc = "pre" /\ UNCHANGED <<Files, World>> /\ CallSound(sess[s])
    BY DEF Inv, PreAdmission, At, Calls
  <1>2. /\ ~Holding(sess[s]) /\ sess[s].kind \in Lifecycle /\ sess[s].call >= 1
        /\ sess[s].goal = "hold"
    BY <1>1, MeType DEF Holding, CallSound, Deciding
  <1>3. /\ ClaimsWane /\ admission' \in Admission \cup {NoClaim}
        /\ UNCHANGED <<claim, trail, lease, txs>>
    BY <1>1, NothingMoves DEF Files, TypeOK
  <1>4. CASE \E out \in Outcome : Return(s, out)
    BY <1>1, <1>2, <1>3, <1>4, ReturnStep
  <1>5. CASE Goto(s, "admit") /\ UNCHANGED <<guard, reply>>
    <2>1. "admit" \in PC /\ "admit" \notin Planned
      BY DEF PC, Planned
    <2>2. /\ sess'[s].pc = "admit" /\ sess'[s].call = sess[s].call /\ sess'[s].kind = sess[s].kind
          /\ sess'[s].goal = sess[s].goal
      BY <1>1, <1>5, <2>1, GotoFields
    <2>3. CallSound(sess'[s]) /\ Keeps(s)
      BY <1>1, <1>2, <2>2 DEF CallSound, Keeps, Planned, Deciding
    <2>. QED
      BY <1>1, <1>3, <1>5, <2>1, <2>3, GotoStep
  <1>6. Look(s, sess[s].res) \in Outcome /\ "conflict" \in Outcome
    BY LookType, OutcomeNames
  <1>. QED
    <2>1. \/ Return(s, Look(s, sess[s].res)) \/ Return(s, "conflict")
          \/ Goto(s, "admit") /\ UNCHANGED <<guard, reply>>
      BY DEF PreAdmission, Me
    <2>. QED
      BY <1>4, <1>5, <1>6, <2>1

LEMMA AdmitStep == ASSUME Inv, NEW s \in Session, Admit(s) PROVE Inv'
  <1>1. TypeOK /\ sess[s].pc = "admit" /\ UNCHANGED <<claim, trail, lease, txs, World>>
        /\ CallSound(sess[s])
    BY DEF Inv, Admit, At, Calls
  <1>2. /\ sess[s].call >= 1 /\ sess[s].goal \in {"hold", "unclaim", "reclaim"}
        /\ sess[s].goal # "reclaim" => sess[s].kind \in Lifecycle
    BY <1>1 DEF CallSound
  <1>3. ClaimsWane
    BY <1>1, NothingMoves
  <1>4. CASE Goto(s, "elect") /\ UNCHANGED <<guard, reply>> /\ admission' = NoClaim
    <2>1. "elect" \in PC /\ "elect" \notin Planned
      BY DEF PC, Planned
    <2>2. /\ sess'[s].pc = "elect" /\ sess'[s].call = sess[s].call /\ sess'[s].kind = sess[s].kind
          /\ sess'[s].goal = sess[s].goal /\ sess'[s].res = sess[s].res
          /\ sess'[s].mine = sess[s].mine
      BY <1>1, <1>4, <2>1, GotoFields
    <2>3. CallSound(sess'[s])
      BY <1>2, <2>2 DEF CallSound, Planned, Deciding
    <2>4. Keeps(s)
      BY <1>1, <2>2 DEF Keeps, Holding, Deciding
    <2>. QED
      BY <1>1, <1>3, <1>4, <2>1, <2>3, <2>4, GotoStep
  <1>5. CASE Goto(s, sess[s].goal) /\ UNCHANGED <<admission, guard, reply>>
    <2>1. sess[s].goal \in PC /\ sess[s].goal \notin Planned
      BY <1>2 DEF PC, Planned
    <2>2. /\ sess'[s].pc = sess[s].goal /\ sess'[s].call = sess[s].call
          /\ sess'[s].kind = sess[s].kind /\ sess'[s].res = sess[s].res
          /\ sess'[s].mine = sess[s].mine
      BY <1>1, <1>5, <2>1, GotoFields
    <2>3. CallSound(sess'[s])
      BY <1>2, <2>1, <2>2 DEF CallSound, Deciding
    <2>4. Keeps(s)
      BY <1>1, <1>2, <2>2 DEF Keeps, Holding, Deciding
    <2>5. admission' \in Admission \cup {NoClaim}
      BY <1>1, <1>5 DEF TypeOK
    <2>. QED
      BY <1>1, <1>3, <1>5, <2>1, <2>3, <2>4, <2>5, GotoStep
  <1>6. CASE Return(s, Blocked[sess[s].goal]) /\ UNCHANGED admission
    <2>1. Blocked[sess[s].goal] \in Outcome
      BY <1>2, OutcomeNames DEF Blocked
    <2>2. ~Holding(sess[s]) \/ Blocked[sess[s].goal] = "recovery_required"
      BY <1>1, <1>2 DEF Holding, Deciding, Blocked
    <2>3. admission' \in Admission \cup {NoClaim}
      BY <1>1, <1>6 DEF TypeOK
    <2>. QED
      BY <1>1, <1>6, <2>1, <2>2, <2>3, ReturnStep
  <1>. QED
    BY <1>4, <1>5, <1>6 DEF Admit, Me

LEMMA RecordType ==
    ASSUME Inv, NEW s \in Session, sess[s].pc = "elect"
    PROVE  AdmissionRecord(s) \in Admission
  <1>1. TypeOK /\ sess[s].call >= 1
    BY DEF Inv, Calls, CallSound
  <1>2. /\ sess \in [Session -> CallState] /\ sess[s] \in CallState /\ Me(s) = sess[s]
        /\ sess[s].call \in 1 .. MaxCall /\ sess[s].res \in Resource
    BY <1>1, MeType
  <1>3. Clock(s) + ClaimTTL \in Nat
    BY <1>1, ClockType, LocksAssumption
  <1>. QED
    BY <1>2, <1>3 DEF Admission, AdmissionRecord

LEMMA ElectStep == ASSUME Inv, NEW s \in Session, Elect(s) PROVE Inv'
  <1>. DEFINE record == AdmissionRecord(s)
  <1>1. TypeOK /\ sess[s].pc = "elect" /\ UNCHANGED <<claim, trail, lease, txs, World, guard, reply>>
        /\ CallSound(sess[s])
    BY DEF Inv, Elect, At, Calls
  <1>2. /\ sess[s].call >= 1 /\ sess[s].goal \in {"hold", "unclaim", "reclaim"}
        /\ sess[s].goal # "reclaim" => sess[s].kind \in Lifecycle
    BY <1>1 DEF CallSound
  <1>3. ClaimsWane
    BY <1>1, NothingMoves
  <1>4. /\ sess \in [Session -> CallState] /\ sess[s] \in CallState /\ Me(s) = sess[s]
        /\ sess[s].call \in 1 .. MaxCall /\ sess[s].res \in Resource
    BY <1>1, <1>2, MeType
  <1>5. record \in Admission
    BY <1>1, RecordType
  <1>6. \/ /\ admission' = record
           /\ sess' = [sess EXCEPT ![s].pc = sess[s].goal, ![s].adm = record]
        \/ Goto(s, "again") /\ UNCHANGED admission
    BY <1>4 DEF Elect
  <1>. HIDE DEF record
  <1>7. CASE Goto(s, "again") /\ UNCHANGED admission
    <2>1. "again" \in PC /\ "again" \notin Planned
      BY DEF PC, Planned
    <2>2. /\ sess'[s].pc = "again" /\ sess'[s].call = sess[s].call /\ sess'[s].kind = sess[s].kind
          /\ sess'[s].goal = sess[s].goal /\ sess'[s].res = sess[s].res
          /\ sess'[s].mine = sess[s].mine
      BY <1>1, <1>7, <2>1, GotoFields
    <2>3. CallSound(sess'[s])
      BY <1>2, <2>2 DEF CallSound, Planned, Deciding
    <2>4. Keeps(s)
      BY <1>1, <2>2 DEF Keeps, Holding, Deciding
    <2>5. admission' \in Admission \cup {NoClaim}
      BY <1>1, <1>7 DEF TypeOK
    <2>. QED
      BY <1>1, <1>3, <1>7, <2>1, <2>3, <2>4, <2>5, GotoStep
  <1>8. CASE /\ admission' = record
             /\ sess' = [sess EXCEPT ![s].pc = sess[s].goal, ![s].adm = record]
    <2>1. sess[s].goal \in PC /\ sess[s].goal \notin Planned
      BY <1>2 DEF PC, Planned
    <2>2. /\ sess' = [sess EXCEPT ![s] = sess'[s]]
          /\ sess'[s] = [sess[s] EXCEPT !.pc = sess[s].goal, !.adm = record]
      BY <1>4, <1>8
    <2>3. sess'[s] \in CallState
      BY <1>4, <1>5, <2>1, <2>2 DEF CallState
    <2>4. /\ sess'[s].pc = sess[s].goal /\ sess'[s].call = sess[s].call
          /\ sess'[s].kind = sess[s].kind /\ sess'[s].res = sess[s].res
          /\ sess'[s].mine = sess[s].mine
      BY <1>4, <2>2 DEF CallState
    <2>5. CallSound(sess'[s])
      BY <1>2, <2>1, <2>4 DEF CallSound, Deciding
    <2>6. Keeps(s)
      BY <1>1, <1>2, <2>4 DEF Keeps, Holding, Deciding
    <2>7. Local(s)
      BY <1>1, LocalKept
    <2>. QED
      BY <1>1, <1>3, <1>5, <1>8, <2>1, <2>2, <2>3, <2>4, <2>5, <2>6, <2>7, CallStep
  <1>. QED
    BY <1>6, <1>7, <1>8

LEMMA AgainStep == ASSUME Inv, NEW s \in Session, Again(s) PROVE Inv'
  <1>1. TypeOK /\ sess[s].pc = "again" /\ UNCHANGED <<claim, trail, lease, txs, World>>
        /\ CallSound(sess[s])
    BY DEF Inv, Again, At, Calls
  <1>2. /\ sess[s].call >= 1 /\ sess[s].goal \in {"hold", "unclaim", "reclaim"}
        /\ sess[s].goal # "reclaim" => sess[s].kind \in Lifecycle
    BY <1>1 DEF CallSound
  <1>3. ClaimsWane /\ admission' \in Admission \cup {NoClaim}
    BY <1>1, NothingMoves DEF Again, TypeOK
  <1>4. ASSUME NEW pc \in {"admit", sess[s].goal}, Goto(s, pc), UNCHANGED <<guard, reply>> PROVE Inv'
    <2>1. pc \in PC /\ pc \notin Planned
      BY <1>2 DEF PC, Planned
    <2>2. /\ sess'[s].pc = pc /\ sess'[s].call = sess[s].call /\ sess'[s].kind = sess[s].kind
          /\ sess'[s].goal = sess[s].goal /\ sess'[s].res = sess[s].res
          /\ sess'[s].mine = sess[s].mine
      BY <1>1, <1>4, <2>1, GotoFields
    <2>3. CallSound(sess'[s])
      BY <1>2, <2>2 DEF CallSound, Planned, Deciding
    <2>4. Keeps(s)
      BY <1>1, <1>2, <2>2 DEF Keeps, Holding, Deciding
    <2>. QED
      BY <1>1, <1>3, <1>4, <2>1, <2>3, <2>4, GotoStep
  <1>5. CASE Return(s, Unexplained[sess[s].goal])
    <2>1. Unexplained[sess[s].goal] \in Outcome
      BY <1>2, OutcomeNames DEF Unexplained
    <2>2. ~Holding(sess[s]) \/ Unexplained[sess[s].goal] = "recovery_required"
      BY <1>1, <1>2 DEF Holding, Deciding, Unexplained
    <2>. QED
      BY <1>1, <1>3, <1>5, <2>1, <2>2, ReturnStep
  <1>. QED
    BY <1>4, <1>5 DEF Again, Me

LEMMA BuildFailsStep == ASSUME Inv, NEW s \in Session, BuildFails(s) PROVE Inv'
  <1>1. /\ TypeOK /\ sess[s].pc = "elect" /\ UNCHANGED <<claim, trail, lease, txs, now, asked>>
        /\ failures < MaxFailure /\ failures' = failures + 1 /\ unbuilt' = unbuilt \cup {s}
        /\ CallSound(sess[s])
    BY DEF Inv, BuildFails, At, Calls
  <1>2. sess[s].goal \in {"hold", "unclaim", "reclaim"}
    BY <1>1 DEF CallSound
  <1>3. admission' \in Admission \cup {NoClaim}
    BY <1>1, RecordType DEF BuildFails, TypeOK
  <1>4. PICK out \in {Unexplained[sess[s].goal], Blocked[sess[s].goal]} : Return(s, out)
    BY DEF BuildFails, Me
  <1>5. out \in Outcome
    BY <1>2, <1>4, OutcomeNames DEF Unexplained, Blocked
  <1>6. ~Holding(sess[s]) \/ out = "recovery_required"
    BY <1>1, <1>2, <1>4 DEF Holding, Deciding, Unexplained, Blocked
  <1>7. Local(s)
    <2>1. failures' \in 0 .. MaxFailure
      BY <1>1, LocksAssumption DEF TypeOK
    <2>2. asked' \in [Session -> SUBSET Resource] /\ unbuilt' \subseteq Session
      BY <1>1 DEF TypeOK
    <2>. QED
      BY <1>1, <1>4, <1>5, <2>1, <2>2, ReturnFields DEF Local
  <1>. QED
    BY <1>1, <1>3, <1>4, <1>5, <1>6, <1>7, ReturnsStep

LEMMA LeaveAdmissionStep == ASSUME Inv, NEW s \in Session, LeaveAdmission(s) PROVE Inv'
  <1>1. TypeOK /\ sess[s].pc = "leave" /\ UNCHANGED <<claim, trail, lease, txs, World>>
        /\ CallSound(sess[s]) /\ Me(s) = sess[s]
    BY DEF Inv, LeaveAdmission, At, Calls, Me
  <1>2. admission' \in Admission \cup {NoClaim}
    BY <1>1 DEF LeaveAdmission, TypeOK
  <1>3. /\ sess[s].call >= 1 /\ sess[s].after \in {"idle", "decide"} /\ sess[s].out \in Outcome
        /\ sess \in [Session -> CallState] /\ sess[s] \in CallState
    BY <1>1, MeType DEF CallSound
  <1>4. CASE sess[s].after = "idle"
    <2>1. Return(s, sess[s].out)
      BY <1>1, <1>4 DEF LeaveAdmission
    <2>2. ~Holding(sess[s])
      BY <1>1, <1>4 DEF Holding, Deciding
    <2>. QED
      BY <1>1, <1>2, <1>3, <2>1, <2>2, ReturnStep
  <1>5. CASE sess[s].after = "decide"
    <2>1. /\ sess' = [sess EXCEPT ![s].pc = "decide", ![s].adm = NoClaim]
          /\ UNCHANGED <<guard, reply>>
      BY <1>1, <1>5 DEF LeaveAdmission
    <2>2. /\ sess' = [sess EXCEPT ![s] = sess'[s]]
          /\ sess'[s] = [sess[s] EXCEPT !.pc = "decide", !.adm = NoClaim]
      BY <1>3, <2>1
    <2>3. "decide" \in PC /\ "decide" \notin Planned
      BY DEF PC, Planned
    <2>4. sess'[s] \in CallState
      BY <1>3, <2>2, <2>3 DEF CallState
    <2>5. /\ sess'[s].pc = "decide" /\ sess'[s].call = sess[s].call /\ sess'[s].kind = sess[s].kind
          /\ sess'[s].res = sess[s].res /\ sess'[s].mine = sess[s].mine
      BY <1>3, <2>2 DEF CallState
    <2>6. CallSound(sess'[s])
      BY <1>1, <1>3, <1>5, <2>3, <2>5 DEF CallSound, Deciding
    <2>7. Keeps(s)
      BY <1>1, <2>5 DEF Keeps, Holding, Deciding
    <2>8. Local(s) /\ ClaimsWane
      BY <1>1, <2>1, LocalKept, NothingMoves
    <2>. QED
      BY <1>1, <1>2, <2>2, <2>3, <2>4, <2>5, <2>6, <2>7, <2>8, CallStep
  <1>. QED
    BY <1>3, <1>4, <1>5

LEMMA HoldStep == ASSUME Inv, NEW s \in Session, Hold(s) PROVE Inv'
  <1>. DEFINE r == sess[s].res
  <1>1. TypeOK /\ sess[s].pc = "hold" /\ UNCHANGED <<admission, trail, lease, txs, World, guard, reply>>
        /\ CallSound(sess[s]) /\ Me(s) = sess[s]
    BY DEF Inv, Hold, At, Calls, Me
  <1>2. /\ sess[s].call >= 1 /\ sess[s].kind \in Lifecycle /\ ~Holding(sess[s]) /\ r \in Resource
        /\ sess \in [Session -> CallState] /\ sess[s] \in CallState
        /\ admission' \in Admission \cup {NoClaim}
    BY <1>1, MeType DEF CallSound, Holding, Deciding, TypeOK
  <1>3. CASE HelpCleanup(r) /\ UNCHANGED sess
    <2>1. Local(s) /\ ClaimsWane
      BY <1>1, <1>2, <1>3, LocalKept, HelpWanes
    <2>2. /\ sess' = [sess EXCEPT ![s] = sess'[s]] /\ sess'[s] = sess[s] /\ sess'[s] \in CallState
      BY <1>2, <1>3
    <2>3. CallSound(sess'[s]) /\ sess'[s].pc \notin Planned /\ Keeps(s)
      BY <1>1, <1>2, <2>2 DEF Planned, Keeps
    <2>. QED
      BY <1>1, <1>2, <2>1, <2>2, <2>3, CallStep
  <1>4. CASE UNCHANGED claim /\ \E out \in Outcome : Leave(s, "idle", out)
    BY <1>1, <1>2, <1>4, NothingMoves, LeaveStep
  <1>5. CASE UNCHANGED claim /\ Goto(s, "family")
    <2>1. "family" \in PC /\ "family" \notin Planned
      BY DEF PC, Planned
    <2>2. /\ sess'[s].pc = "family" /\ sess'[s].call = sess[s].call /\ sess'[s].kind = sess[s].kind
      BY <1>1, <1>5, <2>1, GotoFields
    <2>3. CallSound(sess'[s]) /\ Keeps(s) /\ ClaimsWane
      BY <1>1, <1>2, <1>5, <2>1, <2>2, NothingMoves DEF CallSound, Keeps, Deciding
    <2>. QED
      BY <1>1, <1>2, <1>5, <2>1, <2>3, GotoStep
  <1>6. Look(s, r) \in Outcome /\ "conflict" \in Outcome
    BY LookType, OutcomeNames
  <1>. QED
    <2>1. \/ HelpCleanup(r) /\ UNCHANGED sess
          \/ UNCHANGED claim /\ (Leave(s, "idle", Look(s, r)) \/ Leave(s, "idle", "conflict"))
          \/ UNCHANGED claim /\ Goto(s, "family")
      BY <1>1 DEF Hold
    <2>. QED
      BY <1>3, <1>4, <1>5, <1>6, <2>1

LEMMA CheckFamilyStep == ASSUME Inv, NEW s \in Session, CheckFamily(s) PROVE Inv'
  <1>1. TypeOK /\ sess[s].pc = "family" /\ UNCHANGED <<Files, World, guard, reply>>
        /\ CallSound(sess[s]) /\ Me(s) = sess[s]
    BY DEF Inv, CheckFamily, At, Calls, Me
  <1>2. /\ sess[s].call >= 1 /\ sess[s].kind \in Lifecycle /\ ~Holding(sess[s])
        /\ admission' \in Admission \cup {NoClaim}
        /\ UNCHANGED <<admission, claim, trail, lease, txs>>
    BY <1>1 DEF CallSound, Holding, Deciding, TypeOK, Files
  <1>3. CASE \E out \in Outcome : Leave(s, "idle", out)
    BY <1>1, <1>2, <1>3, NothingMoves, LeaveStep
  <1>4. CASE Goto(s, "claim")
    <2>1. "claim" \in PC /\ "claim" \notin Planned
      BY DEF PC, Planned
    <2>2. /\ sess'[s].pc = "claim" /\ sess'[s].call = sess[s].call /\ sess'[s].kind = sess[s].kind
      BY <1>1, <1>4, <2>1, GotoFields
    <2>3. CallSound(sess'[s]) /\ Keeps(s) /\ ClaimsWane
      BY <1>1, <1>2, <2>1, <2>2, NothingMoves DEF CallSound, Keeps, Deciding
    <2>. QED
      BY <1>1, <1>2, <1>4, <2>1, <2>3, GotoStep
  <1>5. \A q : Look(s, q) \in Outcome
    BY LookType
  <1>. QED
    BY <1>3, <1>4, <1>5, OutcomeNames DEF CheckFamily

LEMMA TakeClaimStep == ASSUME Inv, NEW s \in Session, TakeClaim(s) PROVE Inv'
  <1>. DEFINE r == sess[s].res
              record == [by |-> s, call |-> sess[s].call, expires |-> Clock(s) + ClaimTTL,
                         marked |-> FALSE]
  <1>1. TypeOK /\ sess[s].pc = "claim" /\ UNCHANGED <<admission, trail, lease, txs, World, guard, reply>>
        /\ CallSound(sess[s]) /\ Me(s) = sess[s]
    BY DEF Inv, TakeClaim, At, Calls, Me
  <1>2. /\ sess[s].call \in 1 .. MaxCall /\ sess[s].kind \in Lifecycle /\ ~Holding(sess[s])
        /\ sess \in [Session -> CallState] /\ sess[s] \in CallState /\ r \in Resource
        /\ admission' \in Admission \cup {NoClaim}
    BY <1>1, MeType DEF CallSound, Holding, Deciding, TypeOK
  <1>3. CASE Leave(s, "idle", "conflict") /\ UNCHANGED claim
    BY <1>1, <1>2, <1>3, NothingMoves, LeaveStep, OutcomeNames
  <1>4. CASE /\ claim[r] = NoClaim
             /\ claim' = [claim EXCEPT ![r] = record]
             /\ sess' = [sess EXCEPT ![s].pc = "leave", ![s].after = "decide", ![s].mine = record]
    <2>1. record \in Claim
      <3>1. Clock(s) + ClaimTTL \in Nat
        BY <1>1, ClockType, LocksAssumption
      <3>. QED
        BY <1>2, <3>1 DEF Claim
    <2>2. record.by = s /\ record.call = sess[s].call
      OBVIOUS
    <2>. HIDE DEF record
    <2>3. /\ sess' = [sess EXCEPT ![s] = sess'[s]]
          /\ sess'[s] = [sess[s] EXCEPT !.pc = "leave", !.after = "decide", !.mine = record]
      BY <1>2, <1>4
    <2>4. "leave" \in PC /\ "leave" \notin Planned
      BY DEF PC, Planned
    <2>5. sess'[s] \in CallState
      BY <1>2, <2>1, <2>3, <2>4 DEF CallState
    <2>6. /\ sess'[s].pc = "leave" /\ sess'[s].after = "decide" /\ sess'[s].mine = record
          /\ sess'[s].call = sess[s].call /\ sess'[s].kind = sess[s].kind /\ sess'[s].res = r
      BY <1>2, <2>3 DEF CallState
    <2>7. CallSound(sess'[s]) /\ Drives(s)'
      BY <1>2, <2>4, <2>6, NothingDriven DEF CallSound, Deciding
    <2>8. sess' \in [Session -> CallState] /\ Calls' /\ Plans' /\ Driven' /\ Filed'
      BY <1>1, <2>3, <2>4, <2>5, <2>6, <2>7, Moves
    <2>9. claim \in [Resource -> Claim \cup {NoClaim}]
      BY <1>1 DEF TypeOK
    <2>10. claim' \in [Resource -> Claim \cup {NoClaim}]
      BY <1>4, <2>1, <2>9
    <2>11. TypeOK'
      BY <1>1, <1>2, <2>8, <2>10 DEF TypeOK, World, Failing
    <2>12. ClaimsHeld'
      <3>. SUFFICES ASSUME NEW q \in Resource, claim'[q] # NoClaim PROVE Claimed(q)'
        BY DEF ClaimsHeld, Claimed
      <3>1. CASE q = r
        <4>1. claim'[q] = record
          BY <1>4, <2>9, <3>1
        <4>2. Holding(sess'[s])
          BY <2>6 DEF Holding
        <4>. QED
          BY <1>2, <2>2, <2>6, <3>1, <4>1, <4>2 DEF Claimed, Holding
      <3>2. CASE q # r
        <4>1. claim'[q] = claim[q] /\ claim[q] \in Claim /\ claim[q] # NoClaim
          BY <1>4, <2>9, <3>2
        <4>2. Claimed(q) /\ claim[q].by \in Session /\ claim[q].call \in Nat
          BY <4>1 DEF Inv, ClaimsHeld, Claim
        <4>3. CASE claim[q].by # s
          <5>1. sess'[claim[q].by] = sess[claim[q].by]
            BY <1>2, <2>3, <4>2, <4>3
          <5>. QED
            BY <1>1, <4>1, <4>2, <5>1 DEF Claimed, Holding
        <4>4. CASE claim[q].by = s
          <5>1. claim[q].call <= sess[s].call /\ claim[q].call # sess[s].call
            BY <1>1, <1>2, <4>1, <4>2, <4>4 DEF Claimed
          <5>. QED
            BY <2>6, <4>1, <4>4, <5>1 DEF Claimed
        <4>. QED
          BY <4>3, <4>4
      <3>. QED
        BY <3>1, <3>2
    <2>. QED
      BY <2>8, <2>11, <2>12 DEF Inv
  <1>. QED
    BY <1>1, <1>3, <1>4 DEF TakeClaim

LEMMA UnclaimStep == ASSUME Inv, NEW s \in Session, Unclaim(s) PROVE Inv'
  <1>. DEFINE r == sess[s].res
  <1>1. /\ TypeOK /\ sess[s].pc = "unclaim"
        /\ UNCHANGED <<admission, trail, lease, txs, World, guard, reply>>
        /\ CallSound(sess[s]) /\ Me(s) = sess[s]
    BY DEF Inv, Unclaim, At, Calls, Me
  <1>2. /\ sess[s].call >= 1 /\ sess[s].kind \in Lifecycle /\ r \in Resource
        /\ sess \in [Session -> CallState] /\ sess[s] \in CallState /\ sess[s].out \in Outcome
        /\ admission' \in Admission \cup {NoClaim}
    BY <1>1, MeType DEF CallSound, Deciding, TypeOK
  <1>3. CASE HelpCleanup(r) /\ Leave(s, "idle", sess[s].out)
    BY <1>1, <1>2, <1>3, HelpWanes, LeaveStep
  <1>4. CASE HelpCleanup(r) /\ UNCHANGED sess
    <2>1. Local(s) /\ ClaimsWane /\ claim'[r] = NoClaim
      BY <1>1, <1>2, <1>4, LocalKept, HelpWanes
    <2>2. /\ sess' = [sess EXCEPT ![s] = sess'[s]] /\ sess'[s] = sess[s] /\ sess'[s] \in CallState
      BY <1>2, <1>4
    <2>3. CallSound(sess'[s]) /\ sess'[s].pc \notin Planned /\ Keeps(s)
      BY <1>1, <1>2, <2>1, <2>2 DEF Planned, Keeps
    <2>. QED
      BY <1>1, <1>2, <2>1, <2>2, <2>3, CallStep
  <1>5. CASE /\ IsMine(s, r) /\ claim' = [claim EXCEPT ![r].marked = TRUE] /\ Goto(s, "unmark")
    <2>1. "unmark" \in PC /\ "unmark" \notin Planned /\ ClaimsWane
      BY <1>1, <1>2, <1>5, MarkingWanes DEF PC, Planned, IsMine
    <2>2. /\ sess'[s].pc = "unmark" /\ sess'[s].call = sess[s].call /\ sess'[s].kind = sess[s].kind
          /\ sess'[s].res = sess[s].res /\ sess'[s].mine = sess[s].mine
      BY <1>1, <1>5, <2>1, GotoFields
    <2>3. CallSound(sess'[s])
      BY <1>2, <2>1, <2>2 DEF CallSound, Deciding
    <2>4. Keeps(s)
      BY <1>2, <2>2 DEF Keeps, Holding, Lifecycle
    <2>. QED
      BY <1>1, <1>2, <1>5, <2>1, <2>3, <2>4, GotoStep
  <1>6. CASE ~IsMine(s, r) /\ UNCHANGED claim /\ Leave(s, "idle", "recovery_required")
    BY <1>1, <1>2, <1>6, NothingMoves, LeaveStep, OutcomeNames
  <1>. QED
    BY <1>1, <1>3, <1>4, <1>5, <1>6 DEF Unclaim

LEMMA UnmarkStep == ASSUME Inv, NEW s \in Session, Unmark(s) PROVE Inv'
  <1>. DEFINE r == sess[s].res
  <1>1. /\ TypeOK /\ sess[s].pc = "unmark"
        /\ UNCHANGED <<admission, trail, lease, txs, World, guard, reply>>
        /\ CallSound(sess[s]) /\ Me(s) = sess[s]
    BY DEF Inv, Unmark, At, Calls, Me
  <1>2. r \in Resource /\ sess[s].out \in Outcome
    BY <1>1, MeType
  <1>3. CASE HelpCleanup(r) /\ Leave(s, "idle", sess[s].out)
    BY <1>1, <1>2, <1>3, HelpWanes, LeaveStep
  <1>4. CASE /\ ~IsMine(s, r) /\ UNCHANGED claim
             /\ \E out \in Outcome : Leave(s, "idle", out)
    BY <1>1, <1>2, <1>4, NothingMoves, LeaveStep
  <1>. QED
    BY <1>1, <1>3, <1>4, OutcomeNames DEF Unmark

LEMMA ReclaimStep == ASSUME Inv, NEW s \in Session, Reclaim(s) PROVE Inv'
  <1>. DEFINE r == sess[s].res
  <1>1. /\ TypeOK /\ sess[s].pc = "reclaim"
        /\ UNCHANGED <<admission, trail, lease, txs, World, guard, reply>>
        /\ CallSound(sess[s]) /\ Me(s) = sess[s]
    BY DEF Inv, Reclaim, At, Calls, Me
  <1>2. /\ r \in Resource /\ ~Holding(sess[s]) /\ sess[s].call >= 1
        /\ sess \in [Session -> CallState] /\ sess[s] \in CallState
        /\ admission' \in Admission \cup {NoClaim}
    BY <1>1, MeType DEF CallSound, Holding, Deciding, TypeOK
  <1>3. CASE HelpCleanup(r) /\ Leave(s, "idle", "recovered")
    BY <1>1, <1>2, <1>3, HelpWanes, LeaveStep, OutcomeNames
  <1>4. CASE HelpCleanup(r) /\ UNCHANGED sess
    <2>1. Local(s) /\ ClaimsWane
      BY <1>1, <1>2, <1>4, LocalKept, HelpWanes
    <2>2. /\ sess' = [sess EXCEPT ![s] = sess'[s]] /\ sess'[s] = sess[s] /\ sess'[s] \in CallState
      BY <1>2, <1>4
    <2>3. CallSound(sess'[s]) /\ sess'[s].pc \notin Planned /\ Keeps(s)
      BY <1>1, <1>2, <2>2 DEF Planned, Keeps
    <2>. QED
      BY <1>1, <1>2, <2>1, <2>2, <2>3, CallStep
  <1>5. CASE UNCHANGED claim /\ \E out \in Outcome : Leave(s, "idle", out)
    BY <1>1, <1>2, <1>5, NothingMoves, LeaveStep
  <1>6. CASE /\ claim[r] # NoClaim /\ claim' = [claim EXCEPT ![r].marked = TRUE]
             /\ sess' = [sess EXCEPT ![s].pc = "unmark", ![s].out = "recovered"]
    <2>1. "unmark" \in PC /\ "unmark" \notin Planned /\ "recovered" \in Outcome
      BY OutcomeNames DEF PC, Planned
    <2>2. ClaimsWane /\ Local(s)
      BY <1>1, <1>2, <1>6, MarkingWanes, LocalKept
    <2>3. /\ sess' = [sess EXCEPT ![s] = sess'[s]]
          /\ sess'[s] = [sess[s] EXCEPT !.pc = "unmark", !.out = "recovered"]
      BY <1>2, <1>6
    <2>4. sess'[s] \in CallState
      BY <1>2, <2>1, <2>3 DEF CallState
    <2>5. sess'[s].pc = "unmark" /\ sess'[s].call = sess[s].call
      BY <1>2, <2>3 DEF CallState
    <2>6. CallSound(sess'[s]) /\ Keeps(s)
      BY <1>2, <2>1, <2>5 DEF CallSound, Deciding, Keeps
    <2>. QED
      BY <1>1, <1>2, <2>1, <2>2, <2>3, <2>4, <2>5, <2>6, CallStep
  <1>. QED
    <2>1. \/ HelpCleanup(r) /\ Leave(s, "idle", "recovered")
          \/ HelpCleanup(r) /\ UNCHANGED sess
          \/ UNCHANGED claim /\ \E out \in {"recovery_required", "absent", "corrupt"} : Leave(s, "idle", out)
          \/ /\ claim[r] # NoClaim /\ claim' = [claim EXCEPT ![r].marked = TRUE]
             /\ sess' = [sess EXCEPT ![s].pc = "unmark", ![s].out = "recovered"]
      BY <1>1 DEF Reclaim
    <2>. QED
      BY <1>3, <1>4, <1>5, <1>6, <2>1, OutcomeNames

LEMMA ConfirmStep == ASSUME Inv, NEW s \in Session, Confirm(s) PROVE Inv'
  <1>. DEFINE r == sess[s].res
              view == CurrentGuard(sess[s].res)
              done == Achieved[sess[s].kind]
  <1>1. /\ TypeOK /\ sess[s].pc = "confirm" /\ UNCHANGED <<Files, World, guard, reply>>
        /\ CallSound(sess[s]) /\ Me(s) = sess[s]
    BY DEF Inv, Confirm, At, Calls, Me
  <1>2. /\ sess[s].call >= 1 /\ sess[s].kind \in Lifecycle /\ r \in Resource
        /\ sess \in [Session -> CallState] /\ sess[s] \in CallState
        /\ admission' \in Admission \cup {NoClaim}
        /\ UNCHANGED <<admission, claim, trail, lease, txs>>
    BY <1>1, MeType DEF CallSound, Deciding, TypeOK, Files
  <1>3. CASE \E out \in Outcome : Conclude(s, out)
    BY <1>1, <1>2, <1>3, ConcludeStep DEF Deciding
  <1>4. CASE sess' = [sess EXCEPT ![s].pc = "admit", ![s].goal = "unclaim", ![s].out = done,
                                  ![s].got = view]
    <2>1. /\ "admit" \in PC /\ "admit" \notin Planned /\ done \in Outcome
          /\ view \in Guard \cup {NoGuard}
      BY <1>1, <1>2, OutcomeNames, CurrentGuardType DEF PC, Planned, Achieved, Lifecycle
    <2>. HIDE DEF done, view
    <2>2. ClaimsWane /\ Local(s)
      BY <1>1, <1>2, NothingMoves, LocalKept
    <2>3. /\ sess' = [sess EXCEPT ![s] = sess'[s]]
          /\ sess'[s] = [sess[s] EXCEPT !.pc = "admit", !.goal = "unclaim", !.out = done, !.got = view]
      BY <1>2, <1>4
    <2>4. sess'[s] \in CallState
      BY <1>2, <2>1, <2>3 DEF CallState
    <2>5. /\ sess'[s].pc = "admit" /\ sess'[s].goal = "unclaim" /\ sess'[s].call = sess[s].call
          /\ sess'[s].kind = sess[s].kind /\ sess'[s].mine = sess[s].mine
          /\ sess'[s].res = sess[s].res
      BY <1>2, <2>3 DEF CallState
    <2>6. CallSound(sess'[s])
      BY <1>2, <2>1, <2>5 DEF CallSound, Deciding
    <2>7. Keeps(s)
      BY <2>5 DEF Keeps, Holding
    <2>. QED
      BY <1>1, <1>2, <2>1, <2>2, <2>3, <2>4, <2>5, <2>6, <2>7, CallStep
  <1>5. Look(s, r) \in Outcome
    BY LookType
  <1>. QED
    BY <1>1, <1>3, <1>4, <1>5 DEF Confirm

LEMMA CrashStep == ASSUME Inv, NEW s \in Session, Crash(s) PROVE Inv'
  <1>1. /\ TypeOK /\ sess[s].pc \notin {"idle", "dead"} /\ UNCHANGED <<Files, now, reply, asked, unbuilt>>
        /\ failures < MaxFailure /\ failures' = failures + 1
    BY DEF Inv, Crash, At
  <1>2. sess \in [Session -> CallState] /\ sess[s].call \in 0 .. MaxCall
    BY <1>1, MeType
  <1>3. /\ sess' = [sess EXCEPT ![s] = sess'[s]]
        /\ sess'[s] = [pc |-> "dead", call |-> sess[s].call, kind |-> "none", res |-> Project,
            ttl |-> 0, seen |-> NoGuard, goal |-> "idle", after |-> "idle", adm |-> NoClaim,
            mine |-> NoClaim, plan |-> NoPlan, out |-> "none", got |-> NoGuard]
    BY <1>2 DEF Crash, Idle, Me
  <1>4. sess'[s] \in CallState
    BY <1>2, <1>3, OutcomeNames DEF CallState, PC, Kind
  <1>5. sess'[s].pc = "dead" /\ sess'[s].call = sess[s].call
    BY <1>3
  <1>6. CallSound(sess'[s]) /\ sess'[s].pc \notin Planned /\ Keeps(s)
    BY <1>5 DEF CallSound, Planned, Deciding, Keeps
  <1>7. sess' \in [Session -> CallState] /\ Calls' /\ Plans' /\ Driven' /\ Filed'
    BY <1>1, <1>3, <1>4, <1>6, NothingDriven, Moves DEF Files
  <1>8. ClaimsWane
    BY <1>1, NothingMoves DEF Files
  <1>9. ClaimsHeld'
    BY <1>1, <1>2, <1>3, <1>5, <1>6, <1>8, ClaimsKept
  <1>10. guard' \in [Session -> Guard \cup {NoGuard}] /\ failures' \in 0 .. MaxFailure
    BY <1>1, LocksAssumption DEF Crash, TypeOK
  <1>11. TypeOK'
    BY <1>1, <1>7, <1>10 DEF TypeOK, Files
  <1>. QED
    BY <1>7, <1>9, <1>11 DEF Inv

LEMMA TickStep == ASSUME Inv, Tick PROVE Inv'
  <1>1. UNCHANGED <<admission, claim, trail, lease, txs, sess, guard, reply, failures, asked, unbuilt>>
    BY DEF Tick, Files, Failing
  <1>2. TypeOK'
    BY <1>1, LocksAssumption DEF Inv, TypeOK, Tick
  <1>3. Calls' /\ Plans' /\ Driven' /\ Filed'
    BY <1>1 DEF Inv, Calls, CallSound, Plans, PlanSound, PlanStands, Agreed, Added, Driven, Drives, Filed
  <1>4. ClaimsHeld'
    BY <1>1 DEF Inv, ClaimsHeld, Claimed, Holding
  <1>. QED
    BY <1>2, <1>3, <1>4 DEF Inv

-----------------------------------------------------------------------------
(* Plans.                                                                    *)

LEMMA AppendFacts ==
    ASSUME NEW S, NEW t \in Seq(S), NEW e \in S
    PROVE  /\ Append(t, e) \in Seq(S) /\ Len(t) \in Nat /\ Len(Append(t, e)) = Len(t) + 1
           /\ Append(t, e) # t /\ Append(t, e) # <<>>
           /\ \A i \in 1 .. Len(t) : Append(t, e)[i] = t[i]
           /\ Append(t, e)[Len(t) + 1] = e /\ Last(Append(t, e)) = e
  <1>1. Append(t, e) \in Seq(S) /\ Len(t) \in Nat /\ Len(Append(t, e)) = Len(t) + 1
    OBVIOUS
  <1>2. Append(t, e) # t /\ Append(t, e) # <<>>
    BY <1>1
  <1>3. \A i \in 1 .. Len(t) : Append(t, e)[i] = t[i]
    OBVIOUS
  <1>4. Append(t, e)[Len(t) + 1] = e
    OBVIOUS
  <1>5. Last(Append(t, e)) = e
    BY <1>1, <1>4 DEF Last
  <1>. QED
    BY <1>1, <1>2, <1>3, <1>4, <1>5

LEMMA AppendPrefixes ==
    ASSUME NEW S, NEW t \in Seq(S), NEW e \in S, NEW i \in 0 .. Len(t)
    PROVE  SubSeq(Append(t, e), 1, i) = SubSeq(t, 1, i)
  <1>1. Append(t, e) \in Seq(S) /\ Len(t) \in Nat /\ Len(Append(t, e)) = Len(t) + 1
    BY AppendFacts
  <1>2. \A j \in 1 .. i : Append(t, e)[j] = t[j]
    BY AppendFacts
  <1>. QED
    BY <1>1, <1>2

LEMMA WholePrefix ==
    ASSUME NEW S, NEW t \in Seq(S)
    PROVE  SubSeq(t, 1, Len(t)) = t
  OBVIOUS

LEMMA ValidAppend ==
    ASSUME NEW t \in Seq(Transition), NEW e \in Transition, ValidLifecycle(t),
           Extends(t, e.action, e.lease.token)
    PROVE  ValidLifecycle(Append(t, e))
  <1>. DEFINE u == Append(t, e)
  <1>1. Len(u) = Len(t) + 1 /\ Len(t) \in Nat
    BY AppendFacts
  <1>2. SUFFICES ASSUME NEW i \in 1 .. Len(u)
                 PROVE  Extends(SubSeq(u, 1, i - 1), u[i].action, u[i].lease.token)
    BY DEF ValidLifecycle
  <1>3. SubSeq(u, 1, i - 1) = SubSeq(t, 1, i - 1)
    BY <1>1, AppendPrefixes
  <1>4. CASE i \in 1 .. Len(t)
    <2>1. u[i] = t[i]
      BY <1>4, AppendFacts
    <2>. QED
      BY <1>3, <1>4, <2>1 DEF ValidLifecycle
  <1>5. CASE i = Len(t) + 1
    <2>1. u[i] = e /\ SubSeq(t, 1, i - 1) = t
      BY <1>1, <1>5, AppendFacts, WholePrefix
    <2>. QED
      BY <1>3, <2>1
  <1>. QED
    BY <1>1, <1>4, <1>5

LEMMA EmptyIsValid == ValidLifecycle(<<>>)
  BY DEF ValidLifecycle

LEMMA AgreedIsUnique ==
    ASSUME NEW t, NEW l, NEW m, Agreed(t, l), Agreed(t, m)
    PROVE  l = m
  BY DEF Agreed, Binds

LEMMA PlanFields ==
    ASSUME NEW p \in Plan
    PROVE  /\ p.by \in Session /\ p.call \in 1 .. MaxCall /\ p.res \in Resource
           /\ p.base \in Seq(Transition) /\ p.old \in Lease \cup {NoLease}
           /\ p.trail \in Seq(Transition) /\ p.lease \in Lease
           /\ p.phase \in {"prepared", "publishing"} /\ Len(p.base) \in Nat
  BY DEF Plan

LEMMA PlanFacts ==
    ASSUME NEW p \in Plan, PlanSound(p)
    PROVE  /\ p.trail # p.base /\ Len(p.trail) = Len(p.base) + 1
           /\ \A i \in 1 .. Len(p.base) : p.trail[i] = p.base[i]
           /\ SubSeq(p.trail, 1, Len(p.base)) = p.base
           /\ Agreed(p.trail, p.lease)
  <1>1. p.base \in Seq(Transition) /\ Added(p) \in Transition /\ p.trail = Append(p.base, Added(p))
        /\ Added(p).lease = p.lease /\ Len(p.base) \in Nat
    BY PlanFields DEF PlanSound
  <1>2. /\ p.trail # p.base /\ p.trail # <<>> /\ Len(p.trail) = Len(p.base) + 1
        /\ \A i \in 1 .. Len(p.base) : p.trail[i] = p.base[i]
        /\ Last(p.trail) = Added(p)
    BY <1>1, AppendFacts
  <1>3. SubSeq(p.trail, 1, Len(p.base)) = p.base
    BY <1>1, AppendPrefixes, WholePrefix
  <1>4. ValidLifecycle(p.base)
    BY EmptyIsValid DEF PlanSound, Agreed, Binds
  <1>5. ValidLifecycle(p.trail)
    <2>1. Extends(p.base, Added(p).action, Added(p).lease.token)
      BY <1>1 DEF PlanSound
    <2>. QED
      BY <1>1, <1>4, <2>1, ValidAppend
  <1>. QED
    BY <1>1, <1>2, <1>3, <1>5 DEF Agreed, Binds

LEMMA PublishingFields ==
    ASSUME NEW p \in Plan
    PROVE  /\ Publishing(p) \in Plan /\ Publishing(p).by = p.by /\ Publishing(p).call = p.call
           /\ Publishing(p).res = p.res /\ Publishing(p).base = p.base /\ Publishing(p).old = p.old
           /\ Publishing(p).trail = p.trail /\ Publishing(p).lease = p.lease
           /\ Publishing(p).phase = "publishing"
  BY DEF Publishing, Plan

LEMMA PublishingSound ==
    ASSUME NEW p \in Plan
    PROVE  /\ PlanSound(p) => PlanSound(Publishing(p))
           /\ PlanStands(p) => PlanStands(Publishing(p))
  <1>. DEFINE q == Publishing(p)
  <1>1. q.base = p.base /\ q.old = p.old /\ q.trail = p.trail /\ q.lease = p.lease /\ q.res = p.res
    BY PublishingFields
  <1>. HIDE DEF q
  <1>2. PlanSound(p) => PlanSound(q)
    BY <1>1 DEF PlanSound, Added
  <1>3. PlanStands(p) => PlanStands(q)
    BY <1>1 DEF PlanStands
  <1>. QED
    BY <1>2, <1>3 DEF q

\* What is decided over files that can be read.
LEMMA DecisionSound ==
    ASSUME Inv, NEW s \in Session, sess[s].pc = "decide", Look(s, sess[s].res) \notin Unreadable,
           Look(s, sess[s].res) = "empty" => sess[s].kind = "acquire",
           Decision(s).kind = "transition"
    PROVE  /\ Decision(s).action \in Action /\ Decision(s).lease \in Lease
           /\ Decision(s).action \in {"renew", "release"} =>
                lease[sess[s].res] # NoLease /\ Decision(s).lease.id = lease[sess[s].res].id
  <1>. DEFINE r == sess[s].res
              id == <<s, sess[s].call>>
              cur == CurrentBinding(s, r)
              t == Clock(s)
              ttl == sess[s].ttl
  <1>1. TypeOK /\ Me(s) = sess[s] /\ CallSound(sess[s])
    BY DEF Inv, Calls, Me
  <1>2. /\ sess[s].kind \in Lifecycle /\ id \in LeaseId /\ r \in Resource
        /\ ttl \in Nat /\ t \in Nat /\ t + ttl \in Nat /\ MaxToken \in Nat \ {0}
    <2>1. sess[s].kind \in Lifecycle /\ sess[s].call >= 1
      BY <1>1 DEF CallSound, Deciding
    <2>2. sess[s].call \in 1 .. MaxCall /\ r \in Resource /\ ttl \in TTL \cup {0}
      BY <1>1, <2>1, MeType
    <2>3. id \in LeaseId
      BY <2>2, LocksAssumption
    <2>4. ttl \in Nat /\ t \in Nat
      BY <1>1, <2>2, ClockType, LocksAssumption
    <2>. HIDE DEF ttl, t
    <2>5. t + ttl \in Nat
      BY <2>4
    <2>. QED
      BY <2>1, <2>2, <2>3, <2>4, <2>5, LeaseAssumption
  <1>3. lease[r] = NoLease => sess[s].kind = "acquire" /\ cur = NoBinding
    BY ReadableAgrees DEF CurrentBinding
  <1>4. lease[r] # NoLease => cur.lease = lease[r] /\ lease[r] \in Lease
    BY <1>1, <1>2 DEF CurrentBinding, TypeOK
  <1>5. ASSUME NEW token \in 1 .. MaxToken PROVE Opened(s, id, token, t, ttl) \in Lease
    BY <1>2 DEF Opened, Lease
  <1>6. ASSUME NEW a, lease[r] # NoLease, Reopen(a, s, id, cur, t, ttl).kind = "transition"
        PROVE  /\ Reopen(a, s, id, cur, t, ttl).action = a
               /\ Reopen(a, s, id, cur, t, ttl).lease \in Lease
    <2>1. lease[r].token \in 1 .. MaxToken
      BY <1>4, <1>6 DEF Lease
    <2>2. ~(cur.lease.token >= MaxToken)
      BY <1>6 DEF Reopen, Refusal
    <2>3. cur.lease.token + 1 \in 1 .. MaxToken
      BY <1>2, <1>4, <1>6, <2>1, <2>2
    <2>4. Opened(s, id, cur.lease.token + 1, t, ttl) \in Lease
      BY <1>5, <2>3
    <2>5. Reopen(a, s, id, cur, t, ttl) = Change(a, Opened(s, id, cur.lease.token + 1, t, ttl))
      BY <2>2 DEF Reopen
    <2>. HIDE DEF cur, id, t, ttl
    <2>. QED
      BY <2>4, <2>5 DEF Change
  <1>7. ASSUME NEW x \in Nat, lease[r] # NoLease
        PROVE  [cur.lease EXCEPT !.expires = x] \in Lease /\ [cur.lease EXCEPT !.expires = x].id = lease[r].id
    <2>1. cur.lease \in Lease /\ cur.lease = lease[r]
      BY <1>4, <1>7
    <2>. HIDE DEF cur
    <2>2. [cur.lease EXCEPT !.expires = x] \in Lease
      BY <2>1 DEF Lease
    <2>. QED
      BY <2>1, <2>2 DEF Lease
  <1>. HIDE DEF r, id, cur, t, ttl
  <1>8. CASE sess[s].kind = "acquire"
    <2>1. Decision(s) = DecideAcquire(cur, s, id, t, ttl)
      BY <1>1, <1>8 DEF Decision, r, id, cur, t, ttl
    <2>2. CASE cur = NoBinding
      BY <1>2, <1>5, <2>1, <2>2 DEF DecideAcquire, Change, Action
    <2>3. CASE cur # NoBinding
      <3>1. lease[r] # NoLease
        BY <1>3, <2>3
      <3>2. Decision(s) = Reopen("acquire", s, id, cur, t, ttl)
        BY <2>1, <2>3 DEF DecideAcquire, Refusal
      <3>. QED
        BY <1>6, <3>1, <3>2 DEF Action
    <2>. QED
      BY <2>2, <2>3
  <1>9. CASE sess[s].kind = "renew"
    <2>1. Decision(s) = DecideRenew(cur, sess[s].seen.lease, t, ttl)
      BY <1>1, <1>9 DEF Decision, r, id, cur, t, ttl
    <2>2. Decision(s) = Change("renew", [cur.lease EXCEPT !.expires = t + ttl])
      BY <2>1 DEF DecideRenew, Refusal
    <2>3. lease[r] # NoLease
      BY <1>3, <1>9
    <2>. DEFINE l == [cur.lease EXCEPT !.expires = t + ttl]
    <2>4. l \in Lease /\ l.id = lease[r].id /\ Decision(s) = Change("renew", l)
      BY <1>2, <1>7, <2>2, <2>3
    <2>. HIDE DEF l
    <2>. QED
      BY <2>3, <2>4 DEF Change, Action, r
  <1>10. CASE sess[s].kind = "release"
    <2>1. Decision(s) = DecideRelease(cur, sess[s].seen.lease, t)
      BY <1>1, <1>10 DEF Decision, r, id, cur, t, ttl
    <2>2. Decision(s) = Change("release", [cur.lease EXCEPT !.expires = t])
      BY <2>1 DEF DecideRelease, Refusal
    <2>3. lease[r] # NoLease
      BY <1>3, <1>10
    <2>. DEFINE l == [cur.lease EXCEPT !.expires = t]
    <2>4. l \in Lease /\ l.id = lease[r].id /\ Decision(s) = Change("release", l)
      BY <1>2, <1>7, <2>2, <2>3
    <2>. HIDE DEF l
    <2>. QED
      BY <2>3, <2>4 DEF Change, Action, r
  <1>11. CASE sess[s].kind = "takeover"
    <2>1. Decision(s) = DecideTakeover(cur, sess[s].seen.lease, s, id, t, ttl)
      BY <1>1, <1>11 DEF Decision, r, id, cur, t, ttl
    <2>2. Decision(s) = Reopen("takeover", s, id, cur, t, ttl)
      BY <2>1 DEF DecideTakeover, Refusal
    <2>3. lease[r] # NoLease
      BY <1>3, <1>11
    <2>. QED
      BY <1>6, <2>2, <2>3 DEF Action
  <1>. QED
    BY <1>2, <1>8, <1>9, <1>10, <1>11 DEF Lifecycle

LEMMA PreparedPlan ==
    ASSUME Inv, NEW s \in Session, sess[s].pc = "decide", Look(s, sess[s].res) \notin Unreadable,
           Look(s, sess[s].res) = "empty" => sess[s].kind = "acquire",
           Decision(s).kind = "transition",
           Extends(trail[sess[s].res], Decision(s).action, Decision(s).lease.token)
    PROVE  LET p == Prepare(s, Decision(s))
           IN  /\ p \in Plan /\ PlanSound(p) /\ PlanStands(p)
               /\ p.by = s /\ p.call = sess[s].call /\ p.res = sess[s].res /\ p.phase = "prepared"
  <1>. DEFINE r == sess[s].res
              d == Decision(s)
              e == [action |-> d.action, lease |-> d.lease]
              p == Prepare(s, d)
  <1>1. TypeOK /\ Me(s) = sess[s] /\ CallSound(sess[s])
    BY DEF Inv, Calls, Me
  <1>2. r \in Resource /\ sess[s].call \in 1 .. MaxCall
    BY <1>1, MeType DEF CallSound
  <1>3. trail[r] \in Seq(Transition) /\ lease[r] \in Lease \cup {NoLease}
    BY <1>1, <1>2 DEF TypeOK
  <1>4. /\ d.action \in Action /\ d.lease \in Lease
        /\ d.action \in {"renew", "release"} => lease[r] # NoLease /\ d.lease.id = lease[r].id
    BY DecisionSound
  <1>5. Agreed(trail[r], lease[r]) /\ (lease[r] # NoLease => Binds(trail[r], lease[r]))
    BY ReadableAgrees
  <1>6. p = [by |-> s, call |-> sess[s].call, res |-> r, base |-> trail[r], old |-> lease[r],
             trail |-> Append(trail[r], e), lease |-> d.lease, phase |-> "prepared"]
    BY <1>1 DEF Prepare
  <1>7. Extends(trail[r], d.action, d.lease.token)
    OBVIOUS
  <1>. HIDE DEF d, p
  <1>8. e \in Transition /\ e.lease = d.lease /\ e.action = d.action
    BY <1>4 DEF Transition
  <1>. HIDE DEF e, r
  <1>9. Append(trail[r], e) \in Seq(Transition) /\ Last(Append(trail[r], e)) = e
    BY <1>3, <1>8, AppendFacts
  <1>10. p \in Plan
    BY <1>2, <1>3, <1>4, <1>6, <1>9 DEF Plan
  <1>11. /\ p.by = s /\ p.call = sess[s].call /\ p.res = r /\ p.phase = "prepared"
         /\ p.base = trail[r] /\ p.old = lease[r] /\ p.trail = Append(trail[r], e)
         /\ p.lease = d.lease
    BY <1>6
  <1>12. Added(p) = e
    BY <1>9, <1>11 DEF Added
  <1>13. ASSUME p.base # <<>>, p.lease.id # Last(p.base).lease.id
         PROVE  p.lease.token > LastToken(p.base)
    <2>1. Binds(trail[r], lease[r])
      BY <1>5, <1>11, <1>13 DEF Agreed
    <2>2. Last(trail[r]).lease = lease[r]
      BY <2>1 DEF Binds
    <2>3. d.action \in {"acquire", "takeover"}
      BY <1>4, <1>11, <1>13, <2>2 DEF Action
    <2>4. d.lease.token = LastToken(trail[r]) + 1
      BY <1>7, <2>3 DEF Extends, LegalToken
    <2>5. LastToken(trail[r]) = lease[r].token /\ lease[r] \in Lease
      <3>1. trail[r] # <<>> /\ Last(trail[r]) \in Transition
        BY <1>3, <1>11, <1>13 DEF Last
      <3>. QED
        BY <2>2, <3>1 DEF LastToken, Transition
    <2>6. lease[r].token \in Nat
      BY <2>5, LeaseAssumption DEF Lease
    <2>. QED
      BY <1>11, <2>4, <2>5, <2>6
  <1>14. PlanSound(p)
    BY <1>5, <1>7, <1>8, <1>11, <1>12, <1>13 DEF PlanSound
  <1>15. PlanStands(p)
    <2>1. Len(trail[r]) \in Nat
      BY <1>3
    <2>. QED
      BY <1>5, <1>11, <2>1 DEF PlanStands, Prefix
  <1>. QED
    BY <1>10, <1>11, <1>14, <1>15 DEF p, d, r

LEMMA DecideStep == ASSUME Inv, NEW s \in Session, Decide(s) PROVE Inv'
  <1>. DEFINE r == sess[s].res
              d == Decision(s)
              p == Prepare(s, d)
  <1>1. /\ TypeOK /\ sess[s].pc = "decide" /\ UNCHANGED <<Files, World, guard, reply>>
        /\ CallSound(sess[s]) /\ Me(s) = sess[s]
    BY DEF Inv, Decide, At, Calls, Me
  <1>2. /\ sess[s].call >= 1 /\ sess[s].kind \in Lifecycle
        /\ sess \in [Session -> CallState] /\ sess[s] \in CallState
        /\ admission' \in Admission \cup {NoClaim}
        /\ UNCHANGED <<admission, claim, trail, lease, txs>>
    BY <1>1, MeType DEF CallSound, Deciding, TypeOK, Files
  <1>3. CASE \E out \in Outcome : Conclude(s, out)
    BY <1>1, <1>2, <1>3, ConcludeStep DEF Deciding
  <1>4. CASE /\ Look(s, r) \notin Unreadable
             /\ Look(s, r) = "empty" => sess[s].kind = "acquire"
             /\ d.kind = "transition" /\ Extends(trail[r], d.action, d.lease.token)
             /\ sess' = [sess EXCEPT ![s].pc = "preflight", ![s].plan = p]
    <2>1. /\ p \in Plan /\ PlanSound(p) /\ PlanStands(p)
          /\ p.by = s /\ p.call = sess[s].call /\ p.res = r /\ p.phase = "prepared"
      BY <1>1, <1>4, PreparedPlan
    <2>. HIDE DEF p
    <2>2. /\ sess' = [sess EXCEPT ![s] = sess'[s]]
          /\ sess'[s] = [sess[s] EXCEPT !.pc = "preflight", !.plan = p]
      BY <1>2, <1>4
    <2>3. "preflight" \in PC
      BY DEF PC
    <2>4. sess'[s] \in CallState
      BY <1>2, <2>1, <2>2, <2>3 DEF CallState
    <2>5. /\ sess'[s].pc = "preflight" /\ sess'[s].plan = p /\ sess'[s].call = sess[s].call
          /\ sess'[s].kind = sess[s].kind /\ sess'[s].mine = sess[s].mine /\ sess'[s].res = r
      BY <1>2, <2>2 DEF CallState
    <2>6. CallSound(sess'[s])
      BY <1>2, <2>1, <2>5 DEF CallSound, Deciding, Planned
    <2>7. Drives(s)'
      BY <2>1, <2>5 DEF Drives
    <2>8. Keeps(s)
      BY <2>5 DEF Keeps, Holding, Deciding
    <2>9. ClaimsWane /\ Local(s)
      BY <1>1, <1>2, NothingMoves, LocalKept
    <2>10. PlanStands(sess'[s].plan) /\ sess[s].call = sess'[s].call /\ sess[s].pc \notin {"idle", "dead"}
      BY <1>1, <2>1, <2>5
    <2>. QED
      BY <1>2, <2>2, <2>4, <2>6, <2>7, <2>8, <2>9, <2>10, DrivingStep
  <1>5. Look(s, r) \in Outcome
    BY LookType
  <1>. QED
    <2>1. \/ \E out \in {Look(s, r), "corrupt", "internal_failure", "conflict"} : Conclude(s, out)
          \/ /\ Look(s, r) \notin Unreadable
             /\ Look(s, r) = "empty" => sess[s].kind = "acquire"
             /\ d.kind = "transition" /\ Extends(trail[r], d.action, d.lease.token)
             /\ sess' = [sess EXCEPT ![s].pc = "preflight", ![s].plan = p]
      BY <1>1 DEF Decide
    <2>. QED
      BY <1>3, <1>4, <1>5, <2>1, OutcomeNames

\* A call under way with its plan goes on to another place of its drive.
LEMMA PlannedFields ==
    ASSUME Inv, NEW s \in Session, sess[s].pc \in Planned
    PROVE  LET p == sess[s].plan
           IN  /\ p \in Plan /\ PlanSound(p) /\ PlanStands(p) /\ p.by = s /\ p.call = sess[s].call
               /\ p.res = sess[s].res /\ p.phase = "prepared" /\ sess[s].pc \in Deciding
               /\ sess[s].kind \in Lifecycle /\ sess[s].call >= 1
  <1>1. CallSound(sess[s]) /\ Drives(s) /\ PlanStands(sess[s].plan) /\ sess[s].pc \in Deciding
    BY DEF Inv, Calls, Driven, Plans, Planned, Deciding
  <1>2. sess[s].pc \notin {"idle", "dead"}
    BY <1>1 DEF Deciding
  <1>. QED
    BY <1>1, <1>2 DEF CallSound, Drives

LEMMA DrivenOn ==
    ASSUME Inv, NEW s \in Session, NEW pc \in Planned \cup {"confirm"}, sess[s].pc \in Planned,
           Goto(s, pc)
    PROVE  /\ sess' = [sess EXCEPT ![s] = sess'[s]] /\ sess'[s] \in CallState
           /\ sess'[s].pc = pc /\ sess'[s].plan = sess[s].plan /\ sess'[s].call = sess[s].call
           /\ sess'[s].res = sess[s].res
           /\ CallSound(sess'[s]) /\ Keeps(s)
  <1>1. TypeOK
    BY DEF Inv
  <1>2. pc \in PC
    BY DEF Planned, PC
  <1>3. /\ sess' = [sess EXCEPT ![s] = sess'[s]] /\ sess'[s] \in CallState
        /\ sess'[s].pc = pc /\ sess'[s].plan = sess[s].plan /\ sess'[s].call = sess[s].call
        /\ sess'[s].kind = sess[s].kind /\ sess'[s].mine = sess[s].mine
        /\ sess'[s].res = sess[s].res
    BY <1>1, <1>2, GotoFields
  <1>4. CallSound(sess'[s])
    BY <1>3, PlannedFields DEF CallSound, Planned, Deciding
  <1>5. Keeps(s)
    BY <1>3 DEF Keeps, Holding, Planned, Deciding
  <1>. QED
    BY <1>3, <1>4, <1>5

LEMMA PreflightStep == ASSUME Inv, NEW s \in Session, Preflight(s) PROVE Inv'
  <1>1. /\ TypeOK /\ sess[s].pc = "preflight" /\ UNCHANGED <<Files, World, guard, reply>>
    BY DEF Inv, Preflight, At
  <1>2. /\ sess[s].pc \in Planned /\ admission' \in Admission \cup {NoClaim}
        /\ UNCHANGED <<admission, claim, trail, lease, txs>>
    BY <1>1 DEF Planned, TypeOK, Files
  <1>3. CASE Conclude(s, "recovery_required")
    BY <1>1, <1>2, <1>3, ConcludeStep, OutcomeNames DEF Deciding
  <1>4. CASE Goto(s, "mark")
    <2>1. "mark" \in Planned
      BY DEF Planned
    <2>2. /\ sess' = [sess EXCEPT ![s] = sess'[s]] /\ sess'[s] \in CallState
          /\ sess'[s].pc = "mark" /\ sess'[s].plan = sess[s].plan /\ sess'[s].call = sess[s].call
          /\ sess'[s].res = sess[s].res
          /\ CallSound(sess'[s]) /\ Keeps(s)
      BY <1>2, <1>4, <2>1, DrivenOn
    <2>3. Drives(s)' /\ PlanStands(sess'[s].plan)
      BY <1>2, <2>2, PlannedFields DEF Drives
    <2>4. ClaimsWane /\ Local(s) /\ sess[s].pc \notin {"idle", "dead"}
      BY <1>1, <1>2, NothingMoves, LocalKept
    <2>. QED
      BY <1>2, <2>2, <2>3, <2>4, DrivingStep
  <1>. QED
    BY <1>3, <1>4 DEF Preflight

\* A step of a drive that changes files.
LEMMA DriveStep ==
    ASSUME Inv, NEW s \in Session, NEW pc \in Planned \cup {"confirm"}, sess[s].pc \in Planned,
           Goto(s, pc), UNCHANGED <<admission, claim, World, guard, reply>>,
           trail' \in [Resource -> Seq(Transition)], lease' \in [Resource -> Lease \cup {NoLease}],
           txs' \subseteq Plan, Plans', Driven', Filed'
    PROVE  Inv'
  <1>1. /\ sess' = [sess EXCEPT ![s] = sess'[s]] /\ sess'[s] \in CallState
        /\ sess'[s].call = sess[s].call /\ CallSound(sess'[s]) /\ Keeps(s)
    BY DrivenOn
  <1>2. TypeOK /\ sess \in [Session -> CallState] /\ sess[s].call \in Nat
    BY MeType DEF Inv
  <1>3. sess' \in [Session -> CallState] /\ \A t \in Session \ {s} : sess'[t] = sess[t]
    BY <1>1, <1>2
  <1>4. Calls'
    <2>. SUFFICES ASSUME NEW t \in Session PROVE CallSound(sess'[t])
      BY DEF Calls, CallSound, PlanSound, Agreed, Added
    <2>. QED
      BY <1>1, <1>3 DEF Inv, Calls
  <1>5. ClaimsWane /\ sess[s].pc \notin {"idle", "dead"}
    BY <1>2, NothingMoves DEF Planned
  <1>6. ClaimsHeld'
    BY <1>1, <1>2, <1>5, ClaimsKept
  <1>7. TypeOK'
    BY <1>2, <1>3 DEF TypeOK, World, Failing
  <1>. QED
    BY <1>4, <1>6, <1>7 DEF Inv

\* A plan stands after a step.
Stood(q) ==
    /\ Prefix(q.base, trail'[q.res])
    /\ ~Agreed(trail'[q.res], lease'[q.res]) => Len(q.base) < Len(trail'[q.res])

\* The plans of the calls, when one call goes on with its plan.
LEMMA CallsPlans ==
    ASSUME Inv, NEW s \in Session, NEW pc \in Planned \cup {"confirm"}, sess[s].pc \in Planned,
           Goto(s, pc), NEW t \in Session, sess'[t].pc \in Planned
    PROVE  sess'[t].plan = sess[t].plan /\ sess[t].pc \in Planned /\ PlanStands(sess[t].plan)
  <1>1. /\ sess' = [sess EXCEPT ![s] = sess'[s]] /\ sess'[s].plan = sess[s].plan
    BY DrivenOn
  <1>2. sess \in [Session -> CallState]
    BY DEF Inv, TypeOK
  <1>3. sess'[t].plan = sess[t].plan /\ sess[t].pc \in Planned
    BY <1>1, <1>2
  <1>. QED
    BY <1>3 DEF Inv, Plans

\* Only the transactions of one session change: what others drive stays on record.
LEMMA OthersDrive ==
    ASSUME Inv, NEW s \in Session, sess' = [sess EXCEPT ![s] = sess'[s]],
           \A p \in txs \ txs' : p.by = s
    PROVE  \A t \in Session \ {s} : Drives(t)'
  <1>. SUFFICES ASSUME NEW t \in Session \ {s} PROVE Drives(t)'
    OBVIOUS
  <1>1. sess'[t] = sess[t]
    BY DEF Inv, TypeOK
  <1>2. Drives(t)
    BY DEF Inv, Driven
  <1>3. CASE sess[t].pc \in Planned
    <2>. DEFINE p == sess[t].plan
    <2>1. p \in Plan /\ p.by = t
      BY <1>3, PlannedFields
    <2>2. Publishing(p).by = t
      BY <2>1, PublishingFields
    <2>3. p \in txs => p \in txs'
      BY <2>1
    <2>4. Publishing(p) \in txs => Publishing(p) \in txs'
      BY <2>2
    <2>. QED
      BY <1>1, <1>2, <2>3, <2>4 DEF Drives
  <1>4. CASE sess[t].pc \notin Planned
    BY <1>1, <1>4 DEF Drives, Planned
  <1>. QED
    BY <1>3, <1>4

LEMMA MarkStep == ASSUME Inv, NEW s \in Session, MarkTransaction(s) PROVE Inv'
  <1>. DEFINE p == sess[s].plan
  <1>1. /\ TypeOK /\ sess[s].pc = "mark" /\ Me(s) = sess[s] /\ txs' = txs \cup {p}
        /\ Goto(s, "authorize") /\ UNCHANGED <<admission, claim, trail, lease, World, guard, reply>>
    BY DEF Inv, MarkTransaction, At, Me
  <1>2. "authorize" \in Planned /\ sess[s].pc \in Planned
    BY <1>1 DEF Planned
  <1>3. /\ p \in Plan /\ PlanSound(p) /\ PlanStands(p) /\ p.by = s /\ p.call = sess[s].call
        /\ p.res = sess[s].res /\ p.phase = "prepared"
    BY <1>2, PlannedFields
  <1>4. /\ sess' = [sess EXCEPT ![s] = sess'[s]] /\ sess'[s].pc = "authorize"
        /\ sess'[s].plan = p /\ sess'[s].call = sess[s].call /\ sess'[s].res = sess[s].res
    BY <1>1, <1>2, DrivenOn
  <1>. HIDE DEF p
  <1>5. \A q : PlanStands(q)' <=> PlanStands(q)
    BY <1>1 DEF PlanStands
  <1>6. Plans'
    <2>1. \A q \in txs' : PlanSound(q) /\ PlanStands(q)'
      BY <1>1, <1>3, <1>5 DEF Inv, Plans
    <2>2. ASSUME NEW t \in Session, sess'[t].pc \in Planned PROVE PlanStands(sess[t].plan)'
      <3>1. sess'[t].plan = sess[t].plan /\ PlanStands(sess[t].plan)
        BY <1>1, <1>2, <2>2, CallsPlans
      <3>. QED
        BY <1>1, <3>1 DEF PlanStands
    <2>. QED
      BY <2>1, <2>2 DEF Plans, PlanSound, Agreed, Added, PlanStands
  <1>7. Driven'
    <2>1. \A t \in Session \ {s} : Drives(t)'
      BY <1>1, <1>4, OthersDrive
    <2>2. Drives(s)'
      BY <1>1, <1>3, <1>4 DEF Drives
    <2>. QED
      BY <2>1, <2>2 DEF Driven
  <1>8. Filed'
    BY <1>1 DEF Inv, Filed
  <1>9. /\ trail' \in [Resource -> Seq(Transition)] /\ lease' \in [Resource -> Lease \cup {NoLease}]
        /\ txs' \subseteq Plan
    BY <1>1, <1>3 DEF TypeOK
  <1>. QED
    BY <1>1, <1>2, <1>6, <1>7, <1>8, <1>9, DriveStep

LEMMA AuthorizeStep == ASSUME Inv, NEW s \in Session, Authorize(s) PROVE Inv'
  <1>. DEFINE p == sess[s].plan
              pub == Publishing(p)
  <1>1. /\ TypeOK /\ sess[s].pc = "authorize" /\ Me(s) = sess[s]
        /\ UNCHANGED <<admission, claim, trail, lease, World, guard, reply>>
    BY DEF Inv, Authorize, At, Me
  <1>2. "trail" \in Planned /\ sess[s].pc \in Planned
    BY <1>1 DEF Planned
  <1>3. /\ p \in Plan /\ PlanSound(p) /\ PlanStands(p) /\ p.by = s /\ p.call = sess[s].call
        /\ p.res = sess[s].res /\ p.phase = "prepared"
    BY <1>2, PlannedFields
  <1>4. CASE Conclude(s, "revision_conflict") /\ UNCHANGED txs
    BY <1>1, <1>4, ConcludeStep, OutcomeNames DEF Deciding
  <1>5. CASE AtBase(p) /\ txs' = (txs \ {p}) \cup {pub} /\ Goto(s, "trail")
    <2>1. pub \in Plan /\ PlanSound(pub) /\ PlanStands(pub) /\ pub.by = s
      BY <1>3, PublishingFields, PublishingSound
    <2>2. /\ sess' = [sess EXCEPT ![s] = sess'[s]] /\ sess'[s].pc = "trail"
          /\ sess'[s].plan = p /\ sess'[s].call = sess[s].call /\ sess'[s].res = sess[s].res
      BY <1>2, <1>5, DrivenOn
    <2>3. pub = Publishing(sess'[s].plan) /\ pub \in txs'
      BY <1>5, <2>2
    <2>. HIDE DEF p, pub
    <2>4. \A q : PlanStands(q)' <=> PlanStands(q)
      BY <1>1 DEF PlanStands
    <2>5. Plans'
      <3>1. \A q \in txs' : PlanSound(q) /\ PlanStands(q)'
        BY <1>5, <2>1, <2>4 DEF Inv, Plans
      <3>2. ASSUME NEW t \in Session, sess'[t].pc \in Planned PROVE PlanStands(sess[t].plan)'
        <4>1. sess'[t].plan = sess[t].plan /\ PlanStands(sess[t].plan)
          BY <1>2, <1>5, <3>2, CallsPlans
        <4>. QED
          BY <1>1, <4>1 DEF PlanStands
      <3>. QED
        BY <3>1, <3>2 DEF Plans, PlanSound, Agreed, Added, PlanStands
    <2>6. Driven'
      <3>1. \A t \in Session \ {s} : Drives(t)'
        BY <1>3, <1>5, <2>2, OthersDrive
      <3>2. Drives(s)'
        BY <1>3, <2>2, <2>3 DEF Drives
      <3>. QED
        BY <3>1, <3>2 DEF Driven
    <2>7. Filed'
      <3>. SUFFICES ASSUME NEW r \in Resource, ~Agreed(trail[r], lease[r])
                    PROVE  \E q \in txs' : /\ q.phase = "publishing" /\ q.res = r
                                           /\ trail[r] = q.trail /\ lease[r] = q.old
        BY <1>1 DEF Filed
      <3>1. PICK q \in txs : /\ q.phase = "publishing" /\ q.res = r
                             /\ trail[r] = q.trail /\ lease[r] = q.old
        BY DEF Inv, Filed
      <3>2. q # p
        BY <1>3, <3>1
      <3>. QED
        BY <1>5, <3>1, <3>2
    <2>8. /\ trail' \in [Resource -> Seq(Transition)] /\ lease' \in [Resource -> Lease \cup {NoLease}]
          /\ txs' \subseteq Plan
      BY <1>1, <1>5, <2>1 DEF TypeOK
    <2>. QED
      BY <1>1, <1>2, <1>5, <2>5, <2>6, <2>7, <2>8, DriveStep
  <1>. QED
    BY <1>1, <1>4, <1>5 DEF Authorize

\* The events of a plan are published: whatever else was prepared is behind.
LEMMA TrailGrows ==
    ASSUME TypeOK, NEW p \in Plan, PlanSound(p), trail[p.res] \in {p.base, p.trail},
           trail' = [trail EXCEPT ![p.res] = p.trail],
           NEW q \in Plan, PlanStands(q)
    PROVE  /\ Prefix(q.base, trail'[q.res])
           /\ trail[p.res] = p.base /\ q.res = p.res => Len(q.base) < Len(trail'[q.res])
  <1>1. trail \in [Resource -> Seq(Transition)] /\ p.res \in Resource /\ q.res \in Resource
    BY PlanFields DEF TypeOK
  <1>2. Prefix(q.base, trail[q.res]) /\ Len(q.base) \in Nat /\ Len(p.base) \in Nat
    BY PlanFields DEF PlanStands
  <1>3. CASE q.res # p.res
    <2>1. trail'[q.res] = trail[q.res]
      BY <1>1, <1>3
    <2>. QED
      BY <1>2, <1>3, <2>1
  <1>4. CASE q.res = p.res /\ trail[p.res] = p.trail
    <2>1. trail'[q.res] = trail[q.res]
      BY <1>1, <1>4
    <2>2. p.trail # p.base
      BY PlanFacts
    <2>. QED
      BY <1>2, <1>4, <2>1, <2>2
  <1>5. CASE q.res = p.res /\ trail[p.res] = p.base
    <2>1. trail'[q.res] = p.trail /\ Prefix(q.base, p.base)
      BY <1>1, <1>2, <1>5
    <2>2. Len(p.trail) = Len(p.base) + 1 /\ \A i \in 1 .. Len(p.base) : p.trail[i] = p.base[i]
      BY PlanFacts
    <2>3. Len(q.base) <= Len(p.base) /\ \A i \in 1 .. Len(q.base) : p.base[i] = q.base[i]
      BY <2>1 DEF Prefix
    <2>4. \A i \in 1 .. Len(q.base) : i \in 1 .. Len(p.base)
      BY <1>2, <2>3
    <2>5. \A i \in 1 .. Len(q.base) : p.trail[i] = q.base[i]
      BY <2>2, <2>3, <2>4
    <2>. QED
      BY <1>2, <2>1, <2>2, <2>3, <2>5 DEF Prefix
  <1>. QED
    BY <1>3, <1>4, <1>5

\* The files a plan is about to change agree.
LEMMA BaseAgrees ==
    ASSUME NEW p \in Plan, PlanSound(p), PlanStands(p), trail[p.res] = p.base
    PROVE  Agreed(trail[p.res], lease[p.res]) /\ lease[p.res] = p.old
  <1>1. Agreed(trail[p.res], lease[p.res])
    BY PlanFields DEF PlanStands
  <1>2. Agreed(p.base, p.old)
    BY DEF PlanSound
  <1>. QED
    BY <1>1, <1>2, AgreedIsUnique

LEMMA PublishTrailStep == ASSUME Inv, NEW s \in Session, PublishTrail(s) PROVE Inv'
  <1>. DEFINE p == sess[s].plan
              pub == Publishing(p)
  <1>1. /\ TypeOK /\ sess[s].pc = "trail" /\ Me(s) = sess[s]
        /\ UNCHANGED <<admission, claim, lease, txs, World, guard, reply>>
    BY DEF Inv, PublishTrail, At, Me
  <1>2. "lease" \in Planned /\ sess[s].pc \in Planned
    BY <1>1 DEF Planned
  <1>3. /\ p \in Plan /\ PlanSound(p) /\ PlanStands(p) /\ p.by = s /\ p.call = sess[s].call
        /\ p.res = sess[s].res /\ p.phase = "prepared"
    BY <1>2, PlannedFields
  <1>4. CASE Conclude(s, "corrupt") /\ UNCHANGED trail
    BY <1>1, <1>4, ConcludeStep, OutcomeNames DEF Deciding
  <1>5. CASE trail[p.res] = p.base /\ trail' = [trail EXCEPT ![p.res] = p.trail] /\ Goto(s, "lease")
    <2>1. pub \in txs /\ pub.res = p.res /\ pub.old = p.old /\ pub.trail = p.trail
          /\ pub.phase = "publishing"
      BY <1>1, <1>3, PublishingFields DEF Inv, Driven, Drives
    <2>2. /\ sess' = [sess EXCEPT ![s] = sess'[s]] /\ sess'[s].pc = "lease"
          /\ sess'[s].plan = p /\ sess'[s].call = sess[s].call /\ sess'[s].res = sess[s].res
      BY <1>2, <1>5, DrivenOn
    <2>3. pub = Publishing(sess'[s].plan) /\ pub \in txs'
      BY <1>1, <2>1, <2>2
    <2>. HIDE DEF p, pub
    <2>4. p.res \in Resource /\ p.trail \in Seq(Transition) /\ trail \in [Resource -> Seq(Transition)]
      BY <1>1, <1>3, PlanFields DEF TypeOK
    <2>5. lease[p.res] = p.old /\ trail'[p.res] = p.trail
      BY <1>3, <1>5, <2>4, BaseAgrees
    <2>6. ASSUME NEW q \in Plan, PlanStands(q) PROVE PlanStands(q)'
      <3>1. /\ Prefix(q.base, trail'[q.res])
            /\ q.res = p.res => Len(q.base) < Len(trail'[q.res])
        BY <1>1, <1>3, <1>5, <2>6, TrailGrows
      <3>2. q.res # p.res => trail'[q.res] = trail[q.res]
        BY <1>5, <2>4, <2>6, PlanFields
      <3>. QED
        BY <1>1, <2>6, <3>1, <3>2 DEF PlanStands
    <2>7. Plans'
      <3>1. \A q \in txs' : PlanSound(q) /\ PlanStands(q)'
        BY <1>1, <2>6 DEF Inv, Plans, TypeOK
      <3>2. ASSUME NEW t \in Session, sess'[t].pc \in Planned PROVE PlanStands(sess[t].plan)'
        <4>1. sess'[t].plan = sess[t].plan /\ sess[t].pc \in Planned /\ PlanStands(sess[t].plan)
          BY <1>2, <1>5, <3>2, CallsPlans
        <4>2. sess[t].plan \in Plan
          BY <4>1, PlannedFields
        <4>. DEFINE q == sess[t].plan
        <4>3. q \in Plan /\ PlanStands(q) /\ sess'[t].plan = q
          BY <4>1, <4>2
        <4>. HIDE DEF q
        <4>4. Stood(q)
          BY <2>6, <4>3 DEF PlanStands, Stood
        <4>. QED
          BY <4>3, <4>4 DEF PlanStands, Stood
      <3>. QED
        BY <3>1, <3>2 DEF Plans, PlanSound, Agreed, Added, PlanStands
    <2>8. Driven'
      <3>1. \A t \in Session \ {s} : Drives(t)'
        BY <1>1, <2>2, OthersDrive
      <3>2. Drives(s)'
        BY <1>3, <2>2, <2>3 DEF Drives
      <3>. QED
        BY <3>1, <3>2 DEF Driven
    <2>9. Filed'
      <3>. SUFFICES ASSUME NEW r \in Resource
                    PROVE  \/ Agreed(trail'[r], lease'[r])
                           \/ \E q \in txs' : /\ q.phase = "publishing" /\ q.res = r
                                              /\ trail'[r] = q.trail /\ lease'[r] = q.old
        BY DEF Filed, Agreed
      <3>1. CASE r = p.res
        BY <1>1, <2>1, <2>3, <2>5, <3>1
      <3>2. CASE r # p.res
        <4>1. trail'[r] = trail[r]
          BY <1>5, <2>4, <3>2
        <4>. QED
          BY <1>1, <4>1 DEF Inv, Filed
      <3>. QED
        BY <3>1, <3>2
    <2>10. /\ trail' \in [Resource -> Seq(Transition)] /\ lease' \in [Resource -> Lease \cup {NoLease}]
           /\ txs' \subseteq Plan
      BY <1>1, <1>5, <2>4 DEF TypeOK
    <2>. QED
      BY <1>1, <1>2, <1>5, <2>7, <2>8, <2>9, <2>10, DriveStep
  <1>. QED
    BY <1>1, <1>4, <1>5 DEF PublishTrail

LEMMA PublishLeaseStep == ASSUME Inv, NEW s \in Session, PublishLease(s) PROVE Inv'
  <1>. DEFINE p == sess[s].plan
              pub == Publishing(p)
  <1>1. /\ TypeOK /\ sess[s].pc = "lease" /\ Me(s) = sess[s]
        /\ UNCHANGED <<admission, claim, trail, World, guard, reply>>
    BY DEF Inv, PublishLease, At, Me
  <1>2. sess[s].pc \in Planned
    BY <1>1 DEF Planned
  <1>3. /\ p \in Plan /\ PlanSound(p) /\ PlanStands(p) /\ p.by = s /\ p.call = sess[s].call
        /\ p.res = sess[s].res /\ p.phase = "prepared"
    BY <1>2, PlannedFields
  <1>4. CASE Conclude(s, "corrupt") /\ UNCHANGED <<lease, txs>>
    BY <1>1, <1>4, ConcludeStep, OutcomeNames DEF Deciding
  <1>5. CASE /\ lease[p.res] = p.old /\ trail[p.res] = p.trail
             /\ lease' = [lease EXCEPT ![p.res] = p.lease]
             /\ txs' = txs \ {pub} /\ Goto(s, "confirm")
    <2>1. pub.by = s /\ pub.res = p.res
      BY <1>3, PublishingFields
    <2>2. sess' = [sess EXCEPT ![s] = sess'[s]] /\ sess'[s].pc = "confirm"
      BY <1>2, <1>5, DrivenOn
    <2>. HIDE DEF p, pub
    <2>3. /\ p.res \in Resource /\ p.lease \in Lease /\ lease \in [Resource -> Lease \cup {NoLease}]
      BY <1>1, <1>3, PlanFields DEF TypeOK
    <2>4. Agreed(trail'[p.res], lease'[p.res])
      BY <1>1, <1>3, <1>5, <2>3, PlanFacts
    <2>5. \A r \in Resource : r # p.res => lease'[r] = lease[r]
      BY <1>5, <2>3
    <2>6. ASSUME NEW q \in Plan, PlanStands(q) PROVE PlanStands(q)'
      <3>1. q.res \in Resource
        BY PlanFields
      <3>. QED
        BY <1>1, <2>4, <2>5, <2>6, <3>1 DEF PlanStands
    <2>7. Plans'
      <3>1. \A q \in txs' : PlanSound(q) /\ PlanStands(q)'
        BY <1>1, <1>5, <2>6 DEF Inv, Plans, TypeOK
      <3>2. ASSUME NEW t \in Session, sess'[t].pc \in Planned PROVE PlanStands(sess[t].plan)'
        <4>1. sess'[t].plan = sess[t].plan /\ sess[t].pc \in Planned /\ PlanStands(sess[t].plan)
          BY <1>2, <1>5, <3>2, CallsPlans
        <4>2. sess[t].plan \in Plan
          BY <4>1, PlannedFields
        <4>. DEFINE q == sess[t].plan
        <4>3. q \in Plan /\ PlanStands(q) /\ sess'[t].plan = q
          BY <4>1, <4>2
        <4>. HIDE DEF q
        <4>4. Stood(q)
          BY <2>6, <4>3 DEF PlanStands, Stood
        <4>. QED
          BY <4>3, <4>4 DEF PlanStands, Stood
      <3>. QED
        BY <3>1, <3>2 DEF Plans, PlanSound, Agreed, Added, PlanStands
    <2>8. Driven'
      <3>1. \A t \in Session \ {s} : Drives(t)'
        BY <1>5, <2>1, <2>2, OthersDrive
      <3>2. Drives(s)'
        BY <2>2, NothingDriven DEF Planned
      <3>. QED
        BY <3>1, <3>2 DEF Driven
    <2>9. Filed'
      <3>. SUFFICES ASSUME NEW r \in Resource, ~Agreed(trail'[r], lease'[r])
                    PROVE  \E q \in txs' : /\ q.phase = "publishing" /\ q.res = r
                                           /\ trail'[r] = q.trail /\ lease'[r] = q.old
        BY DEF Filed, Agreed
      <3>1. r # p.res /\ lease'[r] = lease[r]
        BY <2>4, <2>5
      <3>2. PICK q \in txs : /\ q.phase = "publishing" /\ q.res = r
                             /\ trail[r] = q.trail /\ lease[r] = q.old
        BY <1>1, <3>1 DEF Inv, Filed
      <3>. QED
        BY <1>1, <1>5, <2>1, <3>1, <3>2
    <2>10. /\ trail' \in [Resource -> Seq(Transition)] /\ lease' \in [Resource -> Lease \cup {NoLease}]
           /\ txs' \subseteq Plan
      BY <1>1, <1>5, <2>3 DEF TypeOK
    <2>. QED
      BY <1>1, <1>2, <1>5, <2>7, <2>8, <2>9, <2>10, DriveStep
  <1>. QED
    BY <1>1, <1>4, <1>5 DEF PublishLease

LEMMA RecoverTransactionStep == ASSUME Inv, NEW p \in txs, RecoverTransaction(p) PROVE Inv'
  <1>1. /\ TypeOK /\ Abandoned(p) /\ txs' = txs \ {p}
        /\ UNCHANGED <<admission, claim, sess, guard, reply, World>>
    BY DEF Inv, RecoverTransaction
  <1>2. p \in Plan /\ PlanSound(p) /\ PlanStands(p)
    BY <1>1 DEF TypeOK, Inv, Plans
  <1>3. /\ p.res \in Resource /\ p.lease \in Lease /\ p.trail \in Seq(Transition)
        /\ trail \in [Resource -> Seq(Transition)] /\ lease \in [Resource -> Lease \cup {NoLease}]
    BY <1>1, <1>2, PlanFields DEF TypeOK
  <1>4. \/ p.phase = "prepared" /\ UNCHANGED <<trail, lease>>
        \/ /\ p.phase = "publishing" /\ trail[p.res] \in {p.base, p.trail}
           /\ trail' = [trail EXCEPT ![p.res] = p.trail]
           /\ lease' = [lease EXCEPT ![p.res] = p.lease]
           /\ Agreed(trail'[p.res], lease'[p.res])
           /\ \A r \in Resource : r # p.res => trail'[r] = trail[r] /\ lease'[r] = lease[r]
    <2>1. CASE p.phase = "prepared" /\ UNCHANGED <<trail, lease>>
      BY <2>1
    <2>2. CASE /\ p.phase = "publishing" /\ trail[p.res] \in {p.base, p.trail}
               /\ trail' = [trail EXCEPT ![p.res] = p.trail]
               /\ lease' = [lease EXCEPT ![p.res] = p.lease]
      <3>1. trail'[p.res] = p.trail /\ lease'[p.res] = p.lease
        BY <1>3, <2>2
      <3>2. Agreed(p.trail, p.lease)
        BY <1>2, PlanFacts
      <3>. QED
        BY <1>3, <2>2, <3>1, <3>2
    <2>. QED
      BY <2>1, <2>2 DEF RecoverTransaction
  <1>5. ASSUME NEW q \in Plan, PlanStands(q) PROVE Stood(q)
    <2>1. CASE UNCHANGED <<trail, lease>>
      BY <1>5, <2>1 DEF PlanStands, Stood
    <2>2. CASE /\ trail[p.res] \in {p.base, p.trail}
               /\ trail' = [trail EXCEPT ![p.res] = p.trail]
               /\ Agreed(trail'[p.res], lease'[p.res])
               /\ \A r \in Resource : r # p.res => trail'[r] = trail[r] /\ lease'[r] = lease[r]
      <3>1. Prefix(q.base, trail'[q.res]) /\ q.res \in Resource
        BY <1>1, <1>2, <1>5, <2>2, TrailGrows, PlanFields
      <3>. QED
        BY <1>5, <2>2, <3>1 DEF PlanStands, Stood
    <2>. QED
      BY <1>4, <2>1, <2>2
  <1>6. Plans'
    <2>1. \A q \in txs' : PlanSound(q) /\ Stood(q)
      BY <1>1, <1>5 DEF Inv, Plans, TypeOK
    <2>2. ASSUME NEW t \in Session, sess[t].pc \in Planned PROVE Stood(sess[t].plan)
      <3>1. sess[t].plan \in Plan /\ PlanStands(sess[t].plan)
        BY <2>2, PlannedFields
      <3>. QED
        BY <1>5, <3>1
    <2>. QED
      BY <1>1, <2>1, <2>2 DEF Plans, PlanSound, Agreed, Added, PlanStands, Stood
  <1>7. Driven'
    <2>. SUFFICES ASSUME NEW t \in Session PROVE Drives(t)'
      BY DEF Driven
    <2>1. Drives(t) /\ sess'[t] = sess[t]
      BY <1>1 DEF Inv, Driven
    <2>2. CASE sess[t].pc \in {"authorize", "trail", "lease"}
      <3>. DEFINE q == sess[t].plan
      <3>1. q \in Plan /\ q.by = t /\ q.call = sess[t].call
        BY <2>2, PlannedFields DEF Planned
      <3>2. Publishing(q).by = t /\ Publishing(q).call = sess[t].call
        BY <3>1, PublishingFields
      <3>3. ~(p.by = t /\ p.call = sess[t].call)
        BY <1>1, <2>2 DEF Abandoned
      <3>4. p # q /\ p # Publishing(q)
        BY <3>1, <3>2, <3>3
      <3>. QED
        BY <1>1, <2>1, <3>4 DEF Drives
    <2>3. CASE sess[t].pc \notin {"authorize", "trail", "lease"}
      BY <2>1, <2>3 DEF Drives
    <2>. QED
      BY <2>2, <2>3
  <1>8. Filed'
    <2>. SUFFICES ASSUME NEW r \in Resource, ~Agreed(trail'[r], lease'[r])
                  PROVE  \E q \in txs' : /\ q.phase = "publishing" /\ q.res = r
                                         /\ trail'[r] = q.trail /\ lease'[r] = q.old
      BY DEF Filed, Agreed
    <2>1. /\ trail'[r] = trail[r] /\ lease'[r] = lease[r]
          /\ ~(p.phase = "publishing" /\ p.res = r)
      BY <1>4
    <2>2. PICK q \in txs : /\ q.phase = "publishing" /\ q.res = r
                           /\ trail[r] = q.trail /\ lease[r] = q.old
      BY <2>1 DEF Inv, Filed
    <2>. QED
      BY <1>1, <2>1, <2>2
  <1>9. TypeOK'
    <2>1. /\ trail' \in [Resource -> Seq(Transition)] /\ lease' \in [Resource -> Lease \cup {NoLease}]
      BY <1>3, <1>4
    <2>. QED
      BY <1>1, <2>1 DEF TypeOK, World, Failing
  <1>10. Calls'
    BY <1>1 DEF Inv, Calls, CallSound, PlanSound, Agreed, Added
  <1>11. ClaimsHeld'
    BY <1>1 DEF Inv, ClaimsHeld, Claimed, Holding
  <1>. QED
    BY <1>6, <1>7, <1>8, <1>9, <1>10, <1>11 DEF Inv

-----------------------------------------------------------------------------

LEMMA StartInv == Init => Inv
  <1>. SUFFICES ASSUME Init PROVE Inv
    OBVIOUS
  <1>1. Idle(0) \in CallState
    BY LocksAssumption, OutcomeNames DEF Idle, CallState, PC, Kind
  <1>2. Idle(0).pc = "idle"
    BY DEF Idle
  <1>3. NoReply \in [kind : Kind, res : Resource, out : Outcome]
    BY OutcomeNames DEF NoReply, Kind
  <1>4. TypeOK
    BY <1>1, <1>3, LocksAssumption DEF Init, TypeOK
  <1>5. \A s \in Session : sess[s].pc = "idle"
    BY <1>2 DEF Init
  <1>6. Calls /\ Plans /\ Driven
    BY <1>5 DEF Init, Calls, CallSound, Plans, Driven, Drives, Planned, Deciding
  <1>7. Filed /\ ClaimsHeld
    BY DEF Init, Filed, Agreed, ClaimsHeld, Claimed
  <1>. QED
    BY <1>4, <1>6, <1>7 DEF Inv

LEMMA StepInv == Inv /\ [Next]_vars => Inv'
  <1>. SUFFICES ASSUME Inv, [Next]_vars PROVE Inv'
    OBVIOUS
  <1>1. ASSUME NEW s \in Session, Call(s) PROVE Inv'
    <2>1. Works[s] \subseteq Resource
      BY LocksAssumption
    <2>. QED
      BY <1>1, <2>1, InspectStep, AcquireStep, RecoverClaimStep, RenewStep, ReleaseStep, TakeoverStep
         DEF Call
  <1>2. ASSUME NEW s \in Session, AcquireClaim(s) PROVE Inv'
    BY <1>2, BeforeStep, PreAdmissionStep, HoldStep, CheckFamilyStep, TakeClaimStep DEF AcquireClaim
  <1>3. ASSUME NEW s \in Session, WithAdmission(s) PROVE Inv'
    BY <1>3, AdmitStep, ElectStep, AgainStep, LeaveAdmissionStep DEF WithAdmission
  <1>4. ASSUME NEW s \in Session, Publish(s) PROVE Inv'
    BY <1>4, DecideStep, PreflightStep, MarkStep, AuthorizeStep, PublishTrailStep, PublishLeaseStep,
       ConfirmStep DEF Publish
  <1>5. ASSUME NEW s \in Session, ReturnClaim(s) PROVE Inv'
    BY <1>5, UnclaimStep, UnmarkStep, ReclaimStep DEF ReturnClaim
  <1>6. CASE UNCHANGED vars
    <2>1. UNCHANGED <<now, admission, claim, trail, lease, txs, sess, guard, reply, failures, asked, unbuilt>>
      BY <1>6 DEF vars
    <2>2. TypeOK'
      BY <2>1 DEF Inv, TypeOK
    <2>3. Calls' /\ Plans' /\ Driven' /\ Filed'
      BY <2>1 DEF Inv, Calls, CallSound, Plans, PlanSound, PlanStands, Agreed, Added, Driven,
         Drives, Filed
    <2>4. ClaimsHeld'
      BY <2>1 DEF Inv, ClaimsHeld, Claimed, Holding
    <2>. QED
      BY <2>2, <2>3, <2>4 DEF Inv
  <1>. QED
    BY <1>1, <1>2, <1>3, <1>4, <1>5, <1>6, BuildFailsStep, CrashStep, RecoverTransactionStep, TickStep
       DEF Next, Step

\* Claims and files stay as the protocol leaves them: what the calls hold, what is
\* prepared and what is published fit together after every step of composition/locks.ts.
THEOREM Invariance == Spec => []Inv
  BY StartInv, StepInv, PTL DEF Spec

\* Every variable of the lease protocol keeps its type: in particular a fencing token
\* never exceeds MaxToken, whichever of the transitions produced it.
THEOREM TypeCorrect == Spec => []TypeOK
  <1>1. Inv => TypeOK
    BY DEF Inv
  <1>. QED
    BY <1>1, Invariance, PTL

\* Whatever crashed, expired or was reclaimed: without a transaction under way the trail
\* and the lease of every resource agree (verifyLeaseBinding).
THEOREM PairsAgree == Spec => []FilesAgree
  <1>1. Inv => FilesAgree
    BY DEF Inv, Filed, FilesAgree, Agreed
  <1>. QED
    BY <1>1, Invariance, PTL

\* A call that returned without recovery_required left no claim behind
\* (completeWithClaim).
THEOREM NoClaimLeftSilently == Spec => []NoSilentClaim
  <1>1. Inv => NoSilentClaim
    <2>. SUFFICES ASSUME Inv, NEW r \in Resource, claim[r] # NoClaim,
                         sess[claim[r].by].pc = "idle", sess[claim[r].by].call = claim[r].call
                  PROVE  reply[claim[r].by].out = "recovery_required"
      BY DEF NoSilentClaim
    <2>1. Claimed(r)
      BY DEF Inv, ClaimsHeld
    <2>. QED
      BY <2>1 DEF Claimed, Holding, Deciding
  <1>. QED
    BY <1>1, Invariance, PTL

\* One transition of a sound plan extends the history it was prepared over.
LEMMA PlanExtends ==
    ASSUME NEW p \in Plan, PlanSound(p)
    PROVE  /\ Len(p.trail) = Len(p.base) + 1
           /\ SubSeq(p.trail, 1, Len(p.base)) = p.base
           /\ Last(p.trail).lease.token >= LastToken(p.base)
           /\ p.base # <<>> /\ Last(p.trail).lease.id # Last(p.base).lease.id =>
                Last(p.trail).lease.token > LastToken(p.base)
  <1>1. Len(p.trail) = Len(p.base) + 1 /\ SubSeq(p.trail, 1, Len(p.base)) = p.base
    BY PlanFacts
  <1>2. /\ Last(p.trail).lease = p.lease /\ Extends(p.base, Added(p).action, p.lease.token)
        /\ p.base # <<>> /\ p.lease.id # Last(p.base).lease.id => p.lease.token > LastToken(p.base)
    BY DEF PlanSound, Added
  <1>3. p.lease.token \in Nat /\ LastToken(p.base) \in Nat
    <2>1. p.lease \in Lease /\ p.base \in Seq(Transition)
      BY PlanFields
    <2>2. p.base # <<>> => Last(p.base) \in Transition
      BY <2>1 DEF Last
    <2>. QED
      BY <2>1, <2>2, LeaseAssumption DEF LastToken, Transition, Lease
  <1>4. p.lease.token >= LastToken(p.base)
    BY <1>2, <1>3 DEF Extends, LegalToken
  <1>. QED
    BY <1>1, <1>2, <1>4

\* Only a publication changes a trail, and it replaces the trail the plan was
\* prepared over.
LEMMA TrailChanges ==
    ASSUME Inv, [Next]_vars, NEW r \in Resource, trail'[r] # trail[r]
    PROVE  \E p \in Plan : PlanSound(p) /\ p.res = r /\ trail[r] = p.base /\ trail'[r] = p.trail
  <1>. DEFINE Goal == \E p \in Plan : /\ PlanSound(p) /\ p.res = r
                                      /\ trail[r] = p.base /\ trail'[r] = p.trail
  <1>1. trail \in [Resource -> Seq(Transition)]
    BY DEF Inv, TypeOK
  <1>2. trail' # trail
    OBVIOUS
  <1>3. ASSUME NEW s \in Session, PublishTrail(s) PROVE Goal
    <2>. DEFINE p == sess[s].plan
    <2>1. sess[s].pc \in Planned /\ Me(s) = sess[s]
      BY <1>3 DEF PublishTrail, At, Planned, Me
    <2>2. p \in Plan /\ PlanSound(p)
      BY <2>1, PlannedFields
    <2>3. trail[p.res] = p.base /\ trail' = [trail EXCEPT ![p.res] = p.trail]
      BY <1>2, <1>3, <2>1 DEF PublishTrail
    <2>. QED
      BY <1>1, <2>2, <2>3
  <1>4. ASSUME NEW p \in txs, RecoverTransaction(p) PROVE Goal
    <2>1. p \in Plan /\ PlanSound(p)
      BY DEF Inv, TypeOK, Plans
    <2>2. trail[p.res] \in {p.base, p.trail} /\ trail' = [trail EXCEPT ![p.res] = p.trail]
      BY <1>2, <1>4 DEF RecoverTransaction
    <2>3. p.res = r /\ trail'[r] = p.trail
      BY <1>1, <2>2
    <2>. QED
      BY <2>1, <2>2, <2>3
  <1>5. CASE UNCHANGED vars
    BY <1>2, <1>5 DEF vars
  <1>6. ASSUME Tick PROVE Goal
    BY <1>2, <1>6 DEF Tick, Files
  <1>7. ASSUME NEW s \in Session, Call(s) \/ BuildFails(s) \/ Crash(s) PROVE Goal
    <2>1. ~Call(s)
      BY <1>2 DEF Call, Inspect, Acquire, RecoverClaim, Renew, Release, Takeover, Begin, Files
    <2>2. ~BuildFails(s) /\ ~Crash(s)
      BY <1>2 DEF BuildFails, Crash, Files
    <2>. QED
      BY <1>7, <2>1, <2>2
  <1>8. ASSUME NEW s \in Session, AcquireClaim(s) \/ WithAdmission(s) \/ ReturnClaim(s) PROVE Goal
    BY <1>2, <1>8 DEF AcquireClaim, WithAdmission, ReturnClaim, Before, PreAdmission, Hold, CheckFamily,
       TakeClaim, Admit, Elect, Again, LeaveAdmission, Unclaim, Unmark, Reclaim, Files
  <1>9. ASSUME NEW s \in Session, Publish(s), ~PublishTrail(s) PROVE Goal
    BY <1>2, <1>9 DEF Publish, Decide, Preflight, MarkTransaction, Authorize, PublishLease, Confirm, Files
  <1>. QED
    BY <1>3, <1>4, <1>5, <1>6, <1>7, <1>8, <1>9 DEF Next, Step

\* A history is only extended, by one transition at a time, and a lease of another
\* identity has a higher fencing token (prepareLeaseTransition, validateTokenTransition):
\* whoever holds, loses or steals which claim.
THEOREM HistoriesExtend == Spec => HistoryExtends
  <1>1. ASSUME Inv, [Next]_vars, NEW r \in Resource, trail'[r] # trail[r]
        PROVE  /\ Len(trail'[r]) = Len(trail[r]) + 1
               /\ SubSeq(trail'[r], 1, Len(trail[r])) = trail[r]
               /\ Last(trail'[r]).lease.token >= LastToken(trail[r])
               /\ trail[r] # <<>> /\ Last(trail'[r]).lease.id # Last(trail[r]).lease.id =>
                    Last(trail'[r]).lease.token > LastToken(trail[r])
    <2>1. PICK p \in Plan : PlanSound(p) /\ p.res = r /\ trail[r] = p.base /\ trail'[r] = p.trail
      BY <1>1, TrailChanges
    <2>. QED
      BY <2>1, PlanExtends
  <1>2. Inv /\ [Next]_vars =>
          [\A r \in Resource :
            trail'[r] # trail[r] =>
                /\ Len(trail'[r]) = Len(trail[r]) + 1
                /\ SubSeq(trail'[r], 1, Len(trail[r])) = trail[r]
                /\ Last(trail'[r]).lease.token >= LastToken(trail[r])
                /\ trail[r] # <<>> /\ Last(trail'[r]).lease.id # Last(trail[r]).lease.id =>
                     Last(trail'[r]).lease.token > LastToken(trail[r])]_vars
    BY <1>1
  <1>. QED
    BY <1>2, Invariance, PTL DEF Spec, HistoryExtends

-----------------------------------------------------------------------------
(* Two promises to sessions.  The skew window: two sessions never rely on the  *)
(* same resource at once; no claim and no transaction is needed for it, only   *)
(* what a decision found in the trail it was taken over.  And independent      *)
(* runs: work on one run never stands in the way of another.                   *)

\* Callers ask for one time to live: a renewal never shortens a lease.
OneTTL == \A a, b \in TTL : a = b

\* A session may rely on what it observed.
Relying(s, g) ==
    /\ g # NoGuard
    /\ g.lease.owner = s
    /\ Last(g.trail).action # "release"
    /\ Clock(s) < g.lease.expires

\* It is the holder on record, for at least as long.
Covers(t, s, g) ==
    /\ t # <<>> /\ Last(t).lease.owner = s /\ Last(t).action # "release"
    /\ Last(t).lease.expires >= g.lease.expires

View(s, g) == Relying(s, g) => Covers(trail[g.res], s, g)

Views == \A s \in Session : View(s, guard[s]) /\ View(s, sess[s].got)

\* No lease outlives the time to live, counted on the clock of its owner.
Term(l) == \A ttl \in TTL : l.expires <= Clock(l.owner) + ttl

Terms == \A r \in Resource : trail[r] # <<>> => Term(Last(trail[r]).lease)

\* What a decision found about the lease it replaces.
PlanFair(p) ==
    LET old == Last(p.base).lease
    IN  /\ p.lease.owner = p.by /\ Term(p.lease)
        /\ Added(p).action = "renew" => old.owner = p.by /\ p.lease.expires >= old.expires
        /\ Added(p).action = "release" => old.owner = p.by
        /\ Added(p).action = "takeover" => now >= old.expires

\* The call has not read back a result.
Early(c) ==
    \/ c.pc \in Deciding \cup {"before", "pre", "hold", "family", "claim"}
    \/ c.pc = "leave" /\ c.after = "decide"
    \/ c.pc \in {"admit", "elect", "again"} /\ c.goal = "hold"

\* What a call brought along: renewal and release the session's own lease, and
\* whoever releases has stopped relying on it.
Entry(s, c, g) ==
    /\ c.pc = "idle" => c.kind = "none"
    /\ c.kind \in {"renew", "release"} => c.seen.lease.owner = s
    /\ c.kind \in Lifecycle => c.ttl \in TTL
    /\ c.kind = "release" => g = NoGuard
    /\ c.pc = "dead" => g = NoGuard /\ c.got = NoGuard
    /\ Early(c) => c.got = NoGuard
    /\ c.pc \in Planned => Added(c.plan).action = c.kind

Entries == \A s \in Session : Entry(s, sess[s], guard[s])

Fair ==
    /\ \A p \in txs : PlanFair(p)
    /\ \A s \in Session : sess[s].pc \in Planned => PlanFair(sess[s].plan)

\* A transaction that can still publish its events is being driven, or its driver
\* is dead.
Publishable ==
    \A p \in txs : p.phase = "publishing" /\ trail[p.res] = p.base =>
        \/ sess[p.by].pc = "dead"
        \/ sess[p.by].pc = "trail" /\ Publishing(sess[p.by].plan) = p

Held == Views /\ Terms /\ Entries /\ Fair /\ Publishable

-----------------------------------------------------------------------------
(* Steps that leave the trails alone.                                        *)

USE DEF Resource

LEMMA NoView ==
    ASSUME NEW s
    PROVE  View(s, NoGuard)
  BY DEF View, Relying

LEMMA HolderStep ==
    ASSUME Inv, Held, NEW s \in Session, sess' = [sess EXCEPT ![s] = sess'[s]],
           now' = now, trail' = trail, txs' = txs,
           \A t \in Session \ {s} : guard'[t] = guard[t],
           Entry(s, sess'[s], guard'[s]), View(s, guard'[s]), View(s, sess'[s].got),
           sess'[s].pc \in Planned => PlanFair(sess'[s].plan),
           sess[s].pc \notin {"trail", "dead"} \/ sess'[s].pc = "dead"
    PROVE  Held'
  <1>1. \A t \in Session \ {s} : sess'[t] = sess[t]
    BY DEF Inv, TypeOK
  <1>2. Views'
    <2>. SUFFICES ASSUME NEW t \in Session
                  PROVE  View(t, guard[t])' /\ View(t, sess[t].got)'
      BY DEF Views
    <2>1. View(t, guard'[t]) /\ View(t, sess'[t].got)
      BY <1>1 DEF Held, Views
    <2>. QED
      BY <2>1 DEF View, Relying, Clock
  <1>3. Terms'
    BY DEF Held, Terms, Term, Clock
  <1>4. Entries'
    <2>. SUFFICES ASSUME NEW t \in Session PROVE Entry(t, sess'[t], guard'[t])
      BY DEF Entries, Entry, Added, Early
    <2>. QED
      BY <1>1 DEF Held, Entries
  <1>5. Fair'
    <2>1. \A p : PlanFair(p)' <=> PlanFair(p)
      BY DEF PlanFair, Term, Clock, Added
    <2>2. ASSUME NEW t \in Session, sess'[t].pc \in Planned PROVE PlanFair(sess'[t].plan)
      BY <1>1, <2>2 DEF Held, Fair
    <2>. QED
      BY <2>1, <2>2 DEF Held, Fair, PlanFair, Term, Clock, Added
  <1>6. Publishable'
    <2>. SUFFICES ASSUME NEW p \in txs, p.phase = "publishing", trail[p.res] = p.base
                  PROVE  \/ sess'[p.by].pc = "dead"
                         \/ sess'[p.by].pc = "trail" /\ Publishing(sess'[p.by].plan) = p
      BY DEF Publishable, Publishing
    <2>1. \/ sess[p.by].pc = "dead"
          \/ sess[p.by].pc = "trail" /\ Publishing(sess[p.by].plan) = p
      BY DEF Held, Publishable
    <2>2. p.by \in Session
      BY PlanFields DEF Inv, TypeOK
    <2>. QED
      BY <1>1, <2>1, <2>2
  <1>. QED
    BY <1>2, <1>3, <1>4, <1>5, <1>6 DEF Held

\* A call goes on and carries along what it brought.
LEMMA Quiet ==
    ASSUME Inv, Held, NEW s \in Session, sess' = [sess EXCEPT ![s] = sess'[s]],
           now' = now, trail' = trail, txs' = txs, guard' = guard,
           sess'[s].kind = sess[s].kind, sess'[s].ttl = sess[s].ttl,
           sess'[s].seen = sess[s].seen \/ sess[s].kind = "acquire",
           sess'[s].got = sess[s].got, Early(sess'[s]) => Early(sess[s]),
           sess'[s].pc \notin Planned, sess'[s].pc \notin {"idle", "dead"}, sess[s].pc \notin {"trail", "dead"}
    PROVE  Held'
  <1>1. Entry(s, sess[s], guard[s])
    BY DEF Held, Entries
  <1>2. Entry(s, sess'[s], guard'[s])
    BY <1>1 DEF Entry
  <1>3. View(s, guard'[s]) /\ View(s, sess'[s].got)
    BY DEF Held, Views
  <1>. QED
    BY <1>2, <1>3, HolderStep

LEMMA QuietReturn ==
    ASSUME Inv, Held, NEW s \in Session, NEW out \in Outcome, Return(s, out),
           now' = now, trail' = trail, txs' = txs, sess[s].pc \notin {"trail", "dead"}
    PROVE  Held'
  <1>1. /\ sess' = [sess EXCEPT ![s] = sess'[s]] /\ sess'[s].pc = "idle"
        /\ sess'[s].got = NoGuard /\ sess'[s].kind = "none"
        /\ \A t \in Session \ {s} : guard'[t] = guard[t]
        /\ guard'[s] \in {guard[s], sess[s].got}
    BY ReturnFields DEF Inv
  <1>2. View(s, guard'[s]) /\ View(s, sess'[s].got)
    BY <1>1, NoView DEF Held, Views
  <1>3. Entry(s, sess'[s], guard'[s]) /\ sess'[s].pc \notin Planned
    BY <1>1 DEF Entry, Early, Planned, Deciding, Lifecycle
  <1>. QED
    BY <1>1, <1>2, <1>3, HolderStep

LEMMA QuietGoto ==
    ASSUME Inv, Held, NEW s \in Session, NEW pc \in PC, Goto(s, pc),
           now' = now, trail' = trail, txs' = txs, guard' = guard, pc \notin Planned, pc \notin {"idle", "dead"},
           sess[s].pc \notin {"trail", "dead"}, Early(sess'[s]) => Early(sess[s])
    PROVE  Held'
  <1>1. TypeOK
    BY DEF Inv
  <1>2. /\ sess' = [sess EXCEPT ![s] = sess'[s]] /\ sess'[s].pc = pc
        /\ sess'[s].kind = sess[s].kind /\ sess'[s].ttl = sess[s].ttl
        /\ sess'[s].seen = sess[s].seen /\ sess'[s].got = sess[s].got
    BY <1>1, GotoFields
  <1>. QED
    BY <1>2, Quiet

LEMMA QuietConclude ==
    ASSUME Inv, Held, NEW s \in Session, NEW out \in Outcome, Conclude(s, out),
           now' = now, trail' = trail, txs' = txs, guard' = guard, sess[s].pc \notin {"trail", "dead"}
    PROVE  Held'
  <1>1. TypeOK
    BY DEF Inv
  <1>2. /\ sess' = [sess EXCEPT ![s] = sess'[s]] /\ sess'[s].pc = "admit" /\ sess'[s].goal = "unclaim"
        /\ sess'[s].kind = sess[s].kind /\ sess'[s].ttl = sess[s].ttl
        /\ sess'[s].seen = sess[s].seen /\ sess'[s].got = sess[s].got
    BY <1>1, ConcludeFields
  <1>3. ~Early(sess'[s]) /\ sess'[s].pc \notin Planned
    BY <1>2 DEF Early, Deciding, Planned
  <1>. QED
    BY <1>2, <1>3, Quiet

LEMMA QuietLeave ==
    ASSUME Inv, Held, NEW s \in Session, NEW out \in Outcome, Leave(s, "idle", out),
           now' = now, trail' = trail, txs' = txs, guard' = guard, sess[s].pc \notin {"trail", "dead"}
    PROVE  Held'
  <1>1. TypeOK
    BY DEF Inv
  <1>2. /\ sess' = [sess EXCEPT ![s] = sess'[s]] /\ sess'[s].pc = "leave" /\ sess'[s].after = "idle"
        /\ sess'[s].kind = sess[s].kind /\ sess'[s].ttl = sess[s].ttl
        /\ sess'[s].seen = sess[s].seen /\ sess'[s].got = sess[s].got
    BY <1>1, LeaveFields
  <1>3. ~Early(sess'[s]) /\ sess'[s].pc \notin Planned
    BY <1>2 DEF Early, Deciding, Planned
  <1>. QED
    BY <1>2, <1>3, Quiet

LEMMA QuietSame ==
    ASSUME Inv, Held, now' = now, trail' = trail, txs' = txs, guard' = guard, sess' = sess
    PROVE  Held'
  BY DEF Held, Views, View, Relying, Clock, Terms, Term, Entries, Entry, Early, Added, Fair,
     PlanFair, Publishable, Publishing

-----------------------------------------------------------------------------
(* Before the claim, the admission and the claim.                            *)

LEMMA HoldsBegin ==
    ASSUME Inv, Held, NEW s \in Session, NEW kind \in Lifecycle, NEW r \in Resource,
           NEW pc \in {"before", "pre"}, Begin(s, kind, r, pc),
           kind \in {"renew", "release"} => guard[s].lease.owner = s,
           IF kind = "release" THEN guard' = [guard EXCEPT ![s] = NoGuard] ELSE guard' = guard
    PROVE  Held'
  <1>1. TypeOK
    BY DEF Inv
  <1>2. /\ sess' = [sess EXCEPT ![s] = sess'[s]] /\ sess'[s].pc = pc /\ sess'[s].kind = kind
        /\ sess'[s].got = NoGuard /\ sess'[s].seen = guard[s] /\ sess'[s].ttl \in TTL
    BY <1>1, BeginFields
  <1>3. now' = now /\ trail' = trail /\ txs' = txs /\ sess[s].pc = "idle"
    BY DEF Begin, Files, World, At
  <1>4. /\ \A t \in Session \ {s} : guard'[t] = guard[t]
        /\ guard'[s] \in {guard[s], NoGuard} /\ (kind = "release" => guard'[s] = NoGuard)
    BY <1>1 DEF TypeOK
  <1>5. View(s, guard'[s]) /\ View(s, sess'[s].got)
    BY <1>2, <1>4, NoView DEF Held, Views
  <1>6. Entry(s, sess'[s], guard'[s]) /\ sess'[s].pc \notin Planned
    BY <1>2, <1>4 DEF Entry, Planned
  <1>. QED
    BY <1>2, <1>3, <1>4, <1>5, <1>6, HolderStep

\* What an inspection finds is what the trail says.
LEMMA FreshView ==
    ASSUME Inv, NEW s \in Session, NEW r \in Resource, Look(s, r) \notin Unreadable
    PROVE  View(s, CurrentGuard(r))
  <1>1. CASE lease[r] = NoLease
    BY <1>1, NoView DEF CurrentGuard
  <1>2. CASE lease[r] # NoLease
    <2>1. Binds(trail[r], lease[r])
      BY <1>2, ReadableAgrees
    <2>. DEFINE g == CurrentGuard(r)
    <2>2. g.res = r /\ g.trail = trail[r] /\ g.lease = lease[r]
      BY <1>2 DEF CurrentGuard
    <2>3. lease[r].expires \in Nat
      BY <1>2 DEF Inv, TypeOK, Lease
    <2>. HIDE DEF g
    <2>4. View(s, g)
      BY <2>1, <2>2, <2>3 DEF View, Relying, Covers, Binds
    <2>. QED
      BY <2>4 DEF g
  <1>. QED
    BY <1>1, <1>2

LEMMA HoldsInspect == ASSUME Inv, Held, NEW s \in Session, NEW r \in Resource, Inspect(s, r) PROVE Held'
  <1>. DEFINE seen == IF Marked(r) THEN "recovery_required" ELSE Look(s, r)
              view == IF seen \in Unreadable THEN guard[s] ELSE CurrentGuard(r)
  <1>1. /\ TypeOK /\ sess[s].pc = "idle" /\ now' = now /\ trail' = trail /\ txs' = txs
        /\ guard' = [guard EXCEPT ![s] = view] /\ sess' = [sess EXCEPT ![s].call = @ + 1]
    BY DEF Inv, Inspect, At, Files, World
  <1>2. View(s, view)
    <2>1. CASE seen \in Unreadable
      BY <2>1 DEF Held, Views
    <2>2. CASE seen \notin Unreadable
      <3>1. Look(s, r) \notin Unreadable
        BY <2>2 DEF Unreadable
      <3>. QED
        BY <2>2, <3>1, FreshView
    <2>. QED
      BY <2>1, <2>2
  <1>. HIDE DEF view, seen
  <1>3. guard \in [Session -> Guard \cup {NoGuard}] /\ sess \in [Session -> CallState] /\ sess[s] \in CallState
    BY <1>1 DEF TypeOK
  <1>4. guard'[s] = view /\ \A t \in Session \ {s} : guard'[t] = guard[t]
    BY <1>1, <1>3
  <1>5. /\ sess'[s] = [sess[s] EXCEPT !.call = sess[s].call + 1]
        /\ sess' = [sess EXCEPT ![s] = sess'[s]]
    BY <1>1, <1>3
  <1>6. /\ sess'[s].pc = "idle" /\ sess'[s].kind = sess[s].kind /\ sess'[s].got = sess[s].got
    BY <1>1, <1>3, <1>5 DEF CallState
  <1>7. Entry(s, sess'[s], guard'[s]) /\ sess'[s].pc \notin Planned
    BY <1>1, <1>6 DEF Held, Entries, Entry, Early, Planned, Deciding, Lifecycle
  <1>. QED
    BY <1>1, <1>2, <1>4, <1>5, <1>6, <1>7, HolderStep DEF Held, Views

LEMMA HoldsRecoverClaim ==
    ASSUME Inv, Held, NEW s \in Session, NEW r \in Resource, RecoverClaim(s, r) PROVE Held'
  <1>1. /\ TypeOK /\ sess[s].pc = "idle" /\ now' = now /\ trail' = trail /\ txs' = txs /\ guard' = guard
    BY DEF Inv, RecoverClaim, At, Files, World
  <1>2. /\ sess' = [sess EXCEPT ![s] = sess'[s]]
        /\ sess'[s] = [pc |-> "admit", call |-> sess[s].call + 1, kind |-> "recover", res |-> r,
            ttl |-> 0, seen |-> NoGuard, goal |-> "reclaim", after |-> "idle", adm |-> NoClaim,
            mine |-> claim[r], plan |-> NoPlan, out |-> "none", got |-> NoGuard]
    BY <1>1 DEF TypeOK, RecoverClaim, Idle, Me
  <1>3. /\ sess'[s].pc = "admit" /\ sess'[s].kind = "recover" /\ sess'[s].goal = "reclaim"
        /\ sess'[s].got = NoGuard
    BY <1>2
  <1>4. Entry(s, sess'[s], guard'[s]) /\ sess'[s].pc \notin Planned
    BY <1>3 DEF Entry, Early, Planned, Deciding, Lifecycle
  <1>5. View(s, guard'[s]) /\ View(s, sess'[s].got)
    BY <1>1, <1>3, NoView DEF Held, Views
  <1>. QED
    BY <1>1, <1>2, <1>4, <1>5, HolderStep

LEMMA HoldsCall ==
    ASSUME Inv, Held, NEW s \in Session, Call(s) PROVE Held'
  <1>1. TypeOK /\ Works[s] \subseteq Resource
    BY LocksAssumption DEF Inv
  <1>2. ASSUME NEW r \in Works[s], Acquire(s, r) PROVE Held'
    BY <1>1, <1>2, HoldsBegin DEF Acquire, Lifecycle
  <1>3. ASSUME Renew(s) PROVE Held'
    BY <1>1, <1>3, GuardRes, HoldsBegin DEF Renew, Owns, Lifecycle
  <1>4. ASSUME Release(s) PROVE Held'
    BY <1>1, <1>4, GuardRes, HoldsBegin DEF Release, Owns, Lifecycle
  <1>5. ASSUME Takeover(s) PROVE Held'
    BY <1>1, <1>5, GuardRes, HoldsBegin DEF Takeover, Lifecycle
  <1>. QED
    BY <1>1, <1>2, <1>3, <1>4, <1>5, HoldsInspect, HoldsRecoverClaim DEF Call

LEMMA HoldsBefore == ASSUME Inv, Held, NEW s \in Session, Before(s) PROVE Held'
  <1>. DEFINE r == sess[s].res
              saw == IF Marked(r) THEN "recovery_required" ELSE Look(s, r)
  <1>1. /\ TypeOK /\ sess[s].pc = "before" /\ now' = now /\ trail' = trail /\ txs' = txs /\ Me(s) = sess[s]
        /\ Early(sess[s])
    BY DEF Inv, Before, At, Files, World, Me, Early
  <1>2. saw \in Outcome /\ "conflict" \in Outcome /\ "released" \in Outcome
    BY LookType, OutcomeNames
  <1>3. CASE \E out \in Outcome : Return(s, out)
    BY <1>1, <1>3, QuietReturn
  <1>4. CASE Goto(s, "pre") /\ guard' = guard
    BY <1>1, <1>4, QuietGoto DEF PC, Planned
  <1>5. CASE /\ sess[s].kind = "acquire" /\ guard' = guard
             /\ sess' = [sess EXCEPT ![s].pc = "pre", ![s].seen = CurrentGuard(r)]
    <2>1. sess \in [Session -> CallState] /\ sess[s] \in CallState
      BY <1>1, MeType
    <2>. DEFINE g == CurrentGuard(r)
    <2>2. /\ sess' = [sess EXCEPT ![s] = sess'[s]]
          /\ sess'[s] = [sess[s] EXCEPT !.pc = "pre", !.seen = g]
      BY <1>5, <2>1
    <2>. HIDE DEF g
    <2>3. /\ sess'[s].pc = "pre" /\ sess'[s].kind = sess[s].kind
          /\ sess'[s].ttl = sess[s].ttl /\ sess'[s].got = sess[s].got
      BY <2>1, <2>2 DEF CallState
    <2>. QED
      BY <1>1, <1>5, <2>2, <2>3, Quiet DEF Planned
  <1>. QED
    <2>1. \/ Return(s, saw) \/ Return(s, "conflict") \/ Return(s, "released")
          \/ Goto(s, "pre") /\ guard' = guard
          \/ /\ sess[s].kind = "acquire" /\ guard' = guard
             /\ sess' = [sess EXCEPT ![s].pc = "pre", ![s].seen = CurrentGuard(r)]
      BY <1>1 DEF Before
    <2>. QED
      BY <1>2, <1>3, <1>4, <1>5, <2>1

LEMMA HoldsPreAdmission == ASSUME Inv, Held, NEW s \in Session, PreAdmission(s) PROVE Held'
  <1>1. /\ TypeOK /\ sess[s].pc = "pre" /\ now' = now /\ trail' = trail /\ txs' = txs /\ Me(s) = sess[s]
        /\ Early(sess[s])
    BY DEF Inv, PreAdmission, At, Files, World, Me, Early
  <1>2. Look(s, sess[s].res) \in Outcome /\ "conflict" \in Outcome
    BY LookType, OutcomeNames
  <1>3. CASE \E out \in Outcome : Return(s, out)
    BY <1>1, <1>3, QuietReturn
  <1>4. CASE Goto(s, "admit") /\ guard' = guard
    BY <1>1, <1>4, QuietGoto DEF PC, Planned
  <1>. QED
    BY <1>1, <1>2, <1>3, <1>4 DEF PreAdmission

LEMMA HoldsAdmit == ASSUME Inv, Held, NEW s \in Session, Admit(s) PROVE Held'
  <1>1. /\ TypeOK /\ sess[s].pc = "admit" /\ now' = now /\ trail' = trail /\ txs' = txs /\ Me(s) = sess[s]
        /\ sess[s].goal \in {"hold", "unclaim", "reclaim"}
    BY DEF Inv, Admit, At, World, Me, Calls, CallSound
  <1>2. Blocked[sess[s].goal] \in Outcome
    BY <1>1, OutcomeNames DEF Blocked
  <1>3. CASE Return(s, Blocked[sess[s].goal])
    BY <1>1, <1>2, <1>3, QuietReturn
  <1>4. CASE Goto(s, "elect") /\ guard' = guard
    <2>1. "elect" \in PC /\ "elect" \notin Planned
      BY DEF PC, Planned
    <2>2. sess'[s].pc = "elect" /\ sess'[s].goal = sess[s].goal
      BY <1>1, <1>4, <2>1, GotoFields
    <2>3. Early(sess'[s]) => Early(sess[s])
      BY <1>1, <2>2 DEF Early, Deciding
    <2>. QED
      BY <1>1, <1>4, <2>1, <2>3, QuietGoto
  <1>5. CASE Goto(s, sess[s].goal) /\ guard' = guard
    <2>1. sess[s].goal \in PC /\ sess[s].goal \notin Planned /\ sess[s].goal \notin {"idle", "dead"}
      BY <1>1 DEF PC, Planned
    <2>2. sess'[s].pc = sess[s].goal
      BY <1>1, <1>5, <2>1, GotoFields
    <2>3. Early(sess'[s]) => Early(sess[s])
      BY <1>1, <2>2 DEF Early, Deciding
    <2>. QED
      BY <1>1, <1>5, <2>1, <2>3, QuietGoto
  <1>. QED
    BY <1>1, <1>3, <1>4, <1>5 DEF Admit

LEMMA HoldsElect == ASSUME Inv, Held, NEW s \in Session, Elect(s) PROVE Held'
  <1>. DEFINE record == AdmissionRecord(s)
  <1>1. /\ TypeOK /\ sess[s].pc = "elect" /\ now' = now /\ trail' = trail /\ txs' = txs /\ guard' = guard
        /\ Me(s) = sess[s] /\ sess[s].goal \in {"hold", "unclaim", "reclaim"}
    BY DEF Inv, Elect, At, World, Me, Calls, CallSound
  <1>2. \/ sess' = [sess EXCEPT ![s].pc = sess[s].goal, ![s].adm = record]
        \/ Goto(s, "again")
    BY <1>1 DEF Elect
  <1>. HIDE DEF record
  <1>3. CASE Goto(s, "again")
    <2>1. "again" \in PC /\ "again" \notin Planned
      BY DEF PC, Planned
    <2>2. sess'[s].pc = "again" /\ sess'[s].goal = sess[s].goal
      BY <1>1, <1>3, <2>1, GotoFields
    <2>3. Early(sess'[s]) => Early(sess[s])
      BY <1>1, <2>2 DEF Early, Deciding
    <2>. QED
      BY <1>1, <1>3, <2>1, <2>3, QuietGoto
  <1>4. CASE sess' = [sess EXCEPT ![s].pc = sess[s].goal, ![s].adm = record]
    <2>1. sess \in [Session -> CallState] /\ sess[s] \in CallState
      BY <1>1, MeType
    <2>2. /\ sess' = [sess EXCEPT ![s] = sess'[s]]
          /\ sess'[s] = [sess[s] EXCEPT !.pc = sess[s].goal, !.adm = record]
      BY <1>4, <2>1
    <2>3. /\ sess'[s].pc = sess[s].goal /\ sess'[s].kind = sess[s].kind
          /\ sess'[s].ttl = sess[s].ttl /\ sess'[s].got = sess[s].got /\ sess'[s].seen = sess[s].seen
      BY <2>1, <2>2 DEF CallState
    <2>4. Early(sess'[s]) => Early(sess[s])
      BY <1>1, <2>3 DEF Early, Deciding
    <2>. QED
      BY <1>1, <2>2, <2>3, <2>4, Quiet DEF Planned
  <1>. QED
    BY <1>2, <1>3, <1>4

LEMMA HoldsAgain == ASSUME Inv, Held, NEW s \in Session, Again(s) PROVE Held'
  <1>1. /\ TypeOK /\ sess[s].pc = "again" /\ now' = now /\ trail' = trail /\ txs' = txs /\ Me(s) = sess[s]
        /\ sess[s].goal \in {"hold", "unclaim", "reclaim"}
    BY DEF Inv, Again, At, World, Me, Calls, CallSound
  <1>2. Unexplained[sess[s].goal] \in Outcome
    BY <1>1, OutcomeNames DEF Unexplained
  <1>3. CASE Return(s, Unexplained[sess[s].goal])
    BY <1>1, <1>2, <1>3, QuietReturn
  <1>4. ASSUME NEW pc \in {"admit", sess[s].goal}, Goto(s, pc), guard' = guard PROVE Held'
    <2>1. pc \in PC /\ pc \notin Planned /\ pc \notin {"idle", "dead"}
      BY <1>1 DEF PC, Planned
    <2>2. sess'[s].pc = pc /\ sess'[s].goal = sess[s].goal
      BY <1>1, <1>4, <2>1, GotoFields
    <2>3. Early(sess'[s]) => Early(sess[s])
      BY <1>1, <2>2 DEF Early, Deciding
    <2>. QED
      BY <1>1, <1>4, <2>1, <2>3, QuietGoto
  <1>. QED
    BY <1>1, <1>3, <1>4 DEF Again

LEMMA HoldsBuildFails == ASSUME Inv, Held, NEW s \in Session, BuildFails(s) PROVE Held'
  <1>1. /\ TypeOK /\ sess[s].pc = "elect" /\ now' = now /\ trail' = trail /\ txs' = txs /\ Me(s) = sess[s]
        /\ sess[s].goal \in {"hold", "unclaim", "reclaim"}
    BY DEF Inv, BuildFails, At, Me, Calls, CallSound
  <1>2. PICK out \in {Unexplained[sess[s].goal], Blocked[sess[s].goal]} : Return(s, out)
    BY <1>1 DEF BuildFails
  <1>3. out \in Outcome
    BY <1>1, <1>2, OutcomeNames DEF Unexplained, Blocked
  <1>. QED
    BY <1>1, <1>2, <1>3, QuietReturn

LEMMA HoldsLeaveAdmission == ASSUME Inv, Held, NEW s \in Session, LeaveAdmission(s) PROVE Held'
  <1>1. /\ TypeOK /\ sess[s].pc = "leave" /\ now' = now /\ trail' = trail /\ txs' = txs /\ Me(s) = sess[s]
    BY DEF Inv, LeaveAdmission, At, World, Me
  <1>2. /\ sess \in [Session -> CallState] /\ sess[s] \in CallState /\ sess[s].out \in Outcome
        /\ sess[s].after \in {"idle", "decide"}
    BY <1>1, MeType
  <1>3. CASE sess[s].after = "idle"
    BY <1>1, <1>2, <1>3, QuietReturn DEF LeaveAdmission
  <1>4. CASE sess[s].after = "decide"
    <2>1. sess' = [sess EXCEPT ![s].pc = "decide", ![s].adm = NoClaim] /\ guard' = guard
      BY <1>1, <1>4 DEF LeaveAdmission
    <2>2. /\ sess' = [sess EXCEPT ![s] = sess'[s]]
          /\ sess'[s] = [sess[s] EXCEPT !.pc = "decide", !.adm = NoClaim]
      BY <1>2, <2>1
    <2>3. /\ sess'[s].pc = "decide" /\ sess'[s].kind = sess[s].kind
          /\ sess'[s].ttl = sess[s].ttl /\ sess'[s].got = sess[s].got /\ sess'[s].seen = sess[s].seen
      BY <1>2, <2>2 DEF CallState
    <2>4. Early(sess[s])
      BY <1>1, <1>4 DEF Early
    <2>. QED
      BY <1>1, <2>1, <2>2, <2>3, <2>4, Quiet DEF Planned
  <1>. QED
    BY <1>2, <1>3, <1>4

LEMMA HoldsHold == ASSUME Inv, Held, NEW s \in Session, Hold(s) PROVE Held'
  <1>1. /\ TypeOK /\ sess[s].pc = "hold" /\ now' = now /\ trail' = trail /\ txs' = txs /\ guard' = guard
        /\ Me(s) = sess[s] /\ Early(sess[s])
    BY DEF Inv, Hold, At, World, Me, Early
  <1>2. CASE sess' = sess
    BY <1>1, <1>2, QuietSame
  <1>3. CASE \E out \in Outcome : Leave(s, "idle", out)
    BY <1>1, <1>3, QuietLeave
  <1>4. CASE Goto(s, "family")
    BY <1>1, <1>4, QuietGoto DEF PC, Planned
  <1>5. Look(s, sess[s].res) \in Outcome /\ "conflict" \in Outcome
    BY LookType, OutcomeNames
  <1>. QED
    BY <1>1, <1>2, <1>3, <1>4, <1>5 DEF Hold

LEMMA HoldsFamily == ASSUME Inv, Held, NEW s \in Session, CheckFamily(s) PROVE Held'
  <1>1. /\ TypeOK /\ sess[s].pc = "family" /\ now' = now /\ trail' = trail /\ txs' = txs /\ guard' = guard
        /\ Early(sess[s])
    BY DEF Inv, CheckFamily, At, Files, World, Early
  <1>2. CASE \E out \in Outcome : Leave(s, "idle", out)
    BY <1>1, <1>2, QuietLeave
  <1>3. CASE Goto(s, "claim")
    BY <1>1, <1>3, QuietGoto DEF PC, Planned
  <1>4. \A q : Look(s, q) \in Outcome
    BY LookType
  <1>. QED
    BY <1>2, <1>3, <1>4, OutcomeNames DEF CheckFamily

LEMMA HoldsTakeClaim == ASSUME Inv, Held, NEW s \in Session, TakeClaim(s) PROVE Held'
  <1>. DEFINE record == [by |-> s, call |-> Me(s).call, expires |-> Clock(s) + ClaimTTL, marked |-> FALSE]
  <1>1. /\ TypeOK /\ sess[s].pc = "claim" /\ now' = now /\ trail' = trail /\ txs' = txs /\ guard' = guard
        /\ Early(sess[s])
    BY DEF Inv, TakeClaim, At, World, Early
  <1>2. \/ Leave(s, "idle", "conflict")
        \/ sess' = [sess EXCEPT ![s].pc = "leave", ![s].after = "decide", ![s].mine = record]
    BY DEF TakeClaim
  <1>. HIDE DEF record
  <1>3. CASE Leave(s, "idle", "conflict")
    BY <1>1, <1>3, QuietLeave, OutcomeNames
  <1>4. CASE sess' = [sess EXCEPT ![s].pc = "leave", ![s].after = "decide", ![s].mine = record]
    <2>1. sess \in [Session -> CallState] /\ sess[s] \in CallState
      BY <1>1, MeType
    <2>2. /\ sess' = [sess EXCEPT ![s] = sess'[s]]
          /\ sess'[s] = [sess[s] EXCEPT !.pc = "leave", !.after = "decide", !.mine = record]
      BY <1>4, <2>1
    <2>3. /\ sess'[s].pc = "leave" /\ sess'[s].kind = sess[s].kind
          /\ sess'[s].ttl = sess[s].ttl /\ sess'[s].got = sess[s].got /\ sess'[s].seen = sess[s].seen
      BY <2>1, <2>2 DEF CallState
    <2>. QED
      BY <1>1, <2>2, <2>3, Quiet DEF Planned
  <1>. QED
    BY <1>2, <1>3, <1>4

LEMMA HoldsUnclaim == ASSUME Inv, Held, NEW s \in Session, Unclaim(s) \/ Unmark(s) PROVE Held'
  <1>1. /\ TypeOK /\ sess[s].pc \in {"unclaim", "unmark"} /\ now' = now /\ trail' = trail /\ txs' = txs
        /\ guard' = guard /\ Me(s) = sess[s] /\ sess[s].out \in Outcome
    BY MeType DEF Inv, Unclaim, Unmark, At, World
  <1>2. CASE sess' = sess
    BY <1>1, <1>2, QuietSame
  <1>3. CASE \E out \in Outcome : Leave(s, "idle", out)
    BY <1>1, <1>3, QuietLeave
  <1>4. CASE Goto(s, "unmark")
    <2>1. "unmark" \in PC /\ "unmark" \notin Planned
      BY DEF PC, Planned
    <2>2. sess'[s].pc = "unmark"
      BY <1>1, <1>4, <2>1, GotoFields
    <2>. QED
      BY <1>1, <1>4, <2>1, <2>2, QuietGoto DEF Early, Deciding
  <1>. QED
    BY <1>1, <1>2, <1>3, <1>4, OutcomeNames DEF Unclaim, Unmark

LEMMA HoldsReclaim == ASSUME Inv, Held, NEW s \in Session, Reclaim(s) PROVE Held'
  <1>1. /\ TypeOK /\ sess[s].pc = "reclaim" /\ now' = now /\ trail' = trail /\ txs' = txs
        /\ guard' = guard
    BY DEF Inv, Reclaim, At, World
  <1>2. CASE sess' = sess
    BY <1>1, <1>2, QuietSame
  <1>3. CASE \E out \in Outcome : Leave(s, "idle", out)
    BY <1>1, <1>3, QuietLeave
  <1>4. CASE sess' = [sess EXCEPT ![s].pc = "unmark", ![s].out = "recovered"]
    <2>1. sess \in [Session -> CallState] /\ sess[s] \in CallState
      BY <1>1, MeType
    <2>2. /\ sess' = [sess EXCEPT ![s] = sess'[s]]
          /\ sess'[s] = [sess[s] EXCEPT !.pc = "unmark", !.out = "recovered"]
      BY <1>4, <2>1
    <2>3. /\ sess'[s].pc = "unmark" /\ sess'[s].kind = sess[s].kind
          /\ sess'[s].ttl = sess[s].ttl /\ sess'[s].got = sess[s].got /\ sess'[s].seen = sess[s].seen
      BY <2>1, <2>2 DEF CallState
    <2>4. ~Early(sess'[s]) /\ sess'[s].pc \notin Planned
      BY <2>3 DEF Early, Planned, Deciding
    <2>. QED
      BY <1>1, <2>2, <2>3, <2>4, Quiet
  <1>. QED
    BY <1>2, <1>3, <1>4, OutcomeNames DEF Reclaim

-----------------------------------------------------------------------------
(* The transition.                                                           *)

LEMMA HoldsConfirm == ASSUME Inv, Held, NEW s \in Session, Confirm(s) PROVE Held'
  <1>. DEFINE r == sess[s].res
              view == CurrentGuard(sess[s].res)
              done == Achieved[sess[s].kind]
  <1>1. /\ TypeOK /\ sess[s].pc = "confirm" /\ now' = now /\ trail' = trail /\ txs' = txs
        /\ guard' = guard /\ Me(s) = sess[s] /\ r \in Resource
    BY MeType DEF Inv, Confirm, At, Files, World
  <1>2. Look(s, r) \in Outcome
    BY LookType
  <1>3. CASE Conclude(s, Look(s, r))
    BY <1>1, <1>2, <1>3, QuietConclude
  <1>4. CASE /\ Look(s, r) \notin Unreadable
             /\ sess' = [sess EXCEPT ![s].pc = "admit", ![s].goal = "unclaim", ![s].out = done,
                                     ![s].got = view]
    <2>1. View(s, view)
      BY <1>1, <1>4, FreshView
    <2>. HIDE DEF view, done
    <2>2. sess \in [Session -> CallState] /\ sess[s] \in CallState
      BY <1>1, MeType
    <2>3. /\ sess' = [sess EXCEPT ![s] = sess'[s]]
          /\ sess'[s] = [sess[s] EXCEPT !.pc = "admit", !.goal = "unclaim", !.out = done, !.got = view]
      BY <1>4, <2>2
    <2>4. /\ sess'[s].pc = "admit" /\ sess'[s].goal = "unclaim" /\ sess'[s].kind = sess[s].kind
          /\ sess'[s].ttl = sess[s].ttl /\ sess'[s].got = view /\ sess'[s].seen = sess[s].seen
      BY <2>2, <2>3 DEF CallState
    <2>5. ~Early(sess'[s]) /\ sess'[s].pc \notin Planned
      BY <2>4 DEF Early, Planned, Deciding
    <2>6. Entry(s, sess'[s], guard'[s])
      BY <1>1, <2>4, <2>5 DEF Held, Entries, Entry
    <2>. QED
      BY <1>1, <2>1, <2>3, <2>4, <2>5, <2>6, HolderStep DEF Held, Views
  <1>. QED
    BY <1>1, <1>3, <1>4 DEF Confirm

LEMMA HoldsCrash == ASSUME Inv, Held, NEW s \in Session, Crash(s) PROVE Held'
  <1>1. /\ TypeOK /\ now' = now /\ trail' = trail /\ txs' = txs /\ guard' = [guard EXCEPT ![s] = NoGuard]
    BY DEF Inv, Crash, Files
  <1>2. /\ sess' = [sess EXCEPT ![s] = sess'[s]]
        /\ sess'[s] = [pc |-> "dead", call |-> sess[s].call, kind |-> "none", res |-> Project,
            ttl |-> 0, seen |-> NoGuard, goal |-> "idle", after |-> "idle", adm |-> NoClaim,
            mine |-> NoClaim, plan |-> NoPlan, out |-> "none", got |-> NoGuard]
    BY <1>1 DEF TypeOK, Crash, Idle, Me
  <1>3. sess'[s].pc = "dead" /\ sess'[s].kind = "none" /\ sess'[s].got = NoGuard
    BY <1>2
  <1>4. guard'[s] = NoGuard /\ \A t \in Session \ {s} : guard'[t] = guard[t]
    BY <1>1 DEF TypeOK
  <1>5. Entry(s, sess'[s], guard'[s]) /\ sess'[s].pc \notin Planned
    BY <1>3, <1>4 DEF Entry, Early, Planned, Deciding, Lifecycle
  <1>. QED
    BY <1>1, <1>2, <1>3, <1>4, <1>5, NoView, HolderStep

\* A lease keeps its term as time goes by.
TermNext(l) == \A ttl \in TTL : l.expires <= now' + Offset[l.owner] + ttl

LEMMA TermLater ==
    ASSUME TypeOK, Tick, NEW l \in Lease, Term(l)
    PROVE  TermNext(l)
  <1>1. l.owner \in Session /\ l.expires \in Nat /\ TTL \subseteq Nat
    BY LocksAssumption DEF Lease
  <1>2. Clock(l.owner) \in Nat
    BY <1>1, ClockType
  <1>3. now' + Offset[l.owner] = Clock(l.owner) + 1
    <2>1. Offset[l.owner] \in Nat /\ now \in Nat /\ now' = now + 1
      BY <1>1, LocksAssumption, LeaseAssumption DEF Tick, TypeOK
    <2>. QED
      BY <2>1 DEF Clock
  <1>. QED
    BY <1>1, <1>2, <1>3 DEF Term, TermNext

LEMMA FairLater ==
    ASSUME TypeOK, Tick, NEW p \in Plan, PlanSound(p), PlanFair(p)
    PROVE  TermNext(p.lease) /\ (Added(p).action = "takeover" => now' >= Last(p.base).lease.expires)
  <1>1. TermNext(p.lease)
    BY PlanFields, TermLater DEF PlanFair
  <1>2. ASSUME Added(p).action = "takeover" PROVE now' >= Last(p.base).lease.expires
    <2>1. p.base # <<>>
      BY <1>2 DEF PlanSound, Extends, LegalOrder, LastAction
    <2>2. Last(p.base).lease.expires \in Nat
      <3>1. p.base \in Seq(Transition)
        BY PlanFields
      <3>2. Last(p.base) \in Transition
        BY <2>1, <3>1 DEF Last
      <3>. QED
        BY <3>2 DEF Transition, Lease
    <2>3. now \in Nat /\ now' = now + 1 /\ now >= Last(p.base).lease.expires
      BY <1>2 DEF Tick, TypeOK, PlanFair
    <2>. QED
      BY <2>2, <2>3
  <1>. QED
    BY <1>1, <1>2

LEMMA HoldsTick == ASSUME Inv, Held, Tick PROVE Held'
  <1>1. TypeOK /\ UNCHANGED <<trail, txs, sess, guard>>
    BY DEF Inv, Tick, Files
  <1>2. now \in Nat /\ now' = now + 1
    BY <1>1 DEF Tick, TypeOK
  <1>3. Views'
    <2>1. ASSUME NEW s \in Session, NEW g \in Guard \cup {NoGuard}, g # NoGuard,
                 now' + Offset[s] < g.lease.expires
          PROVE  Clock(s) < g.lease.expires
      <3>1. g.lease.expires \in Nat
        BY <2>1 DEF Guard, Lease
      <3>2. Offset[s] \in Nat
        BY LocksAssumption, LeaseAssumption
      <3>. QED
        BY <1>2, <2>1, <3>1, <3>2 DEF Clock
    <2>2. ASSUME NEW s \in Session PROVE View(s, guard[s])' /\ View(s, sess[s].got)'
      <3>1. /\ guard[s] \in Guard \cup {NoGuard} /\ sess[s].got \in Guard \cup {NoGuard}
            /\ View(s, guard[s]) /\ View(s, sess[s].got)
        BY <1>1, MeType DEF TypeOK, Held, Views
      <3>2. View(s, guard[s])'
        BY <1>1, <2>1, <3>1 DEF View, Relying, Clock
      <3>3. View(s, sess[s].got)'
        BY <1>1, <2>1, <3>1 DEF View, Relying, Clock
      <3>. QED
        BY <3>2, <3>3
    <2>. QED
      BY <2>2 DEF Views
  <1>4. Terms'
    <2>1. ASSUME NEW r \in Resource, trail[r] # <<>> PROVE TermNext(Last(trail[r]).lease)
      <3>1. trail[r] \in Seq(Transition)
        BY <1>1 DEF TypeOK
      <3>2. Last(trail[r]) \in Transition
        BY <2>1, <3>1 DEF Last
      <3>3. Last(trail[r]).lease \in Lease
        BY <3>2 DEF Transition
      <3>. QED
        BY <1>1, <2>1, <3>3, TermLater DEF Held, Terms
    <2>. QED
      BY <1>1, <2>1 DEF Terms, Term, TermNext, Clock
  <1>5. Entries' /\ Publishable'
    BY <1>1 DEF Held, Entries, Entry, Early, Added, Publishable, Publishing
  <1>6. Fair'
    <2>1. ASSUME NEW p \in Plan, PlanSound(p), PlanFair(p) PROVE PlanFair(p)'
      BY <1>1, <2>1, FairLater DEF PlanFair, Term, TermNext, Clock, Added
    <2>2. \A p \in txs : PlanFair(p)'
      BY <1>1, <2>1 DEF Inv, Plans, TypeOK, Held, Fair
    <2>3. ASSUME NEW s \in Session, sess[s].pc \in Planned PROVE PlanFair(sess[s].plan)'
      <3>1. sess[s].plan \in Plan /\ PlanSound(sess[s].plan) /\ PlanFair(sess[s].plan)
        BY <2>3, PlannedFields DEF Held, Fair
      <3>2. /\ TermNext(sess[s].plan.lease)
            /\ Added(sess[s].plan).action = "takeover" => now' >= Last(sess[s].plan.base).lease.expires
        BY <1>1, <3>1, FairLater
      <3>. QED
        BY <1>1, <3>1, <3>2 DEF PlanFair, Term, TermNext, Clock, Added
    <2>. QED
      BY <1>1, <2>2, <2>3 DEF Fair
  <1>. QED
    BY <1>3, <1>4, <1>5, <1>6 DEF Held

\* What is decided is fair to the lease it replaces.
LEMMA DecisionFair ==
    ASSUME Inv, Held, OneTTL, NEW s \in Session, sess[s].pc = "decide",
           Look(s, sess[s].res) \notin Unreadable,
           Look(s, sess[s].res) = "empty" => sess[s].kind = "acquire",
           Decision(s).kind = "transition"
    PROVE  LET d == Decision(s)
               old == Last(trail[sess[s].res]).lease
           IN  /\ d.action = sess[s].kind /\ d.lease.owner = s /\ Term(d.lease)
               /\ d.action = "renew" => old.owner = s /\ d.lease.expires >= old.expires
               /\ d.action = "release" => old.owner = s
               /\ d.action = "takeover" => now >= old.expires
  <1>. DEFINE r == sess[s].res
              id == <<s, sess[s].call>>
              cur == CurrentBinding(s, r)
              t == Clock(s)
              ttl == sess[s].ttl
              l == lease[r]
              d == Decision(s)
  <1>1. TypeOK /\ Me(s) = sess[s] /\ CallSound(sess[s]) /\ Entry(s, sess[s], guard[s]) /\ Terms
    BY DEF Inv, Calls, Me, Held, Entries
  <1>2. sess[s].kind \in Lifecycle /\ ttl \in TTL
    BY <1>1 DEF CallSound, Deciding, Entry
  <1>3. r \in Resource /\ t \in Nat /\ ttl \in Nat
    BY <1>1, <1>2, MeType, ClockType, LocksAssumption
  <1>4. l # NoLease => /\ cur.lease = l /\ l \in Lease
                       /\ trail[r] # <<>> /\ Last(trail[r]).lease = l
    BY <1>1, <1>3, ReadableAgrees DEF CurrentBinding, TypeOK, Binds
  <1>5. l = NoLease => sess[s].kind = "acquire" /\ cur = NoBinding
    BY ReadableAgrees DEF CurrentBinding
  <1>6. ASSUME l # NoLease PROVE l.expires \in Nat /\ l.owner \in Session /\ l.expires <= Clock(l.owner) + ttl
    <2>1. Term(Last(trail[r]).lease)
      BY <1>1, <1>3, <1>4, <1>6 DEF Terms
    <2>. QED
      BY <1>2, <1>4, <1>6, <2>1 DEF Term, Lease
  <1>7. ASSUME NEW x, x.owner = s, x.expires \in Nat, x.expires <= t + ttl PROVE Term(x)
    <2>. SUFFICES ASSUME NEW a \in TTL PROVE x.expires <= Clock(s) + a
      BY <1>7 DEF Term
    <2>1. a = ttl
      BY <1>2 DEF OneTTL
    <2>. QED
      BY <1>7, <2>1
  <1>8. t = Clock(s) /\ d = Decision(s)
    OBVIOUS
  <1>. HIDE DEF id, cur, t, ttl, l, d, r
  <1>9. t + ttl \in Nat /\ t <= t + ttl
    BY <1>3
  <1>10. ASSUME NEW token PROVE /\ Opened(s, id, token, t, ttl).owner = s
                                /\ Opened(s, id, token, t, ttl).expires = t + ttl
    BY DEF Opened
  <1>11. ASSUME NEW token PROVE Term(Opened(s, id, token, t, ttl))
    BY <1>7, <1>9, <1>10
  <1>12. CASE sess[s].kind = "acquire"
    <2>1. d = DecideAcquire(cur, s, id, t, ttl)
      BY <1>1, <1>12 DEF Decision, r, id, cur, t, ttl, d
    <2>2. d.kind = "transition"
      BY <1>8
    <2>3. \E token : d = Change("acquire", Opened(s, id, token, t, ttl))
      BY <2>1, <2>2 DEF DecideAcquire, Reopen, Refusal
    <2>4. PICK token : d = Change("acquire", Opened(s, id, token, t, ttl))
      BY <2>3
    <2>. DEFINE o == Opened(s, id, token, t, ttl)
    <2>5. o.owner = s /\ Term(o) /\ d = Change("acquire", o)
      BY <1>10, <1>11, <2>4
    <2>. HIDE DEF o
    <2>6. d.action = "acquire" /\ d.lease = o
      BY <2>5 DEF Change
    <2>. QED
      BY <1>8, <1>12, <2>5, <2>6
  <1>13. CASE sess[s].kind = "renew"
    <2>. DEFINE o == [cur.lease EXCEPT !.expires = t + ttl]
    <2>1. d = DecideRenew(cur, sess[s].seen.lease, t, ttl) /\ d.kind = "transition"
      BY <1>1, <1>8, <1>13 DEF Decision, r, id, cur, t, ttl, d
    <2>2. ExactIdentity(cur.lease, sess[s].seen.lease) /\ d = Change("renew", o)
      BY <2>1 DEF DecideRenew, Refusal, Entitled
    <2>3. l # NoLease /\ sess[s].seen.lease.owner = s
      BY <1>1, <1>5, <1>13 DEF Entry
    <2>4. cur.lease = l /\ l \in Lease /\ l.owner = s /\ Last(trail[r]).lease = l
      BY <1>4, <2>2, <2>3 DEF ExactIdentity
    <2>5. o.owner = s /\ o.expires = t + ttl
      BY <2>4 DEF Lease
    <2>. HIDE DEF o
    <2>6. Term(o)
      BY <1>7, <1>9, <2>5
    <2>7. d.action = "renew" /\ d.lease = o
      BY <2>2 DEF Change
    <2>8. o.expires >= l.expires
      BY <1>3, <1>6, <1>8, <1>9, <2>3, <2>4, <2>5
    <2>. QED
      BY <1>8, <1>13, <2>4, <2>5, <2>6, <2>7, <2>8 DEF r
  <1>14. CASE sess[s].kind = "release"
    <2>. DEFINE o == [cur.lease EXCEPT !.expires = t]
    <2>1. d = DecideRelease(cur, sess[s].seen.lease, t) /\ d.kind = "transition"
      BY <1>1, <1>8, <1>14 DEF Decision, r, id, cur, t, ttl, d
    <2>2. ExactIdentity(cur.lease, sess[s].seen.lease) /\ d = Change("release", o)
      BY <2>1 DEF DecideRelease, Refusal, Entitled
    <2>3. l # NoLease /\ sess[s].seen.lease.owner = s
      BY <1>1, <1>5, <1>14 DEF Entry
    <2>4. cur.lease = l /\ l \in Lease /\ l.owner = s /\ Last(trail[r]).lease = l
      BY <1>4, <2>2, <2>3 DEF ExactIdentity
    <2>5. o.owner = s /\ o.expires = t
      BY <2>4 DEF Lease
    <2>. HIDE DEF o
    <2>6. Term(o)
      BY <1>3, <1>7, <1>9, <2>5
    <2>7. d.action = "release" /\ d.lease = o
      BY <2>2 DEF Change
    <2>. QED
      BY <1>8, <1>14, <2>4, <2>5, <2>6, <2>7 DEF r
  <1>15. CASE sess[s].kind = "takeover"
    <2>1. d = DecideTakeover(cur, sess[s].seen.lease, s, id, t, ttl) /\ d.kind = "transition"
      BY <1>1, <1>8, <1>15 DEF Decision, r, id, cur, t, ttl, d
    <2>2. /\ ClassifyLeaseTime(t, cur.lease.expires) = "takeover_eligible"
          /\ d = Change("takeover", Opened(s, id, cur.lease.token + 1, t, ttl))
      BY <2>1 DEF DecideTakeover, Refusal, Entitled, Reopen
    <2>3. l # NoLease
      BY <1>5, <1>15
    <2>4. cur.lease = l /\ Last(trail[r]).lease = l
      BY <1>4, <2>3
    <2>. DEFINE o == Opened(s, id, cur.lease.token + 1, t, ttl)
    <2>5. o.owner = s /\ Term(o) /\ d = Change("takeover", o)
      BY <1>10, <1>11, <2>2
    <2>. HIDE DEF o
    <2>6. d.action = "takeover" /\ d.lease = o
      BY <2>5 DEF Change
    <2>7. now >= l.expires
      <3>1. l.expires \in Nat /\ Skew \in Nat /\ now \in Nat /\ Offset[s] \in 0 .. Skew
        BY <1>1, <1>6, <2>3, LeaseAssumption, LocksAssumption DEF TypeOK
      <3>2. ~(t < l.expires + Skew)
        BY <2>2, <2>4 DEF ClassifyLeaseTime
      <3>3. t = now + Offset[s]
        BY <1>8 DEF Clock
      <3>. QED
        BY <3>1, <3>2, <3>3
    <2>. QED
      BY <1>8, <1>15, <2>4, <2>5, <2>6, <2>7 DEF r
  <1>. QED
    BY <1>2, <1>12, <1>13, <1>14, <1>15 DEF Lifecycle

LEMMA HoldsDecide == ASSUME Inv, Held, OneTTL, NEW s \in Session, Decide(s) PROVE Held'
  <1>. DEFINE r == sess[s].res
              d == Decision(s)
              p == Prepare(s, d)
              e == [action |-> d.action, lease |-> d.lease]
  <1>1. /\ TypeOK /\ sess[s].pc = "decide" /\ now' = now /\ trail' = trail /\ txs' = txs
        /\ guard' = guard /\ Me(s) = sess[s] /\ r \in Resource /\ Early(sess[s])
    BY MeType DEF Inv, Decide, At, Files, World, Early, Deciding
  <1>2. CASE \E out \in Outcome : Conclude(s, out)
    BY <1>1, <1>2, QuietConclude
  <1>3. CASE /\ Look(s, r) \notin Unreadable
             /\ Look(s, r) = "empty" => sess[s].kind = "acquire"
             /\ d.kind = "transition" /\ Extends(trail[r], d.action, d.lease.token)
             /\ sess' = [sess EXCEPT ![s].pc = "preflight", ![s].plan = p]
    <2>1. p \in Plan /\ PlanSound(p) /\ p.by = s
      BY <1>1, <1>3, PreparedPlan
    <2>2. /\ d.action = sess[s].kind /\ d.lease.owner = s /\ Term(d.lease)
          /\ d.action = "renew" =>
               Last(trail[r]).lease.owner = s /\ d.lease.expires >= Last(trail[r]).lease.expires
          /\ d.action = "release" => Last(trail[r]).lease.owner = s
          /\ d.action = "takeover" => now >= Last(trail[r]).lease.expires
      BY <1>1, <1>3, DecisionFair
    <2>3. /\ p.trail = Append(trail[r], e) /\ p.base = trail[r] /\ p.lease = d.lease
          /\ e.action = d.action
      BY <1>1 DEF Prepare
    <2>4. Added(p).action = d.action
      <3>1. p.trail = Append(p.base, Added(p)) /\ p.base \in Seq(Transition) /\ Added(p) \in Transition
        BY <2>1, PlanFields DEF PlanSound
      <3>2. Append(p.base, Added(p))[Len(p.base) + 1] = Added(p)
        BY <3>1
      <3>. HIDE DEF e, p
      <3>3. Append(p.base, e)[Len(p.base) + 1] = e
        BY <3>1
      <3>. QED
        BY <2>3, <3>1, <3>2, <3>3
    <2>. HIDE DEF p, d, e
    <2>5. PlanFair(p)
      BY <2>1, <2>2, <2>3, <2>4 DEF PlanFair
    <2>6. sess \in [Session -> CallState] /\ sess[s] \in CallState
      BY <1>1, MeType
    <2>7. /\ sess' = [sess EXCEPT ![s] = sess'[s]]
          /\ sess'[s] = [sess[s] EXCEPT !.pc = "preflight", !.plan = p]
      BY <1>3, <2>6
    <2>8. /\ sess'[s].pc = "preflight" /\ sess'[s].plan = p /\ sess'[s].kind = sess[s].kind
          /\ sess'[s].ttl = sess[s].ttl /\ sess'[s].got = sess[s].got /\ sess'[s].seen = sess[s].seen
      BY <2>6, <2>7 DEF CallState
    <2>9. Entry(s, sess'[s], guard'[s])
      BY <1>1, <2>2, <2>4, <2>8 DEF Held, Entries, Entry
    <2>10. View(s, guard'[s]) /\ View(s, sess'[s].got)
      BY <1>1, <2>8 DEF Held, Views
    <2>. QED
      BY <1>1, <2>5, <2>7, <2>8, <2>9, <2>10, HolderStep
  <1>4. Look(s, r) \in Outcome
    BY LookType
  <1>. QED
    <2>1. \/ \E out \in {Look(s, r), "corrupt", "internal_failure", "conflict"} : Conclude(s, out)
          \/ /\ Look(s, r) \notin Unreadable
             /\ Look(s, r) = "empty" => sess[s].kind = "acquire"
             /\ d.kind = "transition" /\ Extends(trail[r], d.action, d.lease.token)
             /\ sess' = [sess EXCEPT ![s].pc = "preflight", ![s].plan = p]
      BY <1>1 DEF Decide
    <2>. QED
      BY <1>2, <1>3, <1>4, <2>1, OutcomeNames

\* A publication is as fair as its plan.
LEMMA PublishingFair ==
    ASSUME NEW p \in Plan, PlanFair(p)
    PROVE  PlanFair(Publishing(p)) /\ Added(Publishing(p)) = Added(p)
  <1>. DEFINE q == Publishing(p)
  <1>1. q.base = p.base /\ q.trail = p.trail /\ q.lease = p.lease /\ q.by = p.by
    BY PublishingFields
  <1>. HIDE DEF q
  <1>2. PlanFair(q) /\ Added(q) = Added(p)
    BY <1>1 DEF PlanFair, Added
  <1>. QED
    BY <1>2 DEF q

\* A drive goes on: the calls and the plans keep what they brought.
LEMMA DriveKeeps ==
    ASSUME Inv, Held, NEW s \in Session, NEW pc \in Planned \cup {"confirm"}, sess[s].pc \in Planned,
           Goto(s, pc), guard' = guard, now' = now,
           txs' \subseteq txs \cup {sess[s].plan, Publishing(sess[s].plan)}
    PROVE  /\ Entries' /\ Fair'
           /\ \A t \in Session : sess'[t].got = sess[t].got /\ (t # s => sess'[t] = sess[t])
           /\ sess'[s].pc = pc /\ sess'[s].plan = sess[s].plan
  <1>1. TypeOK /\ pc \in PC
    BY DEF Inv, Planned, PC
  <1>2. /\ sess' = [sess EXCEPT ![s] = sess'[s]] /\ sess'[s].pc = pc
        /\ sess'[s].kind = sess[s].kind /\ sess'[s].ttl = sess[s].ttl /\ sess'[s].plan = sess[s].plan
        /\ sess'[s].seen = sess[s].seen /\ sess'[s].got = sess[s].got
    BY <1>1, GotoFields
  <1>3. \A t \in Session : sess'[t].got = sess[t].got /\ (t # s => sess'[t] = sess[t])
    BY <1>1, <1>2 DEF TypeOK
  <1>4. Entries'
    <2>. SUFFICES ASSUME NEW t \in Session PROVE Entry(t, sess'[t], guard'[t])
      BY DEF Entries, Entry, Added, Early
    <2>1. Entry(t, sess[t], guard[t])
      BY DEF Held, Entries
    <2>2. CASE t # s
      BY <1>3, <2>1, <2>2
    <2>3. CASE t = s
      <3>1. Early(sess[s]) /\ sess'[s].pc \notin {"idle", "dead"}
        BY <1>2 DEF Early, Planned, Deciding
      <3>. QED
        BY <1>2, <2>1, <2>3, <3>1 DEF Entry
    <2>. QED
      BY <2>2, <2>3
  <1>5. Fair'
    <2>1. \A p : PlanFair(p)' <=> PlanFair(p)
      BY DEF PlanFair, Term, Clock, Added
    <2>2. PlanFair(sess[s].plan) /\ PlanFair(Publishing(sess[s].plan))
      BY PlannedFields, PublishingFair DEF Held, Fair
    <2>3. \A p \in txs' : PlanFair(p)
      BY <2>2 DEF Held, Fair
    <2>4. ASSUME NEW t \in Session, sess'[t].pc \in Planned PROVE PlanFair(sess'[t].plan)
      BY <1>2, <1>3, <2>2, <2>4 DEF Held, Fair
    <2>. QED
      BY <2>1, <2>3, <2>4 DEF Fair, PlanFair, Term, Clock, Added
  <1>. QED
    BY <1>2, <1>3, <1>4, <1>5

\* With the trails as they were, everybody sees what they saw.
LEMMA SameTrails ==
    ASSUME Held, now' = now, trail' = trail, guard' = guard,
           \A t \in Session : sess'[t].got = sess[t].got
    PROVE  Views' /\ Terms'
  BY DEF Held, Views, View, Relying, Clock, Terms, Term

LEMMA HoldsPrepared ==
    ASSUME Inv, Held, NEW s \in Session, Preflight(s) \/ MarkTransaction(s) \/ Authorize(s)
    PROVE  Held'
  <1>. DEFINE p == sess[s].plan
  <1>1. /\ TypeOK /\ sess[s].pc \in {"preflight", "mark", "authorize"} /\ now' = now /\ trail' = trail
        /\ guard' = guard /\ Me(s) = sess[s]
    BY DEF Inv, Preflight, MarkTransaction, Authorize, At, Files, World, Me
  <1>2. sess[s].pc \in Planned /\ {"mark", "authorize", "trail"} \subseteq Planned
    BY <1>1 DEF Planned
  <1>3. p \in Plan /\ p.phase = "prepared" /\ p.by = s
    BY <1>2, PlannedFields
  <1>4. CASE txs' = txs /\ \E out \in Outcome : Conclude(s, out)
    BY <1>1, <1>4, QuietConclude
  <1>5. ASSUME NEW q \in txs, q.phase = "publishing", trail[q.res] = q.base
        PROVE  /\ q.by \in Session \ {s}
               /\ \/ sess[q.by].pc = "dead"
                  \/ sess[q.by].pc = "trail" /\ Publishing(sess[q.by].plan) = q
    BY <1>1, <1>5, PlanFields DEF Held, Publishable, TypeOK
  <1>6. CASE txs' = txs /\ Goto(s, "mark")
    <2>1. /\ Entries' /\ Fair'
          /\ \A t \in Session : sess'[t].got = sess[t].got /\ (t # s => sess'[t] = sess[t])
      BY <1>1, <1>2, <1>6, DriveKeeps
    <2>2. Publishable'
      BY <1>1, <1>5, <1>6, <2>1 DEF Publishable, Publishing
    <2>. QED
      BY <1>1, <2>1, <2>2, SameTrails DEF Held
  <1>7. CASE txs' = txs \cup {p} /\ Goto(s, "authorize")
    <2>1. /\ Entries' /\ Fair'
          /\ \A t \in Session : sess'[t].got = sess[t].got /\ (t # s => sess'[t] = sess[t])
      BY <1>1, <1>2, <1>7, DriveKeeps
    <2>2. Publishable'
      BY <1>1, <1>3, <1>5, <1>7, <2>1 DEF Publishable, Publishing
    <2>. QED
      BY <1>1, <2>1, <2>2, SameTrails DEF Held
  <1>8. CASE txs' = (txs \ {p}) \cup {Publishing(p)} /\ Goto(s, "trail")
    <2>1. /\ Entries' /\ Fair'
          /\ \A t \in Session : sess'[t].got = sess[t].got /\ (t # s => sess'[t] = sess[t])
          /\ sess'[s].pc = "trail" /\ sess'[s].plan = p
      BY <1>1, <1>2, <1>8, DriveKeeps
    <2>2. Publishing(p).by = s
      BY <1>3, PublishingFields
    <2>. HIDE DEF p
    <2>3. ASSUME NEW q \in txs', q.phase = "publishing", trail[q.res] = q.base
          PROVE  \/ sess'[q.by].pc = "dead"
                 \/ sess'[q.by].pc = "trail" /\ Publishing(sess'[q.by].plan) = q
      <3>1. CASE q = Publishing(p)
        BY <2>1, <2>2, <3>1
      <3>2. CASE q # Publishing(p)
        BY <1>5, <1>8, <2>1, <2>3, <3>2
      <3>. QED
        BY <3>1, <3>2
    <2>4. Publishable'
      BY <1>1, <2>3 DEF Publishable, Publishing
    <2>. QED
      BY <1>1, <2>1, <2>4, SameTrails DEF Held
  <1>. QED
    <2>1. \/ txs' = txs /\ \E out \in {"recovery_required", "revision_conflict"} : Conclude(s, out)
          \/ txs' = txs /\ Goto(s, "mark")
          \/ txs' = txs \cup {p} /\ Goto(s, "authorize")
          \/ txs' = (txs \ {p}) \cup {Publishing(p)} /\ Goto(s, "trail")
      BY <1>1 DEF Preflight, MarkTransaction, Authorize, Files
    <2>. QED
      BY <1>4, <1>6, <1>7, <1>8, <2>1, OutcomeNames

LEMMA HoldsPublishLease == ASSUME Inv, Held, NEW s \in Session, PublishLease(s) PROVE Held'
  <1>. DEFINE p == sess[s].plan
  <1>1. /\ TypeOK /\ sess[s].pc = "lease" /\ now' = now /\ trail' = trail
        /\ guard' = guard /\ Me(s) = sess[s]
    BY DEF Inv, PublishLease, At, World, Me
  <1>2. sess[s].pc \in Planned
    BY <1>1 DEF Planned
  <1>3. CASE txs' = txs /\ Conclude(s, "corrupt")
    BY <1>1, <1>3, QuietConclude, OutcomeNames
  <1>4. CASE txs' = txs \ {Publishing(p)} /\ Goto(s, "confirm")
    <2>1. /\ Entries' /\ Fair'
          /\ \A t \in Session : sess'[t].got = sess[t].got /\ (t # s => sess'[t] = sess[t])
      BY <1>1, <1>2, <1>4, DriveKeeps
    <2>2. ASSUME NEW q \in txs, q.phase = "publishing", trail[q.res] = q.base
          PROVE  /\ q.by \in Session \ {s}
                 /\ \/ sess[q.by].pc = "dead"
                    \/ sess[q.by].pc = "trail" /\ Publishing(sess[q.by].plan) = q
      BY <1>1, <2>2, PlanFields DEF Held, Publishable, TypeOK
    <2>3. Publishable'
      BY <1>1, <1>4, <2>1, <2>2 DEF Publishable, Publishing
    <2>. QED
      BY <1>1, <2>1, <2>3, SameTrails DEF Held
  <1>. QED
    BY <1>1, <1>3, <1>4 DEF PublishLease

\* A transition keeps everybody who may rely on the lease covered: it is an
\* acquisition of a lease nobody holds, a renewal that does not shorten it, a release
\* by its owner, who has stopped relying on it, or a takeover after its last instant
\* on every clock.
LEMMA StillCovered ==
    ASSUME TypeOK, NEW p \in Plan, PlanSound(p), PlanFair(p),
           NEW s \in Session, NEW g \in Guard \cup {NoGuard}, Relying(s, g), Covers(p.base, s, g),
           Added(p).action = "release" => p.by # s
    PROVE  Covers(p.trail, s, g)
  <1>. DEFINE old == Last(p.base).lease
              a == Added(p).action
  <1>1. g \in Guard /\ g.lease.expires \in Nat /\ Clock(s) < g.lease.expires
    BY DEF Relying, Guard, Lease
  <1>2. p.base # <<>> /\ old.owner = s /\ Last(p.base).action # "release" /\ old.expires >= g.lease.expires
    BY DEF Covers
  <1>3. Last(p.base) \in Transition /\ p.lease \in Lease
    <2>1. p.base \in Seq(Transition) /\ p.lease \in Lease
      BY PlanFields
    <2>. QED
      BY <1>2, <2>1 DEF Last
  <1>4. old.expires \in Nat /\ p.lease.expires \in Nat
    BY <1>3 DEF Transition, Lease
  <1>5. /\ Last(p.trail).lease = p.lease /\ Last(p.trail).action = a /\ p.trail # <<>>
        /\ a \in Action
    <2>1. Added(p) = Last(p.trail) /\ Added(p).lease = p.lease /\ Added(p) \in Transition
      BY DEF PlanSound, Added
    <2>2. p.trail # <<>>
      BY PlanFacts DEF Agreed, Binds
    <2>. QED
      BY <2>1, <2>2 DEF Transition
  <1>6. a # "acquire"
    <2>1. Last(p.base).action \in Action
      BY <1>3 DEF Transition
    <2>2. LegalOrder(a, LastAction(p.base))
      BY DEF PlanSound, Extends
    <2>. QED
      BY <1>2, <2>1, <2>2 DEF LegalOrder, LastAction, Action
  <1>7. a # "release"
    BY <1>2 DEF PlanFair
  <1>8. a # "takeover"
    <2>1. SUFFICES ASSUME a = "takeover" PROVE FALSE
      OBVIOUS
    <2>2. now >= old.expires
      BY <2>1 DEF PlanFair
    <2>3. now \in Nat /\ Offset[s] \in Nat /\ Clock(s) = now + Offset[s]
      BY LocksAssumption, LeaseAssumption DEF TypeOK, Clock
    <2>. QED
      BY <1>1, <1>2, <1>4, <2>2, <2>3
  <1>9. a = "renew"
    BY <1>5, <1>6, <1>7, <1>8 DEF Action
  <1>10. old.owner = p.by /\ p.lease.expires >= old.expires /\ p.lease.owner = p.by
    BY <1>9 DEF PlanFair
  <1>11. p.lease.expires >= g.lease.expires
    BY <1>1, <1>2, <1>4, <1>10
  <1>. QED
    BY <1>2, <1>5, <1>9, <1>10, <1>11 DEF Covers

\* The events of a plan are published over the trail it was prepared over.
LEMMA Extended ==
    ASSUME Inv, Held, NEW p \in Plan, PlanSound(p), PlanFair(p), trail[p.res] = p.base,
           trail' = [trail EXCEPT ![p.res] = p.trail], now' = now, guard' = guard,
           \A t \in Session : sess'[t].got = sess[t].got,
           Added(p).action = "release" => guard[p.by] = NoGuard /\ sess[p.by].got = NoGuard
    PROVE  Views' /\ Terms'
  <1>1. TypeOK /\ trail \in [Resource -> Seq(Transition)] /\ p.res \in Resource
    BY PlanFields DEF Inv, TypeOK
  <1>2. trail'[p.res] = p.trail /\ \A r \in Resource : r # p.res => trail'[r] = trail[r]
    BY <1>1
  <1>3. ASSUME NEW s \in Session, NEW g \in Guard \cup {NoGuard}, View(s, g), Relying(s, g),
               Added(p).action = "release" => p.by # s
        PROVE  Covers(trail'[g.res], s, g)
    <2>1. Covers(trail[g.res], s, g) /\ g.res \in Resource
      BY <1>3 DEF View, Relying, Guard
    <2>2. CASE g.res = p.res
      BY <1>1, <1>2, <1>3, <2>1, <2>2, StillCovered
    <2>3. CASE g.res # p.res
      BY <1>2, <2>1, <2>3
    <2>. QED
      BY <2>2, <2>3
  <1>4. Views'
    <2>. SUFFICES ASSUME NEW s \in Session PROVE View(s, guard[s])' /\ View(s, sess[s].got)'
      BY DEF Views
    <2>1. /\ guard[s] \in Guard \cup {NoGuard} /\ sess[s].got \in Guard \cup {NoGuard}
          /\ View(s, guard[s]) /\ View(s, sess[s].got)
      BY <1>1, MeType DEF TypeOK, Held, Views
    <2>2. Relying(s, guard[s]) => Covers(trail'[guard[s].res], s, guard[s])
      BY <1>3, <2>1 DEF Relying
    <2>3. Relying(s, sess[s].got) => Covers(trail'[sess[s].got.res], s, sess[s].got)
      BY <1>3, <2>1 DEF Relying
    <2>. QED
      BY <2>2, <2>3 DEF View, Relying, Clock
  <1>5. Terms'
    <2>1. Last(p.trail).lease = p.lease /\ Term(p.lease)
      BY DEF PlanSound, Added, PlanFair
    <2>2. ASSUME NEW r \in Resource, trail'[r] # <<>> PROVE Term(Last(trail'[r]).lease)
      BY <1>2, <2>1, <2>2 DEF Held, Terms
    <2>. QED
      BY <2>2 DEF Terms, Term, Clock
  <1>. QED
    BY <1>4, <1>5

LEMMA HoldsPublishTrail == ASSUME Inv, Held, NEW s \in Session, PublishTrail(s) PROVE Held'
  <1>. DEFINE p == sess[s].plan
  <1>1. /\ TypeOK /\ sess[s].pc = "trail" /\ now' = now /\ txs' = txs
        /\ guard' = guard /\ Me(s) = sess[s]
    BY DEF Inv, PublishTrail, At, World, Me
  <1>2. sess[s].pc \in Planned /\ "lease" \in Planned
    BY <1>1 DEF Planned
  <1>3. p \in Plan /\ PlanSound(p) /\ PlanFair(p) /\ p.by = s
    BY <1>2, PlannedFields DEF Held, Fair
  <1>4. Publishing(p).res = p.res /\ Publishing(p).base = p.base
    BY <1>3, PublishingFields
  <1>5. ASSUME NEW q \in txs, q.phase = "publishing", trail[q.res] = q.base,
               q.res # p.res \/ q.base # p.base
        PROVE  /\ q.by \in Session \ {s}
               /\ \/ sess[q.by].pc = "dead"
                  \/ sess[q.by].pc = "trail" /\ Publishing(sess[q.by].plan) = q
    <2>1. q.by \in Session
      BY <1>1, PlanFields DEF TypeOK
    <2>2. \/ sess[q.by].pc = "dead"
          \/ sess[q.by].pc = "trail" /\ Publishing(sess[q.by].plan) = q
      BY <1>5 DEF Held, Publishable
    <2>. QED
      BY <1>1, <1>4, <1>5, <2>1, <2>2
  <1>6. CASE trail[p.res] # p.base /\ trail' = trail /\ Conclude(s, "corrupt")
    <2>1. /\ sess' = [sess EXCEPT ![s] = sess'[s]] /\ sess'[s].pc = "admit" /\ sess'[s].goal = "unclaim"
          /\ sess'[s].kind = sess[s].kind /\ sess'[s].ttl = sess[s].ttl
          /\ sess'[s].seen = sess[s].seen /\ sess'[s].got = sess[s].got
      BY <1>1, <1>6, ConcludeFields, OutcomeNames
    <2>2. \A t \in Session : sess'[t].got = sess[t].got /\ (t # s => sess'[t] = sess[t])
      BY <1>1, <2>1 DEF TypeOK
    <2>3. ~Early(sess'[s]) /\ sess'[s].pc \notin Planned
      BY <2>1 DEF Early, Deciding, Planned
    <2>4. Entries'
      <3>. SUFFICES ASSUME NEW t \in Session PROVE Entry(t, sess'[t], guard'[t])
        BY DEF Entries, Entry, Added, Early
      <3>1. Entry(t, sess[t], guard[t])
        BY DEF Held, Entries
      <3>. QED
        BY <1>1, <2>1, <2>2, <2>3, <3>1 DEF Entry
    <2>5. Fair'
      <3>1. \A q : PlanFair(q)' <=> PlanFair(q)
        BY <1>1 DEF PlanFair, Term, Clock, Added
      <3>2. ASSUME NEW t \in Session, sess'[t].pc \in Planned PROVE PlanFair(sess'[t].plan)
        BY <2>2, <2>3, <3>2 DEF Held, Fair
      <3>. QED
        BY <1>1, <3>1, <3>2 DEF Held, Fair, PlanFair, Term, Clock, Added
    <2>6. Publishable'
      <3>1. ASSUME NEW q \in txs, q.phase = "publishing", trail[q.res] = q.base
            PROVE  q.res # p.res \/ q.base # p.base
        BY <1>6, <3>1
      <3>. QED
        BY <1>1, <1>5, <1>6, <2>2, <3>1 DEF Publishable, Publishing
    <2>. QED
      BY <1>1, <1>6, <2>2, <2>4, <2>5, <2>6, SameTrails DEF Held
  <1>7. CASE trail[p.res] = p.base /\ trail' = [trail EXCEPT ![p.res] = p.trail] /\ Goto(s, "lease")
    <2>1. /\ Entries' /\ Fair'
          /\ \A t \in Session : sess'[t].got = sess[t].got /\ (t # s => sess'[t] = sess[t])
      BY <1>1, <1>2, <1>7, DriveKeeps
    <2>2. Added(p).action = "release" => guard[p.by] = NoGuard /\ sess[p.by].got = NoGuard
      <3>1. Entry(s, sess[s], guard[s]) /\ Early(sess[s])
        BY <1>1 DEF Held, Entries, Early, Deciding
      <3>. QED
        BY <1>2, <1>3, <3>1 DEF Entry
    <2>. HIDE DEF p
    <2>3. Views' /\ Terms'
      BY <1>1, <1>3, <1>7, <2>1, <2>2, Extended
    <2>4. Publishable'
      <3>. SUFFICES ASSUME NEW q \in txs, q.phase = "publishing", trail'[q.res] = q.base
                    PROVE  \/ sess'[q.by].pc = "dead"
                           \/ sess'[q.by].pc = "trail" /\ Publishing(sess'[q.by].plan) = q
        BY <1>1 DEF Publishable, Publishing
      <3>1. q \in Plan /\ PlanStands(q) /\ Len(q.base) \in Nat
        BY <1>1, PlanFields DEF TypeOK, Inv, Plans
      <3>2. q.res # p.res
        <4>1. q.res = p.res => Len(q.base) < Len(trail'[q.res])
          BY <1>1, <1>3, <1>7, <3>1, TrailGrows
        <4>. QED
          BY <3>1, <4>1
      <3>3. trail[q.res] = q.base
        BY <1>1, <1>3, <1>7, <3>1, <3>2, PlanFields DEF TypeOK
      <3>. QED
        BY <1>5, <2>1, <3>2, <3>3
    <2>. QED
      BY <2>1, <2>3, <2>4 DEF Held
  <1>. QED
    BY <1>1, <1>6, <1>7 DEF PublishTrail

LEMMA HoldsRecover == ASSUME Inv, Held, NEW p \in txs, RecoverTransaction(p) PROVE Held'
  <1>1. /\ TypeOK /\ Abandoned(p) /\ txs' = txs \ {p} /\ now' = now /\ guard' = guard /\ sess' = sess
    BY DEF Inv, RecoverTransaction, World
  <1>2. p \in Plan /\ PlanSound(p) /\ PlanFair(p) /\ p.res \in Resource
    BY <1>1, PlanFields DEF TypeOK, Inv, Plans, Held, Fair
  <1>3. Entries'
    BY <1>1 DEF Held, Entries, Entry, Early, Added
  <1>4. Fair'
    <2>1. \A q : PlanFair(q)' <=> PlanFair(q)
      BY <1>1 DEF PlanFair, Term, Clock, Added
    <2>. QED
      BY <1>1, <2>1 DEF Held, Fair, PlanFair, Term, Clock, Added
  <1>5. CASE trail' = trail
    <2>1. Publishable'
      BY <1>1, <1>5 DEF Held, Publishable
    <2>. QED
      BY <1>1, <1>3, <1>4, <1>5, <2>1, SameTrails DEF Held
  <1>6. CASE /\ p.phase = "publishing" /\ trail[p.res] = p.base
             /\ trail' = [trail EXCEPT ![p.res] = p.trail]
    <2>1. sess[p.by].pc = "dead"
      <3>1. \/ sess[p.by].pc = "dead"
            \/ sess[p.by].pc = "trail" /\ Publishing(sess[p.by].plan) = p
        BY <1>6 DEF Held, Publishable
      <3>2. ASSUME sess[p.by].pc = "trail", Publishing(sess[p.by].plan) = p PROVE FALSE
        <4>. DEFINE q == sess[p.by].plan
        <4>1. p.by \in Session /\ sess[p.by].pc \in Planned
          BY <1>2, <3>2, PlanFields DEF Planned
        <4>2. q \in Plan /\ q.call = sess[p.by].call
          BY <4>1, PlannedFields
        <4>3. p.call = sess[p.by].call
          BY <3>2, <4>2, PublishingFields
        <4>. QED
          BY <1>1, <3>2, <4>3 DEF Abandoned
      <3>. QED
        BY <3>1, <3>2
    <2>2. guard[p.by] = NoGuard /\ sess[p.by].got = NoGuard
      BY <1>2, <2>1, PlanFields DEF Held, Entries, Entry
    <2>3. Views' /\ Terms'
      BY <1>1, <1>2, <1>6, <2>2, Extended
    <2>4. Publishable'
      <3>. SUFFICES ASSUME NEW q \in txs, q.phase = "publishing", trail'[q.res] = q.base
                    PROVE  \/ sess[q.by].pc = "dead"
                           \/ sess[q.by].pc = "trail" /\ Publishing(sess[q.by].plan) = q
        BY <1>1 DEF Publishable, Publishing
      <3>1. q \in Plan /\ PlanStands(q) /\ Len(q.base) \in Nat
        BY <1>1, PlanFields DEF TypeOK, Inv, Plans
      <3>2. q.res # p.res
        <4>1. q.res = p.res => Len(q.base) < Len(trail'[q.res])
          BY <1>1, <1>2, <1>6, <3>1, TrailGrows
        <4>. QED
          BY <3>1, <4>1
      <3>3. trail[q.res] = q.base
        BY <1>1, <1>2, <1>6, <3>1, <3>2, PlanFields DEF TypeOK
      <3>. QED
        BY <3>3 DEF Held, Publishable
    <2>. QED
      BY <1>3, <1>4, <2>3, <2>4 DEF Held
  <1>. QED
    <2>1. \/ trail' = trail
          \/ /\ p.phase = "publishing" /\ trail[p.res] \in {p.base, p.trail}
             /\ trail' = [trail EXCEPT ![p.res] = p.trail]
      BY DEF RecoverTransaction
    <2>2. trail[p.res] = p.trail /\ trail' = [trail EXCEPT ![p.res] = p.trail] => trail' = trail
      BY <1>1, <1>2 DEF TypeOK
    <2>. QED
      BY <1>5, <1>6, <2>1, <2>2

-----------------------------------------------------------------------------

LEMMA StartHeld == Init => Held
  <1>. SUFFICES ASSUME Init PROVE Held
    OBVIOUS
  <1>1. \A s \in Session : /\ sess[s].pc = "idle" /\ sess[s].kind = "none" /\ sess[s].got = NoGuard
                           /\ guard[s] = NoGuard
    BY DEF Init, Idle
  <1>2. Views
    BY <1>1, NoView DEF Views
  <1>3. Entries /\ Fair /\ Publishable
    BY <1>1 DEF Init, Entries, Entry, Early, Fair, Publishable, Planned, Deciding, Lifecycle
  <1>4. Terms
    BY DEF Init, Terms
  <1>. QED
    BY <1>2, <1>3, <1>4 DEF Held

LEMMA StepHeld == ASSUME OneTTL, Inv, Held, [Next]_vars PROVE Held'
  <1>1. ASSUME NEW s \in Session, Step(s) PROVE Held'
    <2>1. CASE AcquireClaim(s)
      BY <2>1, HoldsBefore, HoldsPreAdmission, HoldsHold, HoldsFamily, HoldsTakeClaim DEF AcquireClaim
    <2>2. CASE WithAdmission(s)
      BY <2>2, HoldsAdmit, HoldsElect, HoldsAgain, HoldsLeaveAdmission DEF WithAdmission
    <2>3. CASE Publish(s)
      BY <2>3, HoldsDecide, HoldsPrepared, HoldsPublishTrail, HoldsPublishLease, HoldsConfirm DEF Publish
    <2>4. CASE ReturnClaim(s)
      BY <2>4, HoldsUnclaim, HoldsReclaim DEF ReturnClaim
    <2>. QED
      BY <1>1, <2>1, <2>2, <2>3, <2>4 DEF Step
  <1>2. CASE UNCHANGED vars
    BY <1>2, QuietSame DEF vars
  <1>. QED
    BY <1>1, <1>2, HoldsCall, HoldsBuildFails, HoldsCrash, HoldsRecover, HoldsTick DEF Next

LEMMA HeldMeansOne == ASSUME Inv, Held PROVE OneHolder
  <1>. SUFFICES ASSUME NEW s \in Session, NEW t \in Session, NEW r \in Resource,
                       Relies(s, r), Relies(t, r)
                PROVE  s = t
    BY DEF OneHolder
  <1>1. Relying(s, guard[s]) /\ guard[s].res = r /\ Relying(t, guard[t]) /\ guard[t].res = r
    BY DEF Relies, Relying
  <1>2. Covers(trail[r], s, guard[s]) /\ Covers(trail[r], t, guard[t])
    BY <1>1 DEF Held, Views, View
  <1>. QED
    BY <1>2 DEF Covers

\* The promise of the skew window (classifyLeaseTime, decideTakeover): two sessions never
\* rely on the same resource at once, whatever crashed, expired or was taken over, however
\* many sessions, resources and calls there are and however old a claim may grow, as long
\* as clocks differ by no more than the skew and callers ask for one time to live.
THEOREM AtMostOneHolder == OneTTL => (Spec => []OneHolder)
  <1>. SUFFICES ASSUME OneTTL PROVE Spec => []OneHolder
    OBVIOUS
  <1>1. Inv /\ Held /\ [Next]_vars => Held'
    BY StepHeld
  <1>2. Inv /\ Held => OneHolder
    BY HeldMeansOne
  <1>. QED
    BY <1>1, <1>2, StartHeld, Invariance, PTL DEF Spec

-----------------------------------------------------------------------------
(* Whose work stands in the way of an acquisition.                           *)

\* A reason in the family of r to refuse s: a history, a claim, or another session
\* that asked for something there; or that s could not build a record.
Contended(s, r, T, C, A, U) ==
    \/ s \in U
    \/ \E q \in {r} \cup Family(r) :
         \/ T[q] # <<>> \/ C[q] # NoClaim
         \/ \E t \in Session \ {s} : q \in A[t]

\* A session keeps to what it asked for, and a conflict it is about to report, or
\* has just reported, has a reason in its family.
Reasoned(s, c, g, a, T, C, A, U) ==
    /\ c.pc \notin {"idle", "dead"} => c.res \in A[s]
    /\ g # NoGuard => g.res \in A[s]
    /\ c.got # NoGuard => c.got.res \in A[s]
    /\ c.kind = "acquire" /\ c.pc \notin {"idle", "dead", "before"} /\ c.seen # NoGuard =>
         T[c.res] # <<>>
    /\ c.kind = "acquire" /\ c.out = "conflict" =>
         IF c.pc = "leave" /\ c.after = "idle" THEN Contended(s, c.res, T, C, A, U) ELSE T[c.res] # <<>>
    /\ c.pc = "idle" /\ a.kind = "acquire" /\ a.out = "conflict" => Contended(s, a.res, T, C, A, U)

Reasons == \A s \in Session : Reasoned(s, sess[s], guard[s], reply[s], trail, claim, asked, unbuilt)

Administering == {"hold", "family", "claim", "leave", "unclaim", "unmark", "reclaim"}

\* The admission is of a call in the middle of its administration, of a dead one, or
\* of a session that failed when it had published it.
Admitted ==
    admission # NoClaim =>
        /\ admission.scope \in asked[admission.by]
        /\ \/ sess[admission.by].pc = "dead" \/ admission.by \in unbuilt
           \/ sess[admission.by].pc \in Administering /\ sess[admission.by].adm = admission

Apart == Reasons /\ Admitted

LEMMA Kindred ==
    ASSUME NEW r \in Resource
    PROVE  {r} \cup Family(r) \subseteq Resource
  BY DEF Family

\* Histories stay, sessions asked for what they asked for, and a claim goes only where
\* another session asked for something.
LEMMA StillReasoned ==
    ASSUME NEW s, NEW c, NEW g, NEW a, NEW T, NEW C, NEW A, NEW U, NEW T2, NEW C2, NEW A2, NEW U2,
           s \in Session, c.res \in Resource, a.res \in Resource, Reasoned(s, c, g, a, T, C, A, U),
           \A q \in Resource : T[q] # <<>> => T2[q] # <<>>,
           \A t \in Session : A[t] \subseteq A2[t], U \subseteq U2,
           \A q \in Resource : C[q] # NoClaim => C2[q] # NoClaim \/ \E t \in Session \ {s} : q \in A2[t]
    PROVE  Reasoned(s, c, g, a, T2, C2, A2, U2)
  <1>1. ASSUME NEW r \in Resource, Contended(s, r, T, C, A, U) PROVE Contended(s, r, T2, C2, A2, U2)
    <2>1. CASE s \in U
      BY <2>1 DEF Contended
    <2>2. ASSUME NEW q \in {r} \cup Family(r),
                 \/ T[q] # <<>> \/ C[q] # NoClaim
                 \/ \E t \in Session \ {s} : q \in A[t]
          PROVE  Contended(s, r, T2, C2, A2, U2)
      <3>1. q \in Resource
        BY Kindred
      <3>2. T2[q] # <<>> \/ C2[q] # NoClaim \/ \E t \in Session \ {s} : q \in A2[t]
        BY <2>2, <3>1
      <3>. QED
        BY <3>2 DEF Contended
    <2>. QED
      BY <1>1, <2>1, <2>2 DEF Contended
  <1>2. A[s] \subseteq A2[s]
    OBVIOUS
  <1>. QED
    BY <1>1, <1>2 DEF Reasoned

PastStays ==
    /\ \A q \in Resource : trail[q] # <<>> => trail'[q] # <<>>
    /\ \A t \in Session : asked[t] \subseteq asked'[t]
    /\ unbuilt \subseteq unbuilt'

LEMMA Asked ==
    ASSUME TypeOK, NEW s \in Session, NEW r, Asks(s, r)
    PROVE  r \in asked'[s] /\ \A t \in Session : asked[t] \subseteq asked'[t]
  BY DEF TypeOK, Asks

LEMMA NextPastStays == ASSUME Inv, [Next]_vars PROVE PastStays
  <1>1. ASSUME NEW q \in Resource, trail[q] # <<>>, trail'[q] # trail[q] PROVE trail'[q] # <<>>
    <2>1. PICK p \in Plan : PlanSound(p) /\ p.res = q /\ trail[q] = p.base /\ trail'[q] = p.trail
      BY <1>1, TrailChanges
    <2>. QED
      BY <2>1, PlanFacts DEF Agreed, Binds
  <1>. DEFINE Goal == (\A t \in Session : asked[t] \subseteq asked'[t]) /\ unbuilt \subseteq unbuilt'
  <1>2. asked' = asked /\ unbuilt' = unbuilt => Goal
    OBVIOUS
  <1>3. ASSUME NEW s \in Session, Call(s) PROVE Goal
    <2>1. (\E r : Asks(s, r)) /\ unbuilt' = unbuilt
      BY <1>3 DEF Call, Inspect, Acquire, RecoverClaim, Renew, Release, Takeover, Begin, Failing
    <2>. QED
      BY <2>1, Asked DEF Inv
  <1>4. ASSUME NEW s \in Session, Step(s) PROVE Goal
    <2>1. CASE AcquireClaim(s)
      BY <1>2, <2>1 DEF AcquireClaim, Before, PreAdmission, Hold, CheckFamily, TakeClaim, World, Failing
    <2>2. CASE WithAdmission(s)
      BY <1>2, <2>2 DEF WithAdmission, Admit, Elect, Again, LeaveAdmission, World, Failing
    <2>3. CASE Publish(s)
      BY <1>2, <2>3 DEF Publish, Decide, Preflight, MarkTransaction, Authorize, PublishTrail, PublishLease,
         Confirm, World, Failing
    <2>4. CASE ReturnClaim(s)
      BY <1>2, <2>4 DEF ReturnClaim, Unclaim, Unmark, Reclaim, World, Failing
    <2>. QED
      BY <1>4, <2>1, <2>2, <2>3, <2>4 DEF Step
  <1>5. ASSUME NEW s \in Session, BuildFails(s) \/ Crash(s) PROVE Goal
    BY <1>5 DEF BuildFails, Crash
  <1>6. ASSUME Tick PROVE Goal
    BY <1>2, <1>6 DEF Tick, Failing
  <1>7. ASSUME UNCHANGED vars PROVE Goal
    BY <1>2, <1>7 DEF vars, World, Failing
  <1>8. ASSUME NEW p \in txs, RecoverTransaction(p) PROVE Goal
    BY <1>2, <1>8 DEF RecoverTransaction, World, Failing
  <1>. HIDE DEF Goal
  <1>9. Goal
    BY <1>3, <1>4, <1>5, <1>6, <1>7, <1>8 DEF Next
  <1>. QED
    BY <1>1, <1>9 DEF PastStays, Goal

\* A step of session s takes claims away only where it asked for something.
ClearsOwn(s) ==
    \A q \in Resource : claim[q] # NoClaim => claim'[q] # NoClaim \/ q \in asked[s]

LEMMA ReasonStep ==
    ASSUME TypeOK, Reasons, PastStays, NEW s \in Session, sess' = [sess EXCEPT ![s] = sess'[s]],
           \A t \in Session \ {s} : guard'[t] = guard[t] /\ reply'[t] = reply[t],
           ClearsOwn(s), Reasoned(s, sess'[s], guard'[s], reply'[s], trail', claim', asked', unbuilt')
    PROVE  Reasons'
  <1>. SUFFICES ASSUME NEW t \in Session, t # s
                PROVE  Reasoned(t, sess'[t], guard'[t], reply'[t], trail', claim', asked', unbuilt')
    BY DEF Reasons
  <1>1. sess'[t] = sess[t] /\ guard'[t] = guard[t] /\ reply'[t] = reply[t]
    BY MeType
  <1>2. sess[t].res \in Resource /\ reply[t].res \in Resource
    BY MeType DEF TypeOK
  <1>3. Reasoned(t, sess[t], guard[t], reply[t], trail, claim, asked, unbuilt)
    BY DEF Reasons
  <1>4. \A q \in Resource : claim[q] # NoClaim =>
            claim'[q] # NoClaim \/ \E u \in Session \ {t} : q \in asked'[u]
    BY DEF ClearsOwn, PastStays
  <1>. QED
    BY <1>1, <1>2, <1>3, <1>4, StillReasoned DEF PastStays

\* A call that administers goes on doing so, or dies.
LEMMA AdmissionStep ==
    ASSUME TypeOK, Admitted, PastStays, NEW s \in Session, sess' = [sess EXCEPT ![s] = sess'[s]],
           admission' = admission,
           sess[s].pc # "dead",
           sess[s].pc \in Administering =>
             \/ sess'[s].pc = "dead"
             \/ sess'[s].pc \in Administering /\ sess'[s].adm = sess[s].adm
    PROVE  Admitted'
  <1>. SUFFICES ASSUME admission # NoClaim
                PROVE  /\ admission.scope \in asked'[admission.by]
                       /\ \/ sess'[admission.by].pc = "dead" \/ admission.by \in unbuilt'
                          \/ /\ sess'[admission.by].pc \in Administering
                             /\ sess'[admission.by].adm = admission
    BY DEF Admitted
  <1>1. admission.by \in Session
    BY DEF TypeOK, Admission
  <1>2. admission.by # s => sess'[admission.by] = sess[admission.by]
    BY <1>1, MeType
  <1>3. /\ admission.scope \in asked'[admission.by]
        /\ \/ sess[admission.by].pc = "dead" \/ admission.by \in unbuilt'
           \/ sess[admission.by].pc \in Administering /\ sess[admission.by].adm = admission
    BY <1>1 DEF Admitted, PastStays
  <1>4. CASE admission.by # s
    BY <1>2, <1>3, <1>4
  <1>5. CASE admission.by = s
    BY <1>3, <1>5
  <1>. QED
    BY <1>4, <1>5

LEMMA AdmKept ==
    ASSUME TypeOK, NEW s \in Session, NEW x, NEW y, Goto(s, x) \/ Leave(s, x, y)
    PROVE  sess'[s].adm = sess[s].adm
  <1>1. sess \in [Session -> CallState] /\ sess[s] \in CallState
    BY MeType
  <1>2. CASE Goto(s, x)
    <2>1. sess'[s] = [sess[s] EXCEPT !.pc = x]
      BY <1>1, <1>2 DEF Goto
    <2>. QED
      BY <1>1, <2>1 DEF CallState
  <1>3. CASE Leave(s, x, y)
    <2>1. sess'[s] = [sess[s] EXCEPT !.pc = "leave", !.after = x, !.out = y]
      BY <1>1, <1>3 DEF Leave
    <2>. QED
      BY <1>1, <2>1 DEF CallState
  <1>. QED
    BY <1>2, <1>3

\* What a session holds of its own.
LEMMA OwnReason ==
    ASSUME Inv, Apart, NEW s \in Session
    PROVE  /\ TypeOK /\ Reasons /\ Admitted
           /\ sess[s].pc \notin {"idle", "dead"} => sess[s].res \in asked[s]
           /\ guard[s] # NoGuard => guard[s].res \in asked[s]
           /\ sess[s].got # NoGuard => sess[s].got.res \in asked[s]
           /\ sess[s].kind = "acquire" /\ sess[s].pc \notin {"idle", "dead", "before"} /\ sess[s].seen # NoGuard =>
                trail[sess[s].res] # <<>>
           /\ sess[s].kind = "acquire" /\ sess[s].out = "conflict" =>
                IF sess[s].pc = "leave" /\ sess[s].after = "idle" THEN Contended(s, sess[s].res, trail, claim, asked, unbuilt)
                ELSE trail[sess[s].res] # <<>>
  <1>1. Reasoned(s, sess[s], guard[s], reply[s], trail, claim, asked, unbuilt)
    BY DEF Apart, Reasons
  <1>. QED
    BY <1>1 DEF Inv, Apart, Reasoned

LEMMA HeldHasHistory ==
    ASSUME Inv, NEW r \in Resource, lease[r] # NoLease
    PROVE  trail[r] # <<>>
  <1>1. CASE Agreed(trail[r], lease[r])
    BY <1>1 DEF Agreed, Binds
  <1>2. ASSUME NEW p \in txs, trail[r] = p.trail PROVE trail[r] # <<>>
    <2>1. p \in Plan /\ PlanSound(p)
      BY DEF Inv, TypeOK, Plans
    <2>. QED
      BY <1>2, <2>1, PlanFacts DEF Agreed, Binds
  <1>. QED
    BY <1>1, <1>2 DEF Inv, Filed

\* The call of s returns.
LEMMA ApartReturn ==
    ASSUME Inv, Apart, PastStays, NEW s \in Session, NEW out \in Outcome, Return(s, out),
           claim' = claim, sess[s].pc \notin {"idle", "dead"},
           sess[s].kind = "acquire" /\ out = "conflict" =>
             s \in unbuilt' \/ Contended(s, sess[s].res, trail, claim, asked, unbuilt)
    PROVE  Reasons'
  <1>1. TypeOK
    BY OwnReason
  <1>2. /\ sess' = [sess EXCEPT ![s] = sess'[s]] /\ sess'[s].pc = "idle" /\ sess'[s].got = NoGuard
        /\ sess'[s].kind = "none" /\ sess'[s] \in CallState
        /\ \A t \in Session \ {s} : guard'[t] = guard[t] /\ reply'[t] = reply[t]
        /\ guard'[s] \in {guard[s], sess[s].got}
    BY <1>1, ReturnFields
  <1>3. reply'[s] = [kind |-> sess[s].kind, res |-> sess[s].res, out |-> out]
    BY <1>1 DEF Return, Me, TypeOK
  <1>4. ClearsOwn(s)
    BY DEF ClearsOwn
  <1>5. guard'[s] # NoGuard => guard'[s].res \in asked'[s]
    BY <1>2, OwnReason DEF PastStays
  <1>6. sess[s].kind = "acquire" /\ out = "conflict" => Contended(s, sess[s].res, trail', claim', asked', unbuilt')
    <2>. SUFFICES ASSUME s \in unbuilt' \/ Contended(s, sess[s].res, trail, claim, asked, unbuilt)
                  PROVE  Contended(s, sess[s].res, trail', claim', asked', unbuilt')
      OBVIOUS
    <2>1. \A q \in {sess[s].res} \cup Family(sess[s].res) : q \in Resource
      BY <1>1, MeType, Kindred
    <2>. QED
      BY <2>1 DEF Contended, PastStays
  <1>7. Reasoned(s, sess'[s], guard'[s], reply'[s], trail', claim', asked', unbuilt')
    BY <1>2, <1>3, <1>5, <1>6 DEF Reasoned
  <1>. QED
    BY <1>1, <1>2, <1>4, <1>7, ReasonStep, OwnReason

\* The call of s goes on, with what it brought along.
LEMMA ApartGoes ==
    ASSUME Inv, Apart, PastStays, NEW s \in Session, sess' = [sess EXCEPT ![s] = sess'[s]],
           sess[s].pc \notin {"idle", "dead"}, sess'[s].pc # "idle",
           sess'[s].res = sess[s].res, sess'[s].kind = sess[s].kind,
           \/ sess'[s].got = sess[s].got
           \/ sess'[s].got # NoGuard => sess'[s].got.res = sess[s].res,
           sess'[s].kind = "acquire" /\ sess'[s].seen # NoGuard => trail[sess[s].res] # <<>>,
           sess'[s].kind = "acquire" /\ sess'[s].out = "conflict" =>
             IF sess'[s].pc = "leave" /\ sess'[s].after = "idle" THEN Contended(s, sess[s].res, trail, claim', asked, unbuilt)
             ELSE trail[sess[s].res] # <<>>,
           ClearsOwn(s), guard' = guard, reply' = reply
    PROVE  Reasons'
  <1>1. TypeOK /\ Reasons /\ sess[s].res \in asked'[s] /\ sess[s].res \in Resource
    BY OwnReason, MeType DEF PastStays
  <1>2. sess'[s].pc = "leave" /\ sess'[s].after = "idle" /\ sess'[s].kind = "acquire" /\ sess'[s].out = "conflict" =>
            Contended(s, sess[s].res, trail', claim', asked', unbuilt')
    <2>. SUFFICES ASSUME Contended(s, sess[s].res, trail, claim', asked, unbuilt) PROVE Contended(s, sess[s].res, trail', claim', asked', unbuilt')
      OBVIOUS
    <2>1. \A q \in {sess[s].res} \cup Family(sess[s].res) : q \in Resource
      BY <1>1, Kindred
    <2>. QED
      BY <2>1 DEF Contended, PastStays
  <1>3. trail[sess[s].res] # <<>> => trail'[sess[s].res] # <<>>
    BY <1>1 DEF PastStays
  <1>4. /\ guard[s] # NoGuard => guard[s].res \in asked'[s]
        /\ sess[s].got # NoGuard => sess[s].got.res \in asked'[s]
    BY OwnReason DEF PastStays
  <1>5. Reasoned(s, sess'[s], guard'[s], reply'[s], trail', claim', asked', unbuilt')
    BY <1>1, <1>2, <1>3, <1>4 DEF Reasoned
  <1>. QED
    BY <1>1, <1>5, ReasonStep

LEMMA ApartInspect ==
    ASSUME Inv, Apart, PastStays, NEW s \in Session, NEW r \in Works[s], Inspect(s, r) PROVE Apart'
  <1>. DEFINE seen == IF Marked(r) THEN "recovery_required" ELSE Look(s, r)
  <1>1. TypeOK /\ Reasons /\ Admitted /\ r \in Resource /\ sess[s].pc = "idle"
    BY OwnReason, LocksAssumption DEF Inspect, At
  <1>2. /\ sess' = [sess EXCEPT ![s].call = @ + 1] /\ claim' = claim /\ admission' = admission
        /\ reply' = [reply EXCEPT ![s] = [kind |-> "inspect", res |-> r, out |-> seen]]
        /\ guard' = [guard EXCEPT ![s] = IF seen \in Unreadable THEN @ ELSE CurrentGuard(r)]
    BY DEF Inspect, Files
  <1>3. /\ sess' = [sess EXCEPT ![s] = sess'[s]] /\ sess'[s].pc = "idle" /\ sess'[s].got = sess[s].got
        /\ sess'[s].kind = sess[s].kind /\ sess'[s].out = sess[s].out /\ sess'[s].res = sess[s].res
    <2>1. sess \in [Session -> CallState] /\ sess[s] \in CallState
      BY <1>1, MeType
    <2>2. sess'[s] = [sess[s] EXCEPT !.call = @ + 1]
      BY <1>2, <2>1
    <2>. QED
      BY <1>1, <1>2, <2>1, <2>2 DEF CallState
  <1>4. /\ reply'[s] = [kind |-> "inspect", res |-> r, out |-> seen]
        /\ guard'[s] \in {guard[s], CurrentGuard(r)}
        /\ \A t \in Session \ {s} : guard'[t] = guard[t] /\ reply'[t] = reply[t]
    BY <1>1, <1>2 DEF TypeOK
  <1>5. guard'[s] # NoGuard => guard'[s].res \in asked'[s]
    BY <1>1, <1>4, Asked, OwnReason DEF CurrentGuard, Inspect
  <1>6. sess[s].kind = "acquire" /\ sess[s].out = "conflict" => trail'[sess[s].res] # <<>>
    <2>1. sess[s].res \in Resource
      BY <1>1, MeType
    <2>. QED
      BY <1>1, <2>1, OwnReason DEF PastStays
  <1>7. Reasoned(s, sess'[s], guard'[s], reply'[s], trail', claim', asked', unbuilt')
    <2>1. sess'[s].got # NoGuard => sess'[s].got.res \in asked'[s]
      BY <1>3, OwnReason DEF PastStays
    <2>. QED
      BY <1>3, <1>4, <1>5, <1>6, <2>1 DEF Reasoned
  <1>8. ClearsOwn(s)
    BY <1>2 DEF ClearsOwn
  <1>9. Admitted'
    BY <1>1, <1>2, <1>3, AdmissionStep DEF Administering
  <1>. QED
    BY <1>1, <1>3, <1>4, <1>7, <1>8, <1>9, ReasonStep DEF Apart

LEMMA ApartBegin ==
    ASSUME Inv, Apart, PastStays, NEW s \in Session, NEW kind \in Lifecycle, NEW r \in Resource,
           NEW pc \in {"before", "pre"}, kind = "acquire" => pc = "before", Begin(s, kind, r, pc),
           guard' = guard \/ guard' = [guard EXCEPT ![s] = NoGuard]
    PROVE  Apart'
  <1>1. TypeOK /\ Reasons /\ Admitted /\ r \in Resource /\ sess[s].pc = "idle"
    BY OwnReason, LocksAssumption DEF Begin, At
  <1>2. claim' = claim /\ admission' = admission /\ reply' = reply
    BY DEF Begin, Files
  <1>3. /\ sess' = [sess EXCEPT ![s] = sess'[s]] /\ sess'[s].pc = pc /\ sess'[s].kind = kind
        /\ sess'[s].got = NoGuard /\ sess'[s].res = r
    BY <1>1, BeginFields
  <1>4. sess'[s].out = "none"
    <2>1. sess \in [Session -> CallState]
      BY <1>1, MeType
    <2>2. PICK ttl \in TTL : sess' = [sess EXCEPT ![s] =
            [Idle(Me(s).call + 1) EXCEPT !.pc = pc, !.kind = kind, !.res = r, !.ttl = ttl,
                                         !.seen = guard[s], !.goal = "hold"]]
      BY DEF Begin
    <2>. QED
      BY <2>1, <2>2 DEF Idle
  <1>5. /\ guard'[s] # NoGuard => guard'[s].res \in asked'[s]
        /\ \A t \in Session \ {s} : guard'[t] = guard[t]
    BY <1>1, OwnReason DEF TypeOK, PastStays
  <1>6. Reasoned(s, sess'[s], guard'[s], reply'[s], trail', claim', asked', unbuilt')
    <2>1. r \in asked'[s]
      BY <1>1, Asked DEF Begin
    <2>. QED
      BY <1>3, <1>4, <1>5, <2>1 DEF Reasoned
  <1>7. ClearsOwn(s)
    BY <1>2 DEF ClearsOwn
  <1>8. Admitted'
    BY <1>1, <1>2, <1>3, AdmissionStep DEF Administering
  <1>. QED
    BY <1>1, <1>2, <1>3, <1>5, <1>6, <1>7, <1>8, ReasonStep DEF Apart

LEMMA ApartRecoverClaim ==
    ASSUME Inv, Apart, PastStays, NEW s \in Session, NEW r \in Works[s], RecoverClaim(s, r) PROVE Apart'
  <1>1. TypeOK /\ Reasons /\ Admitted /\ r \in Resource /\ sess[s].pc = "idle"
    BY OwnReason, LocksAssumption DEF RecoverClaim, At
  <1>2. claim' = claim /\ admission' = admission /\ reply' = reply /\ guard' = guard
    BY DEF RecoverClaim, Files
  <1>3. /\ sess' = [sess EXCEPT ![s] = sess'[s]] /\ sess'[s].pc = "admit" /\ sess'[s].kind = "recover"
        /\ sess'[s].got = NoGuard /\ sess'[s].res = r
    <2>1. sess \in [Session -> CallState]
      BY <1>1, MeType
    <2>. QED
      BY <2>1 DEF RecoverClaim, Idle
  <1>4. guard'[s] # NoGuard => guard'[s].res \in asked'[s]
    BY <1>2, OwnReason DEF PastStays
  <1>5. Reasoned(s, sess'[s], guard'[s], reply'[s], trail', claim', asked', unbuilt')
    <2>1. r \in asked'[s]
      BY <1>1, Asked DEF RecoverClaim
    <2>. QED
      BY <1>3, <1>4, <2>1 DEF Reasoned
  <1>6. ClearsOwn(s)
    BY <1>2 DEF ClearsOwn
  <1>7. Admitted'
    BY <1>1, <1>2, <1>3, AdmissionStep DEF Administering
  <1>. QED
    BY <1>1, <1>2, <1>3, <1>5, <1>6, <1>7, ReasonStep DEF Apart

LEMMA ApartCall == ASSUME Inv, Apart, PastStays, NEW s \in Session, Call(s) PROVE Apart'
  <1>1. ASSUME NEW r \in Works[s], Acquire(s, r) PROVE Apart'
    BY <1>1, ApartBegin, LocksAssumption DEF Acquire, Lifecycle
  <1>2. ASSUME guard[s] # NoGuard PROVE guard[s].res \in Resource
    BY <1>2, GuardRes, OwnReason
  <1>3. CASE Renew(s)
    BY <1>2, <1>3, ApartBegin DEF Renew, Owns, Lifecycle
  <1>4. CASE Release(s)
    BY <1>2, <1>4, ApartBegin DEF Release, Owns, Lifecycle
  <1>5. CASE Takeover(s)
    BY <1>2, <1>5, ApartBegin DEF Takeover, Lifecycle
  <1>. QED
    BY <1>1, <1>3, <1>4, <1>5, ApartInspect, ApartRecoverClaim DEF Call

LEMMA ApartCrash == ASSUME Inv, Apart, PastStays, NEW s \in Session, Crash(s) PROVE Apart'
  <1>1. TypeOK /\ Reasons /\ Admitted
    BY OwnReason
  <1>2. /\ claim' = claim /\ admission' = admission /\ reply' = reply
        /\ guard' = [guard EXCEPT ![s] = NoGuard]
        /\ sess' = [sess EXCEPT ![s] = [Idle(Me(s).call) EXCEPT !.pc = "dead"]]
    BY DEF Crash, Files
  <1>3. /\ sess' = [sess EXCEPT ![s] = sess'[s]] /\ sess'[s].pc = "dead" /\ sess'[s].kind = "none"
        /\ sess'[s].got = NoGuard
    <2>1. sess \in [Session -> CallState]
      BY <1>1, MeType
    <2>. QED
      BY <1>2, <2>1 DEF Idle
  <1>4. guard'[s] = NoGuard /\ \A t \in Session \ {s} : guard'[t] = guard[t]
    BY <1>1, <1>2 DEF TypeOK
  <1>5. Reasoned(s, sess'[s], guard'[s], reply'[s], trail', claim', asked', unbuilt')
    BY <1>3, <1>4 DEF Reasoned
  <1>6. ClearsOwn(s)
    BY <1>2 DEF ClearsOwn
  <1>7. Admitted'
    BY <1>1, <1>2, <1>3, AdmissionStep DEF Crash, At
  <1>. QED
    BY <1>1, <1>2, <1>3, <1>4, <1>5, <1>6, <1>7, ReasonStep DEF Apart

\* Nothing of the sessions, the claims and the admission moves.
LEMMA ApartStays ==
    ASSUME Inv, Apart, PastStays, sess' = sess, guard' = guard, reply' = reply, claim' = claim,
           admission' = admission, asked' = asked, unbuilt' = unbuilt
    PROVE  Apart'
  <1>1. ASSUME NEW s \in Session PROVE Reasoned(s, sess[s], guard[s], reply[s], trail', claim', asked', unbuilt')
    <2>1. sess[s].res \in Resource /\ reply[s].res \in Resource
      BY MeType DEF Inv, TypeOK
    <2>. QED
      BY <2>1, StillReasoned DEF Apart, Reasons, PastStays
  <1>2. Admitted'
    BY DEF Apart, Admitted
  <1>. QED
    BY <1>1, <1>2 DEF Apart, Reasons

LEMMA ApartBefore == ASSUME Inv, Apart, PastStays, NEW s \in Session, Before(s) PROVE Apart'
  <1>. DEFINE r == sess[s].res
              saw == IF Marked(r) THEN "recovery_required" ELSE Look(s, r)
  <1>1. TypeOK /\ Reasons /\ Admitted /\ r \in Resource /\ sess[s].pc = "before" /\ Me(s) = sess[s]
    BY OwnReason, MeType DEF Before, At
  <1>2. claim' = claim /\ admission' = admission
    BY DEF Before, Files
  <1>3. saw \in Outcome
    BY LookType, OutcomeNames
  <1>4. ClearsOwn(s)
    BY <1>2 DEF ClearsOwn
  <1>5. ASSUME NEW out \in Outcome, Return(s, out),
               sess[s].kind = "acquire" /\ out = "conflict" => Contended(s, r, trail, claim, asked, unbuilt)
        PROVE  Apart'
    <2>1. Reasons'
      BY <1>1, <1>2, <1>5, ApartReturn
    <2>2. sess' = [sess EXCEPT ![s] = sess'[s]]
      BY <1>1, <1>5, ReturnFields
    <2>. QED
      BY <1>1, <1>2, <2>1, <2>2, AdmissionStep DEF Apart, Administering
  <1>6. CASE saw \in Unreadable /\ Return(s, saw)
    BY <1>3, <1>5, <1>6 DEF Unreadable
  <1>7. CASE sess[s].kind = "acquire" /\ saw \in Standing /\ Return(s, "conflict")
    <2>1. Look(s, r) \notin Unreadable /\ Look(s, r) # "empty"
      BY <1>7 DEF Standing, Unreadable
    <2>2. trail[r] # <<>>
      BY <1>1, <2>1, ReadableAgrees DEF Binds
    <2>. QED
      BY <1>5, <1>7, <2>2, OutcomeNames DEF Contended
  <1>8. CASE /\ sess[s].kind = "acquire" /\ sess' = [sess EXCEPT ![s].pc = "pre", ![s].seen = CurrentGuard(r)]
             /\ guard' = guard /\ reply' = reply
    <2>1. sess \in [Session -> CallState] /\ sess[s] \in CallState
      BY <1>1, MeType
    <2>2. sess'[s] = [sess[s] EXCEPT !.pc = "pre", !.seen = CurrentGuard(r)]
      BY <1>8, <2>1
    <2>3. /\ sess' = [sess EXCEPT ![s] = sess'[s]] /\ sess'[s].pc = "pre" /\ sess'[s].seen = CurrentGuard(r)
          /\ sess'[s].res = r /\ sess'[s].kind = sess[s].kind /\ sess'[s].got = sess[s].got
          /\ sess'[s].out = sess[s].out
      BY <1>8, <2>1, <2>2 DEF CallState
    <2>4. CurrentGuard(r) # NoGuard => trail[r] # <<>>
      BY <1>1, HeldHasHistory DEF CurrentGuard
    <2>5. Reasons'
      BY <1>1, <1>4, <1>8, <2>3, <2>4, ApartGoes, OwnReason
    <2>. QED
      BY <1>1, <1>2, <2>3, <2>5, AdmissionStep DEF Apart, Administering
  <1>9. CASE sess[s].kind = "release" /\ Return(s, "released")
    BY <1>5, <1>9, OutcomeNames
  <1>10. CASE sess[s].kind = "release" /\ Goto(s, "pre") /\ guard' = guard /\ reply' = reply
    <2>1. /\ sess' = [sess EXCEPT ![s] = sess'[s]] /\ sess'[s].pc = "pre" /\ sess'[s].kind = sess[s].kind
          /\ sess'[s].res = r /\ sess'[s].got = sess[s].got
      BY <1>1, <1>10, GotoFields DEF PC
    <2>2. Reasons'
      BY <1>1, <1>4, <1>10, <2>1, ApartGoes
    <2>. QED
      BY <1>1, <1>2, <2>1, <2>2, AdmissionStep DEF Apart, Administering
  <1>. QED
    BY <1>1, <1>6, <1>7, <1>8, <1>9, <1>10 DEF Before

\* The call of s moves on and keeps what it has.
LEMMA ApartGoto ==
    ASSUME Inv, Apart, PastStays, NEW s \in Session, NEW pc \in PC, Goto(s, pc),
           sess[s].pc \notin {"idle", "dead", "before", "leave"}, pc \notin {"idle", "dead", "leave", "pre"},
           sess[s].pc \in Administering => pc \in Administering, admission' = admission,
           ClearsOwn(s), guard' = guard, reply' = reply
    PROVE  Apart'
  <1>1. TypeOK /\ Admitted
    BY OwnReason
  <1>2. /\ sess' = [sess EXCEPT ![s] = sess'[s]] /\ sess'[s].pc = pc /\ sess'[s].kind = sess[s].kind
        /\ sess'[s].res = sess[s].res /\ sess'[s].got = sess[s].got /\ sess'[s].seen = sess[s].seen
        /\ sess'[s].out = sess[s].out
    BY <1>1, GotoFields
  <1>3. Reasons'
    BY <1>2, ApartGoes, OwnReason
  <1>4. sess'[s].adm = sess[s].adm
    BY <1>1, AdmKept
  <1>. QED
    BY <1>1, <1>2, <1>3, <1>4, AdmissionStep DEF Apart

\* The work under the admission is over.
LEMMA ApartLeave ==
    ASSUME Inv, Apart, PastStays, NEW s \in Session, NEW out \in Outcome, Leave(s, "idle", out),
           sess[s].pc \notin {"idle", "dead", "before"},
           sess[s].kind = "acquire" /\ out = "conflict" => Contended(s, sess[s].res, trail, claim', asked, unbuilt),
           admission' = admission, ClearsOwn(s), guard' = guard, reply' = reply
    PROVE  Apart'
  <1>1. TypeOK /\ Admitted
    BY OwnReason
  <1>2. /\ sess' = [sess EXCEPT ![s] = sess'[s]] /\ sess'[s].pc = "leave" /\ sess'[s].kind = sess[s].kind
        /\ sess'[s].res = sess[s].res /\ sess'[s].got = sess[s].got /\ sess'[s].out = out
        /\ sess'[s].seen = sess[s].seen /\ sess'[s].after = "idle"
    BY <1>1, LeaveFields
  <1>3. Reasons'
    BY <1>2, ApartGoes, OwnReason
  <1>4. sess'[s].adm = sess[s].adm
    BY <1>1, AdmKept
  <1>. QED
    BY <1>1, <1>2, <1>3, <1>4, AdmissionStep DEF Apart, Administering

\* The work under the claim is over.
LEMMA ApartConclude ==
    ASSUME Inv, Apart, PastStays, NEW s \in Session, NEW out \in Outcome, Conclude(s, out),
           sess[s].pc \in Deciding,
           sess[s].kind = "acquire" /\ out = "conflict" => trail[sess[s].res] # <<>>,
           admission' = admission, claim' = claim, guard' = guard, reply' = reply
    PROVE  Apart'
  <1>1. TypeOK /\ Admitted
    BY OwnReason
  <1>2. /\ sess' = [sess EXCEPT ![s] = sess'[s]] /\ sess'[s].pc = "admit" /\ sess'[s].kind = sess[s].kind
        /\ sess'[s].res = sess[s].res /\ sess'[s].got = sess[s].got /\ sess'[s].out = out
        /\ sess'[s].seen = sess[s].seen
    BY <1>1, ConcludeFields
  <1>3. ClearsOwn(s) /\ sess[s].pc \notin {"idle", "dead", "before"} /\ sess[s].pc \notin Administering
    BY DEF ClearsOwn, Deciding, Administering
  <1>4. Reasons'
    BY <1>2, <1>3, ApartGoes, OwnReason
  <1>. QED
    BY <1>1, <1>2, <1>3, <1>4, AdmissionStep DEF Apart

LEMMA Unobserved ==
    ASSUME Inv, Apart, NEW s \in Session, sess[s].kind = "acquire",
           sess[s].pc \notin {"idle", "dead", "before"}, ~AsObserved(s, sess[s].res)
    PROVE  Contended(s, sess[s].res, trail, claim, asked, unbuilt)
  <1>1. TypeOK /\ sess[s].res \in Resource /\ Me(s) = sess[s]
    BY OwnReason, MeType
  <1>2. CASE claim[sess[s].res] # NoClaim
    BY <1>2 DEF Contended
  <1>3. CASE CurrentGuard(sess[s].res) # sess[s].seen
    <2>1. lease[sess[s].res] # NoLease \/ sess[s].seen # NoGuard
      BY <1>3 DEF CurrentGuard
    <2>2. trail[sess[s].res] # <<>>
      BY <1>1, <2>1, HeldHasHistory, OwnReason
    <2>. QED
      BY <2>2 DEF Contended
  <1>. QED
    BY <1>1, <1>2, <1>3 DEF AsObserved

\* The call of s returns, and was not administering.
LEMMA ApartReturns ==
    ASSUME Inv, Apart, PastStays, NEW s \in Session, NEW out \in Outcome, Return(s, out),
           claim' = claim, admission' = admission,
           sess[s].pc \notin {"idle", "dead"} \cup Administering,
           sess[s].kind = "acquire" /\ out = "conflict" => Contended(s, sess[s].res, trail, claim, asked, unbuilt)
    PROVE  Apart'
  <1>1. TypeOK /\ Admitted
    BY OwnReason
  <1>2. Reasons'
    BY ApartReturn
  <1>3. sess' = [sess EXCEPT ![s] = sess'[s]]
    BY <1>1, ReturnFields
  <1>. QED
    BY <1>1, <1>2, <1>3, AdmissionStep DEF Apart

LEMMA ApartPreAdmission == ASSUME Inv, Apart, PastStays, NEW s \in Session, PreAdmission(s) PROVE Apart'
  <1>. DEFINE r == sess[s].res
  <1>1. TypeOK /\ sess[s].pc = "pre" /\ Me(s) = sess[s] /\ "admit" \in PC
    BY OwnReason, MeType DEF PreAdmission, At, PC
  <1>2. claim' = claim /\ admission' = admission
    BY DEF PreAdmission, Files
  <1>3. ClearsOwn(s)
    BY <1>2 DEF ClearsOwn
  <1>4. CASE Goto(s, "admit") /\ guard' = guard /\ reply' = reply
    BY <1>1, <1>2, <1>3, <1>4, ApartGoto DEF Administering
  <1>5. CASE Look(s, r) \in Unreadable /\ Return(s, Look(s, r))
    <2>1. Look(s, r) \in Outcome /\ Look(s, r) # "conflict"
      BY <1>5, LookType DEF Unreadable
    <2>. QED
      BY <1>1, <1>2, <1>5, <2>1, ApartReturns DEF Administering
  <1>6. CASE ~AsObserved(s, r) /\ Return(s, "conflict")
    BY <1>1, <1>2, <1>6, ApartReturns, Unobserved, OutcomeNames DEF Administering
  <1>. QED
    BY <1>1, <1>4, <1>5, <1>6 DEF PreAdmission

\* Whoever holds the admission in the way of s is another session that asked in
\* its family, or s itself after a failure.
LEMMA HeldByAnother ==
    ASSUME Inv, Apart, NEW s \in Session, sess[s].pc = "admit", admission # NoClaim, ~Independent(s)
    PROVE  Contended(s, sess[s].res, trail, claim, asked, unbuilt)
  <1>1. TypeOK /\ sess[s].res \in Resource /\ Me(s) = sess[s] /\ Admitted
    BY OwnReason, MeType
  <1>2. admission.by \in Session /\ admission.scope \in Resource
    BY <1>1 DEF TypeOK, Admission
  <1>3. /\ admission.by # s \/ s \in unbuilt
        /\ admission.scope \in asked[admission.by]
    BY <1>1 DEF Admitted, Administering
  <1>4. admission.scope \in {sess[s].res} \cup Family(sess[s].res)
    BY <1>1, <1>2 DEF Independent, Family
  <1>. QED
    BY <1>2, <1>3, <1>4 DEF Contended

LEMMA ApartAdmit == ASSUME Inv, Apart, PastStays, NEW s \in Session, Admit(s) PROVE Apart'
  <1>1. TypeOK /\ Admitted /\ sess[s].pc = "admit" /\ Me(s) = sess[s] /\ "elect" \in PC
    BY OwnReason, MeType DEF Admit, At, PC
  <1>2. claim' = claim /\ sess[s].goal \in {"hold", "unclaim", "reclaim"}
    BY <1>1 DEF Admit, Inv, Calls, CallSound
  <1>3. ClearsOwn(s)
    BY <1>2 DEF ClearsOwn
  <1>4. CASE admission' = NoClaim /\ Goto(s, "elect") /\ guard' = guard /\ reply' = reply
    <2>1. /\ sess' = [sess EXCEPT ![s] = sess'[s]] /\ sess'[s].pc = "elect" /\ sess'[s].kind = sess[s].kind
          /\ sess'[s].res = sess[s].res /\ sess'[s].got = sess[s].got /\ sess'[s].seen = sess[s].seen
          /\ sess'[s].out = sess[s].out
      BY <1>1, <1>4, GotoFields
    <2>2. Reasons'
      BY <1>1, <1>3, <1>4, <2>1, ApartGoes, OwnReason
    <2>. QED
      BY <1>4, <2>2 DEF Apart, Admitted
  <1>5. CASE Goto(s, sess[s].goal) /\ admission' = admission /\ guard' = guard /\ reply' = reply
    <2>1. sess[s].goal \in PC /\ sess[s].goal \notin {"idle", "dead", "leave", "pre"}
      BY <1>2 DEF PC
    <2>. QED
      BY <1>1, <1>3, <1>5, <2>1, ApartGoto DEF Administering
  <1>6. CASE /\ AdmissionHeld(s) /\ ~Independent(s) /\ Return(s, Blocked[sess[s].goal])
             /\ admission' = admission
    <2>1. Blocked[sess[s].goal] \in Outcome
      BY <1>2, OutcomeNames DEF Blocked
    <2>2. Contended(s, sess[s].res, trail, claim, asked, unbuilt)
      BY <1>1, <1>6, HeldByAnother DEF AdmissionHeld
    <2>. QED
      BY <1>1, <1>2, <1>6, <2>1, <2>2, ApartReturns DEF Administering
  <1>. QED
    BY <1>1, <1>4, <1>5, <1>6 DEF Admit

LEMMA ApartElect == ASSUME Inv, Apart, PastStays, NEW s \in Session, Elect(s) PROVE Apart'
  <1>. DEFINE record == AdmissionRecord(s)
  <1>1. /\ TypeOK /\ Admitted /\ sess[s].pc = "elect" /\ Me(s) = sess[s] /\ "again" \in PC
        /\ sess[s].res \in asked'[s]
    BY OwnReason, MeType DEF Elect, At, PC, PastStays
  <1>2. /\ claim' = claim /\ guard' = guard /\ reply' = reply
        /\ sess[s].goal \in {"hold", "unclaim", "reclaim"}
    BY <1>1 DEF Elect, Inv, Calls, CallSound
  <1>3. ClearsOwn(s)
    BY <1>2 DEF ClearsOwn
  <1>4. CASE admission' = record /\ sess' = [sess EXCEPT ![s].pc = sess[s].goal, ![s].adm = record]
    <2>1. sess \in [Session -> CallState] /\ sess[s] \in CallState
      BY <1>1, MeType
    <2>2. record.by = s /\ record.scope = sess[s].res
      BY <1>1 DEF AdmissionRecord
    <2>. HIDE DEF record
    <2>3. sess'[s] = [sess[s] EXCEPT !.pc = sess[s].goal, !.adm = record]
      BY <1>4, <2>1
    <2>4. /\ sess' = [sess EXCEPT ![s] = sess'[s]] /\ sess'[s].pc = sess[s].goal /\ sess'[s].kind = sess[s].kind
          /\ sess'[s].res = sess[s].res /\ sess'[s].got = sess[s].got /\ sess'[s].seen = sess[s].seen
          /\ sess'[s].out = sess[s].out /\ sess'[s].adm = record
      BY <1>4, <2>1, <2>3 DEF CallState
    <2>5. Reasons'
      BY <1>1, <1>2, <1>3, <2>4, ApartGoes, OwnReason
    <2>6. Admitted'
      BY <1>1, <1>2, <1>4, <2>2, <2>4 DEF Admitted, Administering
    <2>. QED
      BY <2>5, <2>6 DEF Apart
  <1>5. CASE Goto(s, "again") /\ admission' = admission
    BY <1>1, <1>2, <1>3, <1>5, ApartGoto DEF Administering
  <1>. QED
    BY <1>1, <1>4, <1>5 DEF Elect

LEMMA ApartAgain == ASSUME Inv, Apart, PastStays, NEW s \in Session, Again(s) PROVE Apart'
  <1>1. TypeOK /\ Admitted /\ sess[s].pc = "again" /\ Me(s) = sess[s] /\ "admit" \in PC
    BY OwnReason, MeType DEF Again, At, PC
  <1>2. claim' = claim /\ sess[s].goal \in {"hold", "unclaim", "reclaim"}
    BY <1>1 DEF Again, Inv, Calls, CallSound
  <1>3. ClearsOwn(s)
    BY <1>2 DEF ClearsOwn
  <1>4. CASE Return(s, Unexplained[sess[s].goal]) /\ admission' = admission
    <2>1. Unexplained[sess[s].goal] \in Outcome /\ Unexplained[sess[s].goal] # "conflict"
      BY <1>2, OutcomeNames DEF Unexplained
    <2>. QED
      BY <1>1, <1>2, <1>4, <2>1, ApartReturns DEF Administering
  <1>5. CASE Goto(s, sess[s].goal) /\ admission' = admission /\ guard' = guard /\ reply' = reply
    <2>1. sess[s].goal \in PC /\ sess[s].goal \notin {"idle", "dead", "leave", "pre"}
      BY <1>2 DEF PC
    <2>. QED
      BY <1>1, <1>3, <1>5, <2>1, ApartGoto DEF Administering
  <1>6. CASE /\ Goto(s, "admit") /\ guard' = guard /\ reply' = reply
             /\ admission' = NoClaim
    <2>1. /\ sess' = [sess EXCEPT ![s] = sess'[s]] /\ sess'[s].pc = "admit" /\ sess'[s].kind = sess[s].kind
          /\ sess'[s].res = sess[s].res /\ sess'[s].got = sess[s].got /\ sess'[s].seen = sess[s].seen
          /\ sess'[s].out = sess[s].out
      BY <1>1, <1>6, GotoFields
    <2>2. Reasons'
      BY <1>1, <1>3, <1>6, <2>1, ApartGoes, OwnReason
    <2>. QED
      BY <1>6, <2>2 DEF Apart, Admitted
  <1>7. CASE Goto(s, "admit") /\ admission' = admission /\ guard' = guard /\ reply' = reply
    BY <1>1, <1>3, <1>7, ApartGoto DEF Administering
  <1>. QED
    BY <1>1, <1>4, <1>5, <1>6, <1>7 DEF Again

LEMMA ApartBuildFails == ASSUME Inv, Apart, PastStays, NEW s \in Session, BuildFails(s) PROVE Apart'
  <1>1. /\ TypeOK /\ Admitted /\ sess[s].pc = "elect" /\ Me(s) = sess[s] /\ sess[s].res \in asked'[s]
        /\ claim' = claim /\ s \in unbuilt' /\ sess[s].goal \in {"hold", "unclaim", "reclaim"}
    BY OwnReason, MeType DEF BuildFails, At, Inv, Calls, CallSound, PastStays
  <1>2. PICK out \in {Unexplained[sess[s].goal], Blocked[sess[s].goal]} : Return(s, out)
    BY <1>1 DEF BuildFails
  <1>3. out \in Outcome
    BY <1>1, <1>2, OutcomeNames DEF Unexplained, Blocked
  <1>4. Reasons'
    BY <1>1, <1>2, <1>3, ApartReturn
  <1>5. sess' = [sess EXCEPT ![s] = sess'[s]]
    BY <1>1, <1>2, <1>3, ReturnFields
  <1>6. CASE admission' = admission
    <2>1. Admitted'
      BY <1>1, <1>5, <1>6, AdmissionStep DEF Administering
    <2>. QED
      BY <1>4, <2>1 DEF Apart
  <1>7. CASE admission' = AdmissionRecord(s)
    <2>1. AdmissionRecord(s).by = s /\ AdmissionRecord(s).scope = sess[s].res
      BY <1>1 DEF AdmissionRecord
    <2>2. Admitted'
      BY <1>1, <1>7, <2>1 DEF Admitted
    <2>. QED
      BY <1>4, <2>2 DEF Apart
  <1>. QED
    BY <1>6, <1>7 DEF BuildFails

\* Whoever leaves takes the own record away.
LEMMA LeftAlone ==
    ASSUME TypeOK, Admitted, PastStays, NEW s \in Session, sess[s].pc = "leave",
           sess' = [sess EXCEPT ![s] = sess'[s]],
           admission' = IF admission # NoClaim /\ admission = sess[s].adm THEN NoClaim ELSE admission
    PROVE  Admitted'
  <1>. SUFFICES ASSUME admission # NoClaim, admission' = admission, admission # sess[s].adm PROVE Admitted'
    BY DEF Admitted
  <1>1. admission.by \in Session /\ admission.scope \in asked'[admission.by]
    BY DEF TypeOK, Admission, Admitted, PastStays
  <1>2. CASE admission.by \in unbuilt
    BY <1>1, <1>2 DEF Admitted, PastStays
  <1>3. CASE admission.by \notin unbuilt
    <2>1. admission.by # s
      BY <1>3 DEF Admitted
    <2>2. sess'[admission.by] = sess[admission.by]
      BY <1>1, <2>1, MeType
    <2>. QED
      BY <1>1, <1>3, <2>2 DEF Admitted
  <1>. QED
    BY <1>2, <1>3

LEMMA ApartLeaveAdmission == ASSUME Inv, Apart, PastStays, NEW s \in Session, LeaveAdmission(s) PROVE Apart'
  <1>1. /\ TypeOK /\ Admitted /\ sess[s].pc = "leave" /\ Me(s) = sess[s] /\ sess[s].out \in Outcome
        /\ sess \in [Session -> CallState] /\ sess[s] \in CallState /\ sess[s].after \in {"idle", "decide"}
    BY OwnReason, MeType DEF LeaveAdmission, At
  <1>2. /\ claim' = claim
        /\ admission' = IF admission # NoClaim /\ admission = sess[s].adm THEN NoClaim ELSE admission
    BY <1>1 DEF LeaveAdmission
  <1>3. ClearsOwn(s)
    BY <1>2 DEF ClearsOwn
  <1>4. CASE sess[s].after = "idle" /\ Return(s, sess[s].out)
    <2>1. Reasons'
      BY <1>1, <1>2, <1>4, ApartReturn, OwnReason
    <2>2. sess' = [sess EXCEPT ![s] = sess'[s]]
      BY <1>1, <1>4, ReturnFields
    <2>. QED
      BY <2>1, <2>2, <1>1, <1>2, LeftAlone DEF Apart
  <1>5. CASE /\ sess[s].after = "decide" /\ guard' = guard /\ reply' = reply
             /\ sess' = [sess EXCEPT ![s].pc = sess[s].after, ![s].adm = NoClaim]
    <2>1. sess'[s] = [sess[s] EXCEPT !.pc = "decide", !.adm = NoClaim]
      BY <1>1, <1>5
    <2>2. /\ sess' = [sess EXCEPT ![s] = sess'[s]] /\ sess'[s].pc = "decide" /\ sess'[s].kind = sess[s].kind
          /\ sess'[s].res = sess[s].res /\ sess'[s].got = sess[s].got /\ sess'[s].seen = sess[s].seen
          /\ sess'[s].out = sess[s].out
      BY <1>1, <1>5, <2>1 DEF CallState
    <2>3. /\ sess[s].kind = "acquire" /\ sess[s].seen # NoGuard => trail[sess[s].res] # <<>>
          /\ sess[s].kind = "acquire" /\ sess[s].out = "conflict" => trail[sess[s].res] # <<>>
      BY <1>1, <1>5, OwnReason
    <2>4. Reasons'
      BY <1>1, <1>3, <1>5, <2>2, <2>3, ApartGoes
    <2>. QED
      BY <2>2, <2>4, <1>1, <1>2, LeftAlone DEF Apart
  <1>. QED
    BY <1>1, <1>4, <1>5 DEF LeaveAdmission

LEMMA HelpClears ==
    ASSUME Inv, Apart, NEW s \in Session, HelpCleanup(sess[s].res), sess[s].pc \notin {"idle", "dead"}
    PROVE  ClearsOwn(s)
  BY OwnReason DEF ClearsOwn, HelpCleanup, TypeOK

\* The call of s stays where it is.
LEMMA ApartHelps ==
    ASSUME Inv, Apart, PastStays, NEW s \in Session, sess' = sess, HelpCleanup(sess[s].res),
           sess[s].pc \notin {"idle", "dead", "before", "leave"}, guard' = guard, reply' = reply,
           admission' = admission
    PROVE  Apart'
  <1>1. TypeOK /\ Admitted /\ sess \in [Session -> CallState]
    BY OwnReason, MeType
  <1>2. sess' = [sess EXCEPT ![s] = sess'[s]]
    BY <1>1
  <1>3. /\ sess[s].kind = "acquire" /\ sess[s].seen # NoGuard => trail[sess[s].res] # <<>>
        /\ sess[s].kind = "acquire" /\ sess[s].out = "conflict" => trail[sess[s].res] # <<>>
    BY OwnReason
  <1>4. Reasons'
    BY <1>2, <1>3, HelpClears, ApartGoes
  <1>5. Admitted'
    BY <1>1, <1>2, AdmissionStep
  <1>. QED
    BY <1>4, <1>5 DEF Apart

LEMMA ApartHold == ASSUME Inv, Apart, PastStays, NEW s \in Session, Hold(s) PROVE Apart'
  <1>. DEFINE r == sess[s].res
  <1>1. TypeOK /\ sess[s].pc = "hold" /\ Me(s) = sess[s] /\ "family" \in PC
    BY OwnReason, MeType DEF Hold, At, PC
  <1>2. admission' = admission /\ guard' = guard /\ reply' = reply
    BY DEF Hold
  <1>3. CASE HelpCleanup(r) /\ sess' = sess
    BY <1>1, <1>2, <1>3, ApartHelps
  <1>4. claim' = claim => ClearsOwn(s)
    BY DEF ClearsOwn
  <1>5. CASE Look(s, r) \in Unreadable /\ Leave(s, "idle", Look(s, r)) /\ claim' = claim
    <2>1. Look(s, r) \in Outcome /\ Look(s, r) # "conflict"
      BY <1>5, LookType DEF Unreadable
    <2>. QED
      BY <1>1, <1>2, <1>4, <1>5, <2>1, ApartLeave
  <1>6. CASE Goto(s, "family") /\ claim' = claim
    BY <1>1, <1>2, <1>4, <1>6, ApartGoto DEF Administering
  <1>7. CASE ~AsObserved(s, r) /\ Leave(s, "idle", "conflict") /\ claim' = claim
    BY <1>1, <1>2, <1>4, <1>7, ApartLeave, Unobserved, OutcomeNames
  <1>. QED
    BY <1>1, <1>3, <1>5, <1>6, <1>7 DEF Hold

LEMMA ApartFamily == ASSUME Inv, Apart, PastStays, NEW s \in Session, CheckFamily(s) PROVE Apart'
  <1>. DEFINE kin == Family(sess[s].res)
  <1>1. /\ TypeOK /\ sess[s].pc = "family" /\ Me(s) = sess[s] /\ "claim" \in PC
        /\ sess[s].res \in Resource
    BY OwnReason, MeType DEF CheckFamily, At, PC
  <1>2. admission' = admission /\ guard' = guard /\ reply' = reply /\ claim' = claim
    BY DEF CheckFamily, Files
  <1>3. ClearsOwn(s)
    BY <1>2 DEF ClearsOwn
  <1>4. CASE Goto(s, "claim")
    BY <1>1, <1>2, <1>3, <1>4, ApartGoto DEF Administering
  <1>5. ASSUME NEW q \in kin, InTheWay(s, q), Leave(s, "idle", "conflict") PROVE Apart'
    <2>1. q \in Resource
      BY <1>1, Kindred
    <2>2. claim[q] # NoClaim \/ trail[q] # <<>>
      <3>1. CASE Look(s, q) \in {"active", "skew"}
        <4>1. lease[q] # NoLease
          BY <3>1 DEF Look, Observation
        <4>. QED
          BY <2>1, <4>1, HeldHasHistory
      <3>. QED
        BY <1>5, <3>1 DEF InTheWay
    <2>3. Contended(s, sess[s].res, trail, claim, asked, unbuilt)
      BY <2>2 DEF Contended
    <2>. QED
      BY <1>1, <1>2, <1>3, <1>5, <2>3, ApartLeave, OutcomeNames
  <1>6. ASSUME NEW q \in kin, Look(s, q) \in Unreadable, Leave(s, "idle", Look(s, q)) PROVE Apart'
    <2>1. Look(s, q) \in Outcome /\ Look(s, q) # "conflict"
      BY <1>6, LookType DEF Unreadable
    <2>. QED
      BY <1>1, <1>2, <1>3, <1>6, <2>1, ApartLeave
  <1>. QED
    BY <1>1, <1>4, <1>5, <1>6 DEF CheckFamily

LEMMA ApartTakeClaim == ASSUME Inv, Apart, PastStays, NEW s \in Session, TakeClaim(s) PROVE Apart'
  <1>. DEFINE r == sess[s].res
              record == [by |-> s, call |-> sess[s].call, expires |-> Clock(s) + ClaimTTL,
                         marked |-> FALSE]
  <1>1. /\ TypeOK /\ Admitted /\ sess[s].pc = "claim" /\ Me(s) = sess[s] /\ r \in Resource
        /\ sess \in [Session -> CallState] /\ sess[s] \in CallState /\ r \in asked[s]
    BY OwnReason, MeType DEF TakeClaim, At
  <1>2. admission' = admission /\ guard' = guard /\ reply' = reply
    BY DEF TakeClaim
  <1>3. CASE /\ claim' = [claim EXCEPT ![r] = record]
             /\ sess' = [sess EXCEPT ![s].pc = "leave", ![s].after = "decide", ![s].mine = record]
    <2>. HIDE DEF record
    <2>1. ClearsOwn(s)
      BY <1>1, <1>3 DEF ClearsOwn, TypeOK
    <2>2. sess'[s] = [sess[s] EXCEPT !.pc = "leave", !.after = "decide", !.mine = record]
      BY <1>1, <1>3
    <2>3. /\ sess' = [sess EXCEPT ![s] = sess'[s]] /\ sess'[s].pc = "leave" /\ sess'[s].kind = sess[s].kind
          /\ sess'[s].res = r /\ sess'[s].got = sess[s].got /\ sess'[s].seen = sess[s].seen
          /\ sess'[s].out = sess[s].out /\ sess'[s].after = "decide" /\ sess'[s].adm = sess[s].adm
      BY <1>1, <1>3, <2>2 DEF CallState
    <2>4. /\ sess[s].kind = "acquire" /\ sess[s].seen # NoGuard => trail[r] # <<>>
          /\ sess[s].kind = "acquire" /\ sess[s].out = "conflict" => trail[r] # <<>>
      BY <1>1, OwnReason
    <2>5. Reasons'
      BY <1>1, <1>2, <2>1, <2>3, <2>4, ApartGoes
    <2>. QED
      BY <1>1, <1>2, <2>3, <2>5, AdmissionStep DEF Apart, Administering
  <1>4. CASE claim[r] # NoClaim /\ Leave(s, "idle", "conflict") /\ claim' = claim
    <2>1. ClearsOwn(s) /\ Contended(s, r, trail, claim', asked, unbuilt)
      BY <1>4 DEF ClearsOwn, Contended
    <2>. QED
      BY <1>1, <1>2, <1>4, <2>1, ApartLeave, OutcomeNames
  <1>. QED
    BY <1>1, <1>3, <1>4 DEF TakeClaim

LEMMA ApartDecide == ASSUME Inv, Apart, PastStays, NEW s \in Session, Decide(s) PROVE Apart'
  <1>. DEFINE r == sess[s].res
              d == Decision(s)
  <1>1. /\ TypeOK /\ Admitted /\ sess[s].pc = "decide" /\ Me(s) = sess[s] /\ r \in Resource
        /\ sess[s].pc \in Deciding /\ sess \in [Session -> CallState] /\ sess[s] \in CallState
    BY OwnReason, MeType DEF Decide, At, Deciding
  <1>2. admission' = admission /\ guard' = guard /\ reply' = reply /\ claim' = claim
    BY DEF Decide, Files
  <1>3. CASE Look(s, r) \in Unreadable /\ Conclude(s, Look(s, r))
    <2>1. Look(s, r) \in Outcome /\ Look(s, r) # "conflict"
      BY <1>3, LookType DEF Unreadable
    <2>. QED
      BY <1>1, <1>2, <1>3, <2>1, ApartConclude
  <1>4. CASE Conclude(s, "corrupt") \/ Conclude(s, "internal_failure")
    BY <1>1, <1>2, <1>4, ApartConclude, OutcomeNames
  <1>5. CASE d.kind # "transition" /\ Conclude(s, "conflict")
    <2>1. sess[s].kind = "acquire" => trail[r] # <<>>
      <3>. SUFFICES ASSUME sess[s].kind = "acquire", lease[r] = NoLease PROVE FALSE
        BY <1>1, HeldHasHistory
      <3>1. CurrentBinding(s, r) = NoBinding
        BY DEF CurrentBinding
      <3>2. d = DecideAcquire(CurrentBinding(s, r), s, <<s, sess[s].call>>, Clock(s), sess[s].ttl)
        BY <1>1 DEF Decision
      <3>. QED
        BY <1>5, <3>1, <3>2 DEF DecideAcquire, Change
    <2>. QED
      BY <1>1, <1>2, <1>5, <2>1, ApartConclude, OutcomeNames
  <1>6. CASE sess' = [sess EXCEPT ![s].pc = "preflight", ![s].plan = Prepare(s, d)]
    <2>1. sess'[s] = [sess[s] EXCEPT !.pc = "preflight", !.plan = Prepare(s, d)]
      BY <1>1, <1>6
    <2>2. /\ sess' = [sess EXCEPT ![s] = sess'[s]] /\ sess'[s].pc = "preflight" /\ sess'[s].kind = sess[s].kind
          /\ sess'[s].res = r /\ sess'[s].got = sess[s].got /\ sess'[s].seen = sess[s].seen
          /\ sess'[s].out = sess[s].out
      BY <1>1, <1>6, <2>1 DEF CallState
    <2>3. /\ sess[s].kind = "acquire" /\ sess[s].seen # NoGuard => trail[r] # <<>>
          /\ sess[s].kind = "acquire" /\ sess[s].out = "conflict" => trail[r] # <<>>
          /\ ClearsOwn(s)
      BY <1>1, <1>2, OwnReason DEF ClearsOwn
    <2>4. Reasons'
      BY <1>1, <1>2, <2>2, <2>3, ApartGoes
    <2>. QED
      BY <1>1, <1>2, <2>2, <2>4, AdmissionStep DEF Apart, Administering
  <1>. QED
    BY <1>1, <1>3, <1>4, <1>5, <1>6 DEF Decide

LEMMA ApartDrive ==
    ASSUME Inv, Apart, PastStays, NEW s \in Session,
           Preflight(s) \/ MarkTransaction(s) \/ Authorize(s) \/ PublishTrail(s) \/ PublishLease(s)
    PROVE  Apart'
  <1>1. /\ sess[s].pc \in Planned /\ admission' = admission /\ guard' = guard /\ reply' = reply
        /\ claim' = claim
    BY DEF Preflight, MarkTransaction, Authorize, PublishTrail, PublishLease, At, Planned, Files
  <1>2. sess[s].pc \in Deciding /\ sess[s].pc \notin {"idle", "dead", "before", "leave"} \cup Administering
    BY <1>1 DEF Planned, Deciding, Administering
  <1>3. ClearsOwn(s)
    BY <1>1 DEF ClearsOwn
  <1>4. ASSUME NEW pc \in {"mark", "authorize", "trail", "lease", "confirm"}, Goto(s, pc) PROVE Apart'
    BY <1>1, <1>2, <1>3, <1>4, ApartGoto DEF PC
  <1>5. ASSUME NEW out \in {"recovery_required", "revision_conflict", "corrupt"}, Conclude(s, out) PROVE Apart'
    <2>1. out \in Outcome /\ out # "conflict"
      BY OutcomeNames
    <2>. QED
      BY <1>1, <1>2, <1>5, <2>1, ApartConclude
  <1>. QED
    BY <1>4, <1>5 DEF Preflight, MarkTransaction, Authorize, PublishTrail, PublishLease

LEMMA ApartConfirm == ASSUME Inv, Apart, PastStays, NEW s \in Session, Confirm(s) PROVE Apart'
  <1>. DEFINE r == sess[s].res
  <1>1. /\ TypeOK /\ Admitted /\ sess[s].pc = "confirm" /\ Me(s) = sess[s] /\ sess[s].pc \in Deciding
        /\ sess \in [Session -> CallState] /\ sess[s] \in CallState
    BY OwnReason, MeType DEF Confirm, At, Deciding
  <1>2. admission' = admission /\ guard' = guard /\ reply' = reply /\ claim' = claim
    BY DEF Confirm, Files
  <1>3. CASE Look(s, r) \in Unreadable /\ Conclude(s, Look(s, r))
    <2>1. Look(s, r) \in Outcome /\ Look(s, r) # "conflict"
      BY <1>3, LookType DEF Unreadable
    <2>. QED
      BY <1>1, <1>2, <1>3, <2>1, ApartConclude
  <1>4. CASE sess' = [sess EXCEPT ![s].pc = "admit", ![s].goal = "unclaim",
                                  ![s].out = Achieved[sess[s].kind], ![s].got = CurrentGuard(r)]
    <2>1. sess'[s] = [sess[s] EXCEPT !.pc = "admit", !.goal = "unclaim",
                                     !.out = Achieved[sess[s].kind], !.got = CurrentGuard(r)]
      BY <1>1, <1>4
    <2>2. /\ sess' = [sess EXCEPT ![s] = sess'[s]] /\ sess'[s].pc = "admit" /\ sess'[s].kind = sess[s].kind
          /\ sess'[s].res = r /\ sess'[s].got = CurrentGuard(r) /\ sess'[s].seen = sess[s].seen
          /\ sess'[s].out = Achieved[sess[s].kind]
      BY <1>1, <1>4, <2>1 DEF CallState
    <2>3. /\ sess[s].kind = "acquire" /\ sess[s].seen # NoGuard => trail[r] # <<>>
          /\ sess[s].kind = "acquire" => Achieved[sess[s].kind] # "conflict"
          /\ CurrentGuard(r) # NoGuard => CurrentGuard(r).res = r
          /\ ClearsOwn(s)
      BY <1>1, <1>2, OwnReason DEF ClearsOwn, Achieved, CurrentGuard
    <2>4. Reasons'
      BY <1>1, <1>2, <2>2, <2>3, ApartGoes
    <2>. QED
      BY <1>1, <1>2, <2>2, <2>4, AdmissionStep DEF Apart, Administering
  <1>. QED
    BY <1>1, <1>3, <1>4 DEF Confirm

LEMMA MarkClears ==
    ASSUME Inv, Apart, NEW s \in Session, sess[s].pc \notin {"idle", "dead"},
           claim' = [claim EXCEPT ![sess[s].res].marked = TRUE]
    PROVE  ClearsOwn(s)
  BY OwnReason DEF ClearsOwn, TypeOK

\* A claim given back after a refusal: the refusal was for a history.
LEMMA ApartGivesBack ==
    ASSUME Inv, Apart, PastStays, NEW s \in Session, sess[s].pc \in {"unclaim", "unmark", "reclaim"},
           NEW out \in Outcome, out = sess[s].out \/ out # "conflict", Leave(s, "idle", out),
           ClearsOwn(s), admission' = admission, guard' = guard, reply' = reply
    PROVE  Apart'
  <1>1. sess[s].pc \notin {"idle", "dead", "before", "leave"}
    OBVIOUS
  <1>2. sess[s].kind = "acquire" /\ out = "conflict" => Contended(s, sess[s].res, trail, claim', asked, unbuilt)
    BY <1>1, OwnReason DEF Contended
  <1>. QED
    BY <1>1, <1>2, ApartLeave

LEMMA ApartUnclaim == ASSUME Inv, Apart, PastStays, NEW s \in Session, Unclaim(s) PROVE Apart'
  <1>. DEFINE r == sess[s].res
  <1>1. /\ TypeOK /\ sess[s].pc = "unclaim" /\ Me(s) = sess[s] /\ "unmark" \in PC /\ r \in Resource
        /\ sess[s].out \in Outcome
    BY OwnReason, MeType DEF Unclaim, At, PC
  <1>2. admission' = admission /\ guard' = guard /\ reply' = reply
    BY DEF Unclaim
  <1>3. CASE HelpCleanup(r) /\ Leave(s, "idle", sess[s].out)
    BY <1>1, <1>2, <1>3, HelpClears, ApartGivesBack
  <1>4. CASE HelpCleanup(r) /\ sess' = sess
    BY <1>1, <1>2, <1>4, ApartHelps
  <1>5. CASE IsMine(s, r) /\ claim' = [claim EXCEPT ![r].marked = TRUE] /\ Goto(s, "unmark")
    <2>1. ClearsOwn(s)
      BY <1>1, <1>5, MarkClears
    <2>. QED
      BY <1>1, <1>2, <1>5, <2>1, ApartGoto DEF Administering
  <1>6. CASE Leave(s, "idle", "recovery_required") /\ claim' = claim
    <2>1. ClearsOwn(s)
      BY <1>6 DEF ClearsOwn
    <2>. QED
      BY <1>1, <1>2, <1>6, <2>1, ApartGivesBack, OutcomeNames
  <1>. QED
    BY <1>1, <1>3, <1>4, <1>5, <1>6 DEF Unclaim

LEMMA ApartUnmark == ASSUME Inv, Apart, PastStays, NEW s \in Session, Unmark(s) PROVE Apart'
  <1>. DEFINE r == sess[s].res
  <1>1. TypeOK /\ sess[s].pc = "unmark" /\ Me(s) = sess[s] /\ sess[s].out \in Outcome
    BY OwnReason, MeType DEF Unmark, At
  <1>2. admission' = admission /\ guard' = guard /\ reply' = reply
    BY DEF Unmark
  <1>3. CASE HelpCleanup(r) /\ Leave(s, "idle", sess[s].out)
    BY <1>1, <1>2, <1>3, HelpClears, ApartGivesBack
  <1>4. ASSUME NEW out \in {"absent", "recovery_required"}, Leave(s, "idle", out), claim' = claim PROVE Apart'
    <2>1. ClearsOwn(s)
      BY <1>4 DEF ClearsOwn
    <2>2. out \in Outcome /\ out # "conflict"
      BY OutcomeNames
    <2>. QED
      BY <1>1, <1>2, <1>4, <2>1, <2>2, ApartGivesBack
  <1>. QED
    BY <1>1, <1>3, <1>4 DEF Unmark

LEMMA ApartReclaim == ASSUME Inv, Apart, PastStays, NEW s \in Session, Reclaim(s) PROVE Apart'
  <1>. DEFINE r == sess[s].res
  <1>1. /\ TypeOK /\ Admitted /\ sess[s].pc = "reclaim" /\ Me(s) = sess[s] /\ r \in Resource
        /\ sess \in [Session -> CallState] /\ sess[s] \in CallState
    BY OwnReason, MeType DEF Reclaim, At
  <1>2. admission' = admission /\ guard' = guard /\ reply' = reply
    BY DEF Reclaim
  <1>3. ASSUME NEW out \in {"recovery_required", "absent", "corrupt"}, Leave(s, "idle", out), claim' = claim
        PROVE  Apart'
    <2>1. ClearsOwn(s)
      BY <1>3 DEF ClearsOwn
    <2>2. out \in Outcome /\ out # "conflict"
      BY OutcomeNames
    <2>. QED
      BY <1>1, <1>2, <1>3, <2>1, <2>2, ApartGivesBack
  <1>4. CASE HelpCleanup(r) /\ Leave(s, "idle", "recovered")
    BY <1>1, <1>2, <1>4, HelpClears, ApartGivesBack, OutcomeNames
  <1>5. CASE HelpCleanup(r) /\ sess' = sess
    BY <1>1, <1>2, <1>5, ApartHelps
  <1>6. CASE /\ claim[r] # NoClaim /\ claim' = [claim EXCEPT ![r].marked = TRUE]
             /\ sess' = [sess EXCEPT ![s].pc = "unmark", ![s].out = "recovered"]
    <2>1. ClearsOwn(s)
      BY <1>1, <1>6, MarkClears
    <2>2. sess'[s] = [sess[s] EXCEPT !.pc = "unmark", !.out = "recovered"]
      BY <1>1, <1>6
    <2>3. /\ sess' = [sess EXCEPT ![s] = sess'[s]] /\ sess'[s].pc = "unmark" /\ sess'[s].kind = sess[s].kind
          /\ sess'[s].res = r /\ sess'[s].got = sess[s].got /\ sess'[s].seen = sess[s].seen
          /\ sess'[s].out = "recovered" /\ sess'[s].adm = sess[s].adm
      BY <1>1, <1>6, <2>2 DEF CallState
    <2>4. sess[s].kind = "acquire" /\ sess[s].seen # NoGuard => trail[r] # <<>>
      BY <1>1, OwnReason
    <2>5. Reasons'
      BY <1>1, <1>2, <2>1, <2>3, <2>4, ApartGoes
    <2>. QED
      BY <1>1, <1>2, <2>3, <2>5, AdmissionStep DEF Apart, Administering
  <1>. QED
    BY <1>1, <1>3, <1>4, <1>5, <1>6 DEF Reclaim

LEMMA StepApart == ASSUME Inv, Apart, [Next]_vars PROVE Apart'
  <1>. PastStays
    BY NextPastStays
  <1>1. ASSUME NEW s \in Session, Step(s) PROVE Apart'
    <2>1. CASE AcquireClaim(s)
      BY <2>1, ApartBefore, ApartPreAdmission, ApartHold, ApartFamily, ApartTakeClaim DEF AcquireClaim
    <2>2. CASE WithAdmission(s)
      BY <2>2, ApartAdmit, ApartElect, ApartAgain, ApartLeaveAdmission DEF WithAdmission
    <2>3. CASE Publish(s)
      BY <2>3, ApartDecide, ApartDrive, ApartConfirm DEF Publish
    <2>4. CASE ReturnClaim(s)
      BY <2>4, ApartUnclaim, ApartUnmark, ApartReclaim DEF ReturnClaim
    <2>. QED
      BY <1>1, <2>1, <2>2, <2>3, <2>4 DEF Step
  <1>2. ASSUME NEW p \in txs, RecoverTransaction(p) PROVE Apart'
    BY <1>2, ApartStays DEF RecoverTransaction, World, Failing
  <1>3. CASE Tick
    BY <1>3, ApartStays DEF Tick, Files, Failing
  <1>4. CASE UNCHANGED vars
    BY <1>4, ApartStays DEF vars
  <1>. QED
    BY <1>1, <1>2, <1>3, <1>4, ApartCall, ApartBuildFails, ApartCrash DEF Next

LEMMA StartApart == Init => Apart
  <1>. SUFFICES ASSUME Init PROVE Apart
    OBVIOUS
  <1>1. ASSUME NEW s \in Session PROVE Reasoned(s, sess[s], guard[s], reply[s], trail, claim, asked, unbuilt)
    BY DEF Init, Reasoned, Idle, NoReply
  <1>. QED
    BY <1>1 DEF Apart, Reasons, Admitted, Init

\* An acquisition of a session that could build its records is refused as a conflict only for
\* a reason in its own family: a history, a claim, or another session that asked for something
\* there (independentAdmissionScope, activeFamilyClaim).  However long claims live, however
\* many runs there are, and whoever crashes or fails to build a record and leaves it behind,
\* work on one run never stands in the way of another.
THEOREM RunsStayApart == Spec => []RunsDoNotConflict
  <1>1. Inv /\ Apart /\ [Next]_vars => Apart'
    BY StepApart
  <1>2. Apart => RunsDoNotConflict
    BY DEF Apart, Reasons, Reasoned, Contended, RunsDoNotConflict, At
  <1>. QED
    BY <1>1, <1>2, StartApart, Invariance, PTL DEF Spec

=============================================================================
