---------------------------- MODULE LeasePolicy ----------------------------
(***************************************************************************)
(* The pure part of work leases (packages/runtime/src/domain/locks): when  *)
(* a lease is writable, who may acquire, renew, release or take it over,   *)
(* and which histories of a lease are legal.                               *)
(*                                                                         *)
(* A lease document keeps its owner, its lease id, its fencing token and   *)
(* its expiry.  The trail of a resource is the sequence of its transitions,*)
(* each with the lease it produced: what the hash-linked events.jsonl      *)
(* protects.                                                               *)
(***************************************************************************)
EXTENDS Integers, Sequences, SequencesExt

CONSTANTS
    Session,     \* owners: one host session each
    LeaseId,     \* identifiers a session draws for a new lease
    NoLease, NoBinding,
    Skew,        \* LEASE_SKEW_MS
    MaxToken     \* Number.MAX_SAFE_INTEGER

ASSUME LeaseAssumption ==
    /\ Skew \in Nat
    /\ MaxToken \in Nat \ {0}
    /\ NoLease # NoBinding

Action == {"acquire", "renew", "release", "takeover"}

Lease == [owner : Session, id : LeaseId, token : 1 .. MaxToken, expires : Nat]

Transition == [action : Action, lease : Lease]

\* Mutant: the grace beyond expiry is forgotten.
ClassifyLeaseTimeWithoutSkew(t, expires) ==
    IF t < expires THEN "writable" ELSE "takeover_eligible"

\* A lease is writable, in skew or takeover_eligible.
ClassifyLeaseTime(t, expires) ==
    IF t < expires THEN "writable"
    ELSE IF t < expires + Skew THEN "skew" ELSE "takeover_eligible"

-----------------------------------------------------------------------------
(* The decisions.  A binding is the last action of a trail with the lease  *)
(* it produced; an epoch is what one acquisition or takeover opens.        *)

Change(action, lease) == [kind |-> "transition", action |-> action, lease |-> lease]

Refusal(kind) == [kind |-> kind]

Opened(s, id, token, t, ttl) ==
    [owner |-> s, id |-> id, token |-> token, expires |-> t + ttl]

\* nextFencingToken; a token that cannot grow is an invalid transition.
Reopen(action, s, id, current, t, ttl) ==
    IF current.lease.token >= MaxToken THEN Refusal("invalid_transition")
    ELSE Change(action, Opened(s, id, current.lease.token + 1, t, ttl))

ActiveEpoch(action) == action \in {"acquire", "renew", "takeover"}

DecideAcquire(current, s, id, t, ttl) ==
    IF current = NoBinding THEN Change("acquire", Opened(s, id, 1, t, ttl))
    ELSE IF current.action = "release" THEN Reopen("acquire", s, id, current, t, ttl)
    ELSE IF ClassifyLeaseTime(t, current.lease.expires) = "takeover_eligible"
    THEN Refusal("takeover_required") ELSE Refusal("conflict")

\* exactIdentity: a renewal of the same lease is the same lease.
ExactIdentity(lease, observed) ==
    lease.owner = observed.owner /\ lease.id = observed.id /\ lease.token = observed.token

\* What renewal, release and takeover require alike: the lease the caller
\* observed, not released, and in the right stretch of time.
Entitled(current, observed, t, stretch) ==
    /\ ExactIdentity(current.lease, observed)
    /\ ActiveEpoch(current.action)
    /\ ClassifyLeaseTime(t, current.lease.expires) = stretch

DecideRenew(current, observed, t, ttl) ==
    IF Entitled(current, observed, t, "writable")
    THEN Change("renew", [current.lease EXCEPT !.expires = t + ttl])
    ELSE Refusal("conflict")

DecideRelease(current, observed, t) ==
    IF Entitled(current, observed, t, "writable")
    THEN Change("release", [current.lease EXCEPT !.expires = t])
    ELSE Refusal("conflict")

DecideTakeover(current, observed, s, id, t, ttl) ==
    IF Entitled(current, observed, t, "takeover_eligible")
    THEN Reopen("takeover", s, id, current, t, ttl)
    ELSE Refusal("conflict")

-----------------------------------------------------------------------------
(* The lifecycle.                                                          *)

\* validateActionOrder; "none" is the empty history.
LegalOrder(action, previous) ==
    IF previous = "none" THEN action = "acquire"
    ELSE IF action = "acquire" THEN previous = "release"
    ELSE ActiveEpoch(previous)

\* validateTokenTransition.
LegalToken(action, prior, next) ==
    /\ next = IF action \in {"acquire", "takeover"} THEN prior + 1 ELSE prior
    /\ next <= MaxToken

LastAction(trail) == IF trail = <<>> THEN "none" ELSE Last(trail).action

LastToken(trail) == IF trail = <<>> THEN 0 ELSE Last(trail).lease.token

Extends(trail, action, token) ==
    LegalOrder(action, LastAction(trail)) /\ LegalToken(action, LastToken(trail), token)

\* validateLifecycleEvents.
ValidLifecycle(trail) ==
    \A i \in 1 .. Len(trail) :
        Extends(SubSeq(trail, 1, i - 1), trail[i].action, trail[i].lease.token)

\* verifyLeaseBinding: the lease on disk is the one whose digest the last event
\* of a legal trail recorded.
Binds(trail, lease) ==
    trail # <<>> /\ ValidLifecycle(trail) /\ Last(trail).lease = lease

\* inspectLeaseHeld: what a trail and a lease read at time t amount to.
Observation(trail, lease, t) ==
    IF lease = NoLease
    THEN IF trail = <<>> THEN "empty" ELSE "recovery_required"
    ELSE IF ~Binds(trail, lease) THEN "corrupt"
    ELSE IF Last(trail).action = "release" THEN "released"
    ELSE IF ClassifyLeaseTime(t, lease.expires) = "writable" THEN "active"
    ELSE ClassifyLeaseTime(t, lease.expires)

=============================================================================
