-------------------------- MODULE AdmissionRecords --------------------------
(***************************************************************************)
(* The admission claim of composition/locks.ts as directories and files:   *)
(* withAdmission and everything it calls to elect, help, retire and sweep, *)
(* one durable call at a time, by processes that share nothing but         *)
(* .brain/locks/.admission.                                                *)
(*                                                                         *)
(*   .admission/.candidate-<expiry>-<g>/.claim-<g>/claim.json   being built*)
(*   .admission/.quarantine-<expiry>-<g>/.claim-<g>/claim.json  being swept*)
(*   .admission/claim/.claim-<g>/claim.json                     published  *)
(*                              /.cleanup-<g>/                  elected    *)
(*                              /.retired-<g>.json              tombstone  *)
(*                                                                         *)
(* LeaseLocks takes this protocol as one step; here it is what it is.  A   *)
(* read of the published record (or of its tombstone) is one step: the     *)
(* record leaves a generation before the generation goes, so a read that   *)
(* loses a race answers what a read at some moment of it would have.       *)
(* Records from before generations (claim/claim.json, recovery markers) are *)
(* only validated by this code and are left out.                           *)
(***************************************************************************)
EXTENDS Integers, Sequences, FiniteSets

CONSTANTS
    Proc,           \* processes
    Project, Run,   \* resources
    Works,          \* Works[p]: the resources the calls of p administer, in turn
    Offset,         \* Offset[p]: how far the clock of p runs ahead
    Skew,           \* LEASE_SKEW_MS
    AdmissionTTL,   \* how long a record is valid, 30 s in the code
    MaxElection,    \* MAX_ADMISSION_ELECTION_ATTEMPTS
    NoGen,
    MaxTime, MaxCrash   \* bounds on the environment

ASSUME AdmissionAssumption ==
    /\ Project \notin Run
    /\ Works \in [Proc -> Seq({Project} \cup Run)]
    /\ Skew \in Nat /\ Offset \in [Proc -> 0 .. Skew]
    /\ AdmissionTTL \in Nat \ {0} /\ MaxElection \in Nat \ {0}
    /\ MaxTime \in Nat /\ MaxCrash \in Nat

\* A record names its claimId, so every attempt has a generation of its own.
Gen == UNION {{p} \X (DOMAIN Works[p]) \X (1 .. MaxElection) : p \in Proc}

ASSUME NoGenAssumption == NoGen \notin Gen

VARIABLES
    now,      \* real time
    parent,   \* .admission/claim is a directory
    gen,      \* gen[g]: where the directory of generation g is and what is in it
    expires,  \* expires[g]: in the record, and in the name of the candidate
    proc,     \* proc[p]: the call of p in progress
    crashes   \* how many processes have crashed

vars == <<now, parent, gen, expires, proc, crashes>>

\* record "empty" is a claim.json that was opened and not yet written.
Files == [place : {"none", "candidate", "quarantine", "claim"}, dir : BOOLEAN,
          record : {"none", "empty", "full"}, tomb : BOOLEAN, marker : BOOLEAN]

Nothing == [place |-> "none", dir |-> FALSE, record |-> "none",
            tomb |-> FALSE, marker |-> FALSE]

PC == {"idle", "list", "sweep",
       "quarantine", "inspectRecord", "removeRecord", "inspectDir", "removeDir", "removeCandidate",
       "readClaim", "readTombstone", "decide", "clearParent", "elect", "electLost",
       "help", "helpClaim", "helpTombstone", "link", "linkClaim", "linkTombstone",
       "unlink", "inspectTombstone", "removeTombstone", "raw",
       "removeMarker", "removeGeneration", "removeParent",
       "makeCandidate", "makeDir", "openRecord", "writeRecord", "publish", "unpublished",
       "operate", "bypass", "finish", "retire", "mark"}

Answer == {"none", "done", "conflict", "recovery_required", "state_corrupt", "internal_failure"}

Idle(n, k, out) ==
    [pc |-> "idle", call |-> n, attempt |-> k, back |-> "enter", queue |-> {}, cand |-> NoGen,
     drop |-> "sweep", electing |-> FALSE, holder |-> NoGen, retired |-> NoGen,
     expected |-> NoGen, empty |-> FALSE, alone |-> FALSE, answer |-> out]

Init ==
    /\ now = 0 /\ parent = FALSE /\ crashes = 0
    /\ gen = [g \in Gen |-> Nothing]
    /\ expires = [g \in Gen |-> 0]
    /\ proc = [p \in Proc |-> Idle(0, 1, "none")]

-----------------------------------------------------------------------------
(* What a process reads.                                                   *)

Me(p) == proc[p]

At(p, pc) == proc[p].pc = pc

Clock(p) == now + Offset[p]

\* The generation of this attempt.
Mine(p) == <<p, Me(p).call, Me(p).attempt>>

OneOf(G) == IF G = {} THEN NoGen ELSE CHOOSE g \in G : TRUE

locateAdmission == OneOf({g \in Gen : gen[g].place = "claim"})

readAdmissionClaim == OneOf({g \in Gen : gen[g].place = "claim" /\ gen[g].record # "none"})

readAdmissionTombstone == OneOf({g \in Gen : gen[g].place = "claim" /\ gen[g].tomb})

admissionCleanupMarker(g) == gen[g].place = "claim" /\ gen[g].marker

\* Mutant: the clocks of two processes agree.
ExpiredWithoutSkew(p, g) == expires[g] <= Clock(p)

Expired(p, g) == expires[g] + Skew <= Clock(p)

independentAdmissionScope(p, g) ==
    LET scope == Works[p][Me(p).call]
        held == Works[g[1]][g[2]]
    IN  scope \in Run /\ held \in Run /\ scope # held

-----------------------------------------------------------------------------
(* How a call goes on.                                                     *)

Goto(p, pc) == proc' = [proc EXCEPT ![p].pc = pc, ![p].holder = NoGen, ![p].retired = NoGen]

\* At pc of attempt k, with nothing observed yet.
Begin(p, pc, k) ==
    proc' = [proc EXCEPT ![p] = [Idle(Me(p).call, k, "none")
                                   EXCEPT !.pc = pc, !.alone = Me(p).alone]]

Reply(p, out) == proc' = [proc EXCEPT ![p] = [Idle(Me(p).call, Me(p).attempt, out)
                                                EXCEPT !.alone = Me(p).alone]]

\* retireAdmissionRecord reports every failure as one that needs recovery.
Fail(p, out) == Reply(p, IF Me(p).back = "retire" THEN "recovery_required" ELSE out)

Retry(p) == Begin(p, "list", Me(p).attempt + 1)

\* withAdmission, on what resolveAdmissionRecovery returned, before it builds
\* a record (back = "enter") and after it lost an election (back = "again").
Resolved(p, kind, holder) ==
    CASE kind = "blocked" /\ independentAdmissionScope(p, holder) ->
            Begin(p, "bypass", Me(p).attempt)
      [] kind = "blocked" /\ ~independentAdmissionScope(p, holder) ->
            IF Me(p).back = "again" /\ Me(p).attempt < MaxElection
            THEN Retry(p) ELSE Reply(p, "conflict")
      [] kind = "lost" /\ Me(p).back = "enter"  -> Reply(p, "recovery_required")
      [] kind \in {"clear", "cleared"} /\ Me(p).back = "enter" ->
            Begin(p, "makeCandidate", Me(p).attempt)
      [] kind = "cleared" /\ Me(p).back = "again" ->
            IF Me(p).attempt < MaxElection THEN Retry(p) ELSE Reply(p, "conflict")
      [] kind \in {"clear", "lost"} /\ Me(p).back = "again" -> Reply(p, "internal_failure")

\* What helpAdmissionCleanup returned, to resolveAdmissionRecovery or to
\* retireAdmissionRecord.
Helped(p, kind) ==
    IF Me(p).back # "retire" THEN Resolved(p, kind, NoGen)
    ELSE Reply(p, IF kind = "cleared" THEN "done" ELSE "recovery_required")

-----------------------------------------------------------------------------
(* recoverExpiredAdmissionCandidates and removeAdmissionCandidate.         *)

Unpublished == {g \in Gen : gen[g].place \in {"candidate", "quarantine"}}

\* Candidates with a record that is open and not written.
HalfBuilt == {g \in Unpublished : gen[g].record = "empty"}

\* admissionCandidates validates every candidate it lists: a half-built record
\* does not parse.
ListCandidates(p) ==
    /\ At(p, "list")
    /\ IF HalfBuilt # {}
       THEN Fail(p, "state_corrupt")
       ELSE proc' = [proc EXCEPT ![p].pc = "sweep",
                        ![p].queue = {<<g, gen[g].place>> : g \in {h \in Unpublished : Expired(p, h)}}]
    /\ UNCHANGED <<now, parent, gen, expires, crashes>>

Drop(p, c, pc, why) ==
    proc' = [proc EXCEPT ![p].pc = pc, ![p].cand = c, ![p].drop = why]

Sweep(p) ==
    /\ At(p, "sweep")
    /\ \/ Me(p).queue = {} /\ Goto(p, "readClaim")
       \/ \E c \in Me(p).queue :
            Drop(p, c, IF c[2] = "candidate" THEN "quarantine" ELSE "inspectRecord", "sweep")
    /\ UNCHANGED <<now, parent, gen, expires, crashes>>

Dropped(p) ==
    IF Me(p).drop = "sweep"
    THEN proc' = [proc EXCEPT ![p].pc = "sweep", ![p].queue = @ \ {Me(p).cand}, ![p].cand = NoGen]
    ELSE IF Me(p).electing
    THEN proc' = [proc EXCEPT ![p].pc = "list", ![p].back = "again", ![p].cand = NoGen]
    ELSE proc' = [proc EXCEPT ![p].pc = "unpublished", ![p].cand = NoGen]

\* Mutant: a candidate that could not be removed is tried again.
DropFailedRetries(p) == Goto(p, "sweep")

\* A candidate that is gone needs no removal.  withAdmission swallows the
\* failure of its own.
DropFailed(p) ==
    IF Me(p).drop = "loser" \/ gen[Me(p).cand[1]].place # Me(p).cand[2]
    THEN Dropped(p) ELSE Fail(p, "internal_failure")

Cand(p) == gen[Me(p).cand[1]]

\* renameDirectoryExclusive to the quarantine: from here on its owner cannot
\* publish it.
Quarantine(p) ==
    /\ At(p, "quarantine")
    /\ IF Cand(p).place = "candidate"
       THEN /\ gen' = [gen EXCEPT ![Me(p).cand[1]].place = "quarantine"]
            /\ proc' = [proc EXCEPT ![p].pc = "inspectRecord", ![p].queue = @ \ {Me(p).cand},
                                    ![p].cand = <<@[1], "quarantine">>]
       ELSE DropFailed(p) /\ UNCHANGED gen
    /\ UNCHANGED <<now, parent, expires, crashes>>

\* The candidate is still where the removal expects it.
InPlace(p) == Cand(p).place = Me(p).cand[2]

InspectRecord(p) ==
    /\ At(p, "inspectRecord")
    /\ Goto(p, IF InPlace(p) /\ Cand(p).record # "none" THEN "removeRecord" ELSE "inspectDir")
    /\ UNCHANGED <<now, parent, gen, expires, crashes>>

RemoveRecord(p) ==
    /\ At(p, "removeRecord")
    /\ IF InPlace(p) /\ Cand(p).record # "none"
       THEN gen' = [gen EXCEPT ![Me(p).cand[1]].record = "none"] /\ Goto(p, "inspectDir")
       ELSE DropFailed(p) /\ UNCHANGED gen
    /\ UNCHANGED <<now, parent, expires, crashes>>

InspectDir(p) ==
    /\ At(p, "inspectDir")
    /\ Goto(p, IF InPlace(p) /\ Cand(p).dir THEN "removeDir" ELSE "removeCandidate")
    /\ UNCHANGED <<now, parent, gen, expires, crashes>>

RemoveDir(p) ==
    /\ At(p, "removeDir")
    /\ IF InPlace(p) /\ Cand(p).dir /\ Cand(p).record = "none"
       THEN gen' = [gen EXCEPT ![Me(p).cand[1]].dir = FALSE] /\ Goto(p, "removeCandidate")
       ELSE DropFailed(p) /\ UNCHANGED gen
    /\ UNCHANGED <<now, parent, expires, crashes>>

RemoveCandidate(p) ==
    /\ At(p, "removeCandidate")
    /\ IF InPlace(p) /\ ~Cand(p).dir
       THEN gen' = [gen EXCEPT ![Me(p).cand[1]] = Nothing] /\ Dropped(p)
       ELSE DropFailed(p) /\ UNCHANGED gen
    /\ UNCHANGED <<now, parent, expires, crashes>>

-----------------------------------------------------------------------------
(* resolveAdmissionRecovery.                                               *)

ReadClaim(p) ==
    /\ At(p, "readClaim")
    /\ proc' = [proc EXCEPT ![p].pc = "readTombstone", ![p].holder = readAdmissionClaim]
    /\ UNCHANGED <<now, parent, gen, expires, crashes>>

\* assertCompatibleAdmissionRecords.
Compatible(holder, retired) == NoGen \in {holder, retired} \/ holder = retired

Either(holder, retired) == IF holder # NoGen THEN holder ELSE retired

ReadTombstone(p) ==
    /\ At(p, "readTombstone")
    /\ LET retired == readAdmissionTombstone
       IN  IF ~Compatible(Me(p).holder, retired) THEN Fail(p, "state_corrupt")
           ELSE proc' = [proc EXCEPT ![p].pc = "decide", ![p].retired = retired,
                                     ![p].holder = NoGen,
                                     ![p].expected = Either(Me(p).holder, retired)]
    /\ UNCHANGED <<now, parent, gen, expires, crashes>>

IsEmpty(g) == gen[g].record = "none" /\ ~gen[g].tomb /\ ~gen[g].marker

\* Mutant: only what still has a record or a marker needs clearing away.
DecideEmptyNever(p) ==
    /\ At(p, "decide")
    /\ LET g == Me(p).expected
           l == locateAdmission
           leftover == l # NoGen /\ admissionCleanupMarker(l)
       IN  \/ g # NoGen /\ admissionCleanupMarker(g) /\ Goto(p, "help")
           \/ /\ g # NoGen /\ ~admissionCleanupMarker(g)
              /\ IF Me(p).retired = NoGen /\ ~Expired(p, g)
                 THEN Resolved(p, "blocked", g) ELSE Goto(p, "elect")
           \/ /\ g = NoGen /\ leftover
              /\ proc' = [proc EXCEPT ![p].pc = "removeMarker",
                                      ![p].expected = l, ![p].empty = TRUE]
           \/ g = NoGen /\ ~leftover /\ Goto(p, "clearParent")
    /\ UNCHANGED <<now, parent, gen, expires, crashes>>

\* A cleanup that was begun is helped; a generation whose record is gone is
\* cleared away (recoverEmptyAdmissionGeneration); a record that is valid
\* blocks; one that is not is retired by whoever puts up the marker.
Decide(p) ==
    /\ At(p, "decide")
    /\ LET g == Me(p).expected
           l == locateAdmission
           leftover == l # NoGen /\ (admissionCleanupMarker(l) \/ IsEmpty(l))
       IN  \/ g # NoGen /\ admissionCleanupMarker(g) /\ Goto(p, "help")
           \/ /\ g # NoGen /\ ~admissionCleanupMarker(g)
              /\ IF Me(p).retired = NoGen /\ ~Expired(p, g)
                 THEN Resolved(p, "blocked", g) ELSE Goto(p, "elect")
           \/ /\ g = NoGen /\ leftover
              /\ proc' = [proc EXCEPT ![p].pc = IF admissionCleanupMarker(l)
                                                THEN "removeMarker" ELSE "removeGeneration",
                                      ![p].expected = l, ![p].empty = TRUE]
           \/ g = NoGen /\ ~leftover /\ Goto(p, "clearParent")
    /\ UNCHANGED <<now, parent, gen, expires, crashes>>

\* Nothing is published: an empty claim directory goes.
ClearParent(p) ==
    /\ At(p, "clearParent")
    /\ \/ /\ parent /\ locateAdmission = NoGen
          /\ parent' = FALSE /\ Resolved(p, "cleared", NoGen)
       \/ ~parent /\ Resolved(p, "clear", NoGen) /\ UNCHANGED parent
       \/ parent /\ locateAdmission # NoGen /\ Resolved(p, "lost", NoGen) /\ UNCHANGED parent
    /\ UNCHANGED <<now, gen, expires, crashes>>

\* createDirectoryExclusive of the marker elects who retires the record; the
\* others help.
Elect(p) ==
    /\ At(p, "elect")
    /\ LET g == Me(p).expected
       IN  IF gen[g].place = "claim" /\ ~gen[g].marker
           THEN gen' = [gen EXCEPT ![g].marker = TRUE] /\ Goto(p, "help")
           ELSE UNCHANGED gen /\ Goto(p, "electLost")
    /\ UNCHANGED <<now, parent, expires, crashes>>

ElectLost(p) ==
    /\ At(p, "electLost")
    /\ \/ admissionCleanupMarker(Me(p).expected) /\ Goto(p, "help")
       \/ /\ ~admissionCleanupMarker(Me(p).expected)
          /\ IF readAdmissionClaim # NoGen
             THEN Resolved(p, "blocked", readAdmissionClaim) ELSE Fail(p, "internal_failure")
    /\ UNCHANGED <<now, parent, gen, expires, crashes>>

-----------------------------------------------------------------------------
(* helpAdmissionCleanup.                                                   *)

Help(p) ==
    /\ At(p, "help")
    /\ IF admissionCleanupMarker(Me(p).expected) THEN Goto(p, "helpClaim") ELSE Helped(p, "lost")
    /\ UNCHANGED <<now, parent, gen, expires, crashes>>

HelpClaim(p) ==
    /\ At(p, "helpClaim")
    /\ proc' = [proc EXCEPT ![p].pc = "helpTombstone", ![p].holder = readAdmissionClaim]
    /\ UNCHANGED <<now, parent, gen, expires, crashes>>

HelpTombstone(p) ==
    /\ At(p, "helpTombstone")
    /\ LET holder == Me(p).holder
           retired == readAdmissionTombstone
           mine == {NoGen, Me(p).expected}
       IN  IF holder \notin mine \/ retired \notin mine THEN Fail(p, "state_corrupt")
           ELSE proc' = [proc EXCEPT ![p].holder = NoGen,
                    ![p].pc = CASE holder # NoGen /\ retired = NoGen -> "link"
                                [] holder # NoGen /\ retired # NoGen -> "unlink"
                                [] holder = NoGen -> "inspectTombstone"]
    /\ UNCHANGED <<now, parent, gen, expires, crashes>>

\* linkFileExclusive of the record as its tombstone.
Link(p) ==
    /\ At(p, "link")
    /\ LET g == Me(p).expected
       IN  IF gen[g].place = "claim" /\ gen[g].record # "none" /\ ~gen[g].tomb
           THEN gen' = [gen EXCEPT ![g].tomb = TRUE] /\ Goto(p, "unlink")
           ELSE UNCHANGED gen /\ Goto(p, "linkClaim")
    /\ UNCHANGED <<now, parent, expires, crashes>>

LinkClaim(p) ==
    /\ At(p, "linkClaim")
    /\ proc' = [proc EXCEPT ![p].pc = "linkTombstone", ![p].holder = readAdmissionClaim]
    /\ UNCHANGED <<now, parent, gen, expires, crashes>>

\* Somebody else linked it: start over.
LinkTombstone(p) ==
    /\ At(p, "linkTombstone")
    /\ LET g == Me(p).expected
       IN  CASE readAdmissionTombstone = g /\ Me(p).holder \in {NoGen, g} -> Goto(p, "help")
             [] readAdmissionTombstone # g /\ Me(p).holder = NoGen -> Helped(p, "lost")
             [] Me(p).holder \notin {NoGen, g} -> Fail(p, "state_corrupt")
             [] readAdmissionTombstone # g /\ Me(p).holder = g -> Fail(p, "internal_failure")
    /\ UNCHANGED <<now, parent, gen, expires, crashes>>

Unlink(p) ==
    /\ At(p, "unlink")
    /\ LET g == Me(p).expected
       IN  IF gen[g].place = "claim" /\ gen[g].record # "none"
           THEN gen' = [gen EXCEPT ![g].record = "none"] /\ Goto(p, "inspectTombstone")
           ELSE UNCHANGED gen /\ Goto(p, "raw")
    /\ UNCHANGED <<now, parent, expires, crashes>>

Entombed(g) == gen[g].place = "claim" /\ gen[g].tomb

InspectTombstone(p) ==
    /\ At(p, "inspectTombstone")
    /\ Goto(p, IF Entombed(Me(p).expected) THEN "removeTombstone" ELSE "removeMarker")
    /\ UNCHANGED <<now, parent, gen, expires, crashes>>

RemoveTombstone(p) ==
    /\ At(p, "removeTombstone")
    /\ LET g == Me(p).expected
       IN  IF Entombed(g)
           THEN gen' = [gen EXCEPT ![g].tomb = FALSE] /\ Goto(p, "removeMarker")
           ELSE UNCHANGED gen /\ Goto(p, "raw")
    /\ UNCHANGED <<now, parent, expires, crashes>>

\* A marker that is gone means that somebody else finished.
Raw(p) ==
    /\ At(p, "raw")
    /\ IF admissionCleanupMarker(Me(p).expected)
       THEN Fail(p, "internal_failure") ELSE Helped(p, "lost")
    /\ UNCHANGED <<now, parent, gen, expires, crashes>>

\* The marker of a cleanup, or of an empty generation; it may be gone already.
RemoveMarker(p) ==
    /\ At(p, "removeMarker")
    /\ LET g == Me(p).expected
       IN  gen' = IF admissionCleanupMarker(g) THEN [gen EXCEPT ![g].marker = FALSE] ELSE gen
    /\ Goto(p, "removeGeneration")
    /\ UNCHANGED <<now, parent, expires, crashes>>

\* removePublishedAdmissionLocation: who removes the generation may remove
\* the claim directory, and nobody else.
RemoveGeneration(p) ==
    /\ At(p, "removeGeneration")
    /\ LET g == Me(p).expected
       IN  \/ /\ gen[g].place = "claim" /\ IsEmpty(g)
              /\ gen' = [gen EXCEPT ![g] = Nothing] /\ Goto(p, "removeParent")
           \/ gen[g].place # "claim" /\ Helped(p, "lost") /\ UNCHANGED gen
           \/ /\ gen[g].place = "claim" /\ ~IsEmpty(g)
              /\ Fail(p, "internal_failure") /\ UNCHANGED gen
    /\ UNCHANGED <<now, parent, expires, crashes>>

\* The sync before the removal fails when the directory is gone, and only
\* helpAdmissionCleanup catches that.
RemoveParent(p) ==
    /\ At(p, "removeParent")
    /\ \/ /\ parent /\ locateAdmission = NoGen
          /\ parent' = FALSE /\ Helped(p, "cleared")
       \/ ~parent /\ Me(p).empty /\ Fail(p, "internal_failure") /\ UNCHANGED parent
       \/ (~parent \/ locateAdmission # NoGen) /\ Helped(p, "lost") /\ UNCHANGED parent
    /\ UNCHANGED <<now, gen, expires, crashes>>

-----------------------------------------------------------------------------
(* withAdmission.                                                          *)

\* No other call is in progress, and whatever is left behind has expired.
Alone(p) ==
    /\ \A q \in Proc \ {p} : At(q, "idle")
    /\ \A g \in Gen : gen[g].place # "none" => Expired(p, g)

Call(p) ==
    /\ At(p, "idle") /\ Me(p).call < Len(Works[p])
    /\ proc' = [q \in Proc |->
                  IF q = p THEN [Idle(Me(p).call + 1, 1, "none")
                                   EXCEPT !.pc = "list", !.alone = Alone(p)]
                  ELSE [Me(q) EXCEPT !.alone = @ /\ At(q, "idle")]]
    /\ UNCHANGED <<now, parent, gen, expires, crashes>>

MakeCandidate(p) ==
    /\ At(p, "makeCandidate")
    /\ expires' = [expires EXCEPT ![Mine(p)] = Clock(p) + AdmissionTTL]
    /\ gen' = [gen EXCEPT ![Mine(p)].place = "candidate"]
    /\ Goto(p, "makeDir")
    /\ UNCHANGED <<now, parent, crashes>>

\* The candidate was swept while it was built, or the claim is taken.
Abandon(p, electing) ==
    proc' = [proc EXCEPT ![p].pc = "quarantine", ![p].cand = <<Mine(p), "candidate">>,
                         ![p].drop = "loser", ![p].electing = electing]

MakeDir(p) ==
    /\ At(p, "makeDir")
    /\ IF gen[Mine(p)].place = "candidate"
       THEN gen' = [gen EXCEPT ![Mine(p)].dir = TRUE] /\ Goto(p, "openRecord")
       ELSE Abandon(p, FALSE) /\ UNCHANGED gen
    /\ UNCHANGED <<now, parent, expires, crashes>>

OpenRecord(p) ==
    /\ At(p, "openRecord")
    /\ IF gen[Mine(p)].place = "candidate" /\ gen[Mine(p)].dir
       THEN gen' = [gen EXCEPT ![Mine(p)].record = "empty"] /\ Goto(p, "writeRecord")
       ELSE Abandon(p, FALSE) /\ UNCHANGED gen
    /\ UNCHANGED <<now, parent, expires, crashes>>

\* The write goes to the open file wherever it was moved; the sync of the
\* candidate notices that it was.
WriteRecord(p) ==
    /\ At(p, "writeRecord")
    /\ gen' = IF gen[Mine(p)].record = "empty" THEN [gen EXCEPT ![Mine(p)].record = "full"] ELSE gen
    /\ IF gen[Mine(p)].place = "candidate" /\ gen[Mine(p)].dir
       THEN Goto(p, "publish") ELSE Abandon(p, FALSE)
    /\ UNCHANGED <<now, parent, expires, crashes>>

\* Mutant: the rename takes the place of whatever is there.
PublishOver(p) ==
    /\ At(p, "publish")
    /\ IF gen[Mine(p)].place = "candidate"
       THEN /\ gen' = [gen EXCEPT ![Mine(p)].place = "claim"]
            /\ parent' = TRUE /\ Goto(p, "operate")
       ELSE Abandon(p, TRUE) /\ UNCHANGED <<gen, parent>>
    /\ UNCHANGED <<now, expires, crashes>>

\* renameDirectoryExclusive of the candidate to the claim.
Publish(p) ==
    /\ At(p, "publish")
    /\ IF gen[Mine(p)].place = "candidate" /\ ~parent
       THEN /\ gen' = [gen EXCEPT ![Mine(p)].place = "claim"]
            /\ parent' = TRUE /\ Goto(p, "operate")
       ELSE Abandon(p, TRUE) /\ UNCHANGED <<gen, parent>>
    /\ UNCHANGED <<now, expires, crashes>>

\* A failure that was not the election names whoever is in the way.
NotPublished(p) ==
    /\ At(p, "unpublished")
    /\ Reply(p, IF readAdmissionClaim # NoGen THEN "conflict" ELSE "internal_failure")
    /\ UNCHANGED <<now, parent, gen, expires, crashes>>

\* The operation ends: under the admission, or beside that of another run.
Operate(p) ==
    /\ \/ At(p, "operate") /\ Goto(p, "finish")
       \/ At(p, "bypass") /\ Reply(p, "done")
    /\ UNCHANGED <<now, parent, gen, expires, crashes>>

Finish(p) ==
    /\ At(p, "finish")
    /\ IF readAdmissionClaim = Mine(p)
       THEN proc' = [proc EXCEPT ![p].pc = "retire", ![p].back = "retire", ![p].expected = Mine(p)]
       ELSE Reply(p, "done")
    /\ UNCHANGED <<now, parent, gen, expires, crashes>>

\* retireAdmissionRecord.
Retire(p) ==
    /\ At(p, "retire")
    /\ Goto(p, IF admissionCleanupMarker(Mine(p)) THEN "help" ELSE "mark")
    /\ UNCHANGED <<now, parent, gen, expires, crashes>>

Mark(p) ==
    /\ At(p, "mark")
    /\ IF gen[Mine(p)].place = "claim" /\ ~gen[Mine(p)].marker
       THEN gen' = [gen EXCEPT ![Mine(p)].marker = TRUE] /\ Goto(p, "help")
       ELSE Reply(p, "recovery_required") /\ UNCHANGED gen
    /\ UNCHANGED <<now, parent, expires, crashes>>

-----------------------------------------------------------------------------
Tick == now < MaxTime /\ now' = now + 1 /\ UNCHANGED <<parent, gen, expires, proc, crashes>>

\* A process dies between two durable calls; what it wrote stays, and the
\* next call is that of another.
Crash(p) ==
    /\ ~At(p, "idle") /\ crashes < MaxCrash
    /\ crashes' = crashes + 1
    /\ proc' = [proc EXCEPT ![p] = Idle(Me(p).call, Me(p).attempt, "none")]
    /\ UNCHANGED <<now, parent, gen, expires>>

Step(p) ==
    \/ ListCandidates(p) \/ Sweep(p)
    \/ Quarantine(p) \/ InspectRecord(p) \/ RemoveRecord(p)
    \/ InspectDir(p) \/ RemoveDir(p) \/ RemoveCandidate(p)
    \/ ReadClaim(p) \/ ReadTombstone(p) \/ Decide(p) \/ ClearParent(p)
    \/ Elect(p) \/ ElectLost(p)
    \/ Help(p) \/ HelpClaim(p) \/ HelpTombstone(p)
    \/ Link(p) \/ LinkClaim(p) \/ LinkTombstone(p)
    \/ Unlink(p) \/ InspectTombstone(p) \/ RemoveTombstone(p) \/ Raw(p)
    \/ RemoveMarker(p) \/ RemoveGeneration(p) \/ RemoveParent(p)
    \/ MakeCandidate(p) \/ MakeDir(p) \/ OpenRecord(p) \/ WriteRecord(p)
    \/ Publish(p) \/ NotPublished(p)
    \/ Operate(p) \/ Finish(p) \/ Retire(p) \/ Mark(p)

Next ==
    \/ Tick
    \/ \E p \in Proc : Call(p) \/ Step(p) \/ Crash(p)

\* A process that runs gets on with its call; nothing makes it call again,
\* makes it crash, or makes time pass.
Fairness == \A p \in Proc : WF_vars(Step(p))

Spec == Init /\ [][Next]_vars /\ Fairness

-----------------------------------------------------------------------------
(* Properties.                                                             *)

\* The claim directory holds one generation at most, and no generation without
\* the directory; what is being removed was there to be removed.
TypeOK ==
    /\ now \in 0 .. MaxTime /\ parent \in BOOLEAN /\ crashes \in 0 .. MaxCrash
    /\ gen \in [Gen -> Files]
    /\ expires \in [Gen -> 0 .. MaxTime + Skew + AdmissionTTL]
    /\ \A p \in Proc : Me(p).pc \in PC /\ Me(p).answer \in Answer
    /\ Cardinality({g \in Gen : gen[g].place = "claim"}) <= IF parent THEN 1 ELSE 0
    /\ \A g \in Gen : gen[g].tomb \/ gen[g].marker => gen[g].place = "claim"

\* Who works under an admission that has not expired by its own clock has it,
\* whole and not elected for retirement, whatever the others sweep, help and
\* retire meanwhile, as long as no two clocks are further apart than the skew.
HolderIsPublished ==
    \A p \in Proc : At(p, "operate") /\ Clock(p) < expires[Mine(p)] =>
        LET g == Mine(p)
        IN  gen[g].place = "claim" /\ gen[g].record = "full" /\ ~gen[g].tomb /\ ~gen[g].marker

\* A call made alone, once whatever others left has expired, is admitted and
\* leaves nothing behind, wherever they died in publishing, sweeping, helping
\* or retiring, and wherever in building but one: only a candidate whose
\* claim.json was created and never written (admissionCandidates parses every
\* one it lists) keeps the call out, as corrupt and with nothing written.
AloneSucceeds ==
    \A p \in Proc : At(p, "idle") /\ Me(p).alone =>
        /\ Me(p).answer \in IF HalfBuilt = {} THEN {"done"} ELSE {"done", "state_corrupt"}
        /\ gen[Mine(p)] = Nothing

\* Every call returns, however often sweeping and helping start over.
EveryAttemptEnds ==
    \A p \in Proc : []<>At(p, "idle")

\* Does not hold: "Reading that as corruption would turn every concurrent
\* cleanup into a fault nobody can repair" (composition/locks.ts:1301).  A
\* helper that passed the marker check reads the record of a successor, and a
\* candidate caught between its open and its write does not parse.
NoFalseCorruption == \A p \in Proc : Me(p).answer # "state_corrupt"

=============================================================================
