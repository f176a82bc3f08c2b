---------------------- MODULE AdmissionRecordsProofs ----------------------
(***************************************************************************)
(* Why an admission excludes, for any number of processes and calls, any   *)
(* sweeping, helping and retiring of theirs and any crashes: as long as no *)
(* two clocks are further apart than the skew, nobody ever gets hold of a  *)
(* generation that is being built or worked under and has not expired.     *)
(***************************************************************************)
EXTENDS AdmissionRecords, FiniteSetTheorems, TLAPS

\* A process builds its generation, or works under it.
Building == {"makeDir", "openRecord", "writeRecord", "publish", "operate"}

\* It removes a candidate.
Dropping == {"quarantine", "inspectRecord", "removeRecord", "inspectDir", "removeDir", "removeCandidate"}

\* It retires the generation it expects.
Expecting == {"elect", "electLost", "help", "helpClaim", "helpTombstone", "link", "linkClaim",
              "linkTombstone", "unlink", "inspectTombstone", "removeTombstone", "raw",
              "removeMarker", "removeGeneration", "retire", "mark"}

\* It looks for a way in.
Looking == {"list", "sweep", "readClaim", "readTombstone", "decide", "clearParent", "makeCandidate",
            "removeParent"}

Places == {"candidate", "quarantine"}

Register ==
    [pc : PC, call : Nat, attempt : 1 .. MaxElection, back : {"enter", "again", "retire"},
     queue : SUBSET (Gen \X Places), cand : (Gen \X Places) \cup {NoGen}, drop : {"sweep", "loser"},
     electing : BOOLEAN, holder : Gen \cup {NoGen}, retired : Gen \cup {NoGen},
     expected : Gen \cup {NoGen}, empty : BOOLEAN, alone : BOOLEAN, answer : Answer]

\* Where the registers of p point.
Sane(p, d) ==
    /\ d \in Register
    /\ d.pc # "idle" => d.call \in 1 .. Len(Works[p])
    /\ d.pc \in Dropping =>
          d.cand \in Gen \X Places /\ (d.drop = "loser" => d.cand[1] = <<p, d.call, d.attempt>>)
    /\ d.pc \in Expecting => d.expected \in Gen
    /\ d.pc \in {"retire", "mark"} => d.expected = <<p, d.call, d.attempt>>
    /\ d.pc = "decide" /\ d.retired # NoGen => d.expected = d.retired
    /\ d.pc \in (Looking \cup Dropping \cup {"elect", "electLost"}) \ {"removeParent"} => d.back # "retire"
    /\ d.pc \in {"makeCandidate", "makeDir", "openRecord", "writeRecord", "publish"} => d.back = "enter"

\* The process has not got to the candidate of its attempt yet.
Before(d) ==
    /\ d.back = "enter"
    /\ d.pc \in Looking \cup Expecting \/ (d.pc \in Dropping /\ d.drop = "sweep")

UnbornIn(d, g) ==
    \/ g[2] > d.call
    \/ g[2] = d.call /\ (g[3] > d.attempt \/ (g[3] = d.attempt /\ Before(d)))

ActiveIn(d, g) == g[2] = d.call /\ g[3] = d.attempt /\ d.pc \in Building

\* The generation of an attempt to come.
Unborn(g) == UnbornIn(proc[g[1]], g)

\* A generation its owner relies on, and nobody can hold to have expired.
Guarded(g) == ActiveIn(proc[g[1]], g) /\ now < expires[g]

\* A generation anybody may sweep or retire.
Released(g) == ~Unborn(g) /\ ~Guarded(g)

\* What the owner at pc has built.
Built(pc) ==
    [place |-> IF pc = "operate" THEN "claim" ELSE "candidate", dir |-> pc # "makeDir",
     record |-> CASE pc \in {"makeDir", "openRecord"} -> "none"
                  [] pc = "writeRecord" -> "empty"
                  [] OTHER -> "full",
     tomb |-> FALSE, marker |-> FALSE]

Ordered(f) == f.tomb \/ f.marker => f.place = "claim"

Shape ==
    /\ now \in 0 .. MaxTime /\ parent \in BOOLEAN /\ crashes \in 0 .. MaxCrash
    /\ gen \in [Gen -> Files]
    /\ expires \in [Gen -> 0 .. MaxTime + Skew + AdmissionTTL]
    /\ proc \in [Proc -> Register]
    /\ \A p \in Proc : Sane(p, proc[p])
    /\ \A g \in Gen : Ordered(gen[g])

\* The claim directory holds one generation at most.
OneClaim ==
    /\ \A g \in Gen : gen[g].place = "claim" => parent
    /\ \A g, h \in Gen : gen[g].place = "claim" /\ gen[h].place = "claim" => g = h

UnbornIsBlank == \A g \in Gen : Unborn(g) => gen[g] = Nothing

GuardedIsBuilt == \A g \in Gen : Guarded(g) => gen[g] = Built(proc[g[1]].pc)

\* The generations a process got hold of.
Refers(d, g) ==
    \/ \E c \in d.queue : c[1] = g
    \/ d.pc \in Dropping /\ d.cand[1] = g
    \/ d.pc \in Expecting /\ d.expected = g
    \/ d.retired = g

Knows(d, g) == d.holder = g \/ d.expected = g

OnlyReleased ==
    \A p \in Proc, g \in Gen :
        /\ Refers(proc[p], g) => Released(g)
        /\ Knows(proc[p], g) => ~Unborn(g)

Admitted == Shape /\ OneClaim /\ UnbornIsBlank /\ GuardedIsBuilt /\ OnlyReleased

-----------------------------------------------------------------------------
(* Generations and registers.                                              *)

LEMMA Generations ==
    /\ \A p \in Proc : \A n \in 1 .. Len(Works[p]), k \in 1 .. MaxElection : <<p, n, k>> \in Gen
    /\ \A g \in Gen : /\ g[1] \in Proc /\ g[2] \in Nat /\ g[3] \in 1 .. MaxElection
                      /\ g[2] \in 1 .. Len(Works[g[1]])
                      /\ g = <<g[1], g[2], g[3]>>
    /\ NoGen \notin Gen
<1>1. \A p \in Proc : Works[p] \in Seq({Project} \cup Run)
  BY AdmissionAssumption
<1>2. \A p \in Proc : DOMAIN Works[p] = 1 .. Len(Works[p]) /\ Len(Works[p]) \in Nat
  BY <1>1
<1>3. ASSUME NEW g \in Gen
      PROVE  \E p \in Proc : g \in {p} \X (DOMAIN Works[p]) \X (1 .. MaxElection)
  BY <1>3 DEF Gen
<1>4. ASSUME NEW p \in Proc, NEW n \in 1 .. Len(Works[p]), NEW k \in 1 .. MaxElection
      PROVE  <<p, n, k>> \in Gen
  <2>1. <<p, n, k>> \in {p} \X (DOMAIN Works[p]) \X (1 .. MaxElection)
    BY <1>2
  <2>2. QED
    BY <2>1 DEF Gen
<1>5. ASSUME NEW g \in Gen
      PROVE  /\ g[1] \in Proc /\ g[2] \in Nat /\ g[3] \in 1 .. MaxElection
             /\ g[2] \in 1 .. Len(Works[g[1]])
             /\ g = <<g[1], g[2], g[3]>>
  <2>1. PICK p \in Proc : g \in {p} \X (DOMAIN Works[p]) \X (1 .. MaxElection)
    BY <1>3
  <2>2. PICK n \in DOMAIN Works[p], k \in 1 .. MaxElection : g = <<p, n, k>>
    BY <2>1
  <2>3. QED
    BY <2>2, <1>2
<1>6. QED
  BY <1>4, <1>5, NoGenAssumption

\* A process goes on with its attempt, starts the next, or starts a call.
Onward(c, d) ==
    \/ d.call = c.call /\ d.attempt = c.attempt /\ (Before(d) => Before(c))
    \/ d.call = c.call /\ d.attempt = c.attempt + 1
    \/ d.call = c.call + 1 /\ d.attempt = 1

LEMMA OnwardBears ==
    ASSUME NEW c \in Register, NEW d \in Register, Onward(c, d),
           NEW g \in Gen, UnbornIn(d, g)
    PROVE  UnbornIn(c, g)
<1>0. /\ MaxElection \in Nat
      /\ \A k \in 1 .. MaxElection : k \in Nat /\ k >= 1
  BY AdmissionAssumption
<1>1. /\ g[2] \in Nat /\ g[3] \in Nat /\ g[3] >= 1
      /\ c.call \in Nat /\ d.call \in Nat /\ c.attempt \in Nat /\ d.attempt \in Nat
  <2>1. g[2] \in Nat /\ g[3] \in 1 .. MaxElection
    BY Generations
  <2>2. /\ c.call \in Nat /\ d.call \in Nat
        /\ c.attempt \in 1 .. MaxElection /\ d.attempt \in 1 .. MaxElection
    BY DEF Register
  <2>3. QED
    BY <2>1, <2>2, <1>0
<1>2. QED
  BY <1>1 DEF Onward, UnbornIn

\* What a step may do to the directories, unless it builds.
Allowed ==
    /\ now' = now /\ expires' = expires /\ crashes' \in 0 .. MaxCrash
    /\ gen' \in [Gen -> Files]
    /\ \A g \in Gen : gen'[g] # gen[g] =>
          /\ Released(g) /\ Ordered(gen'[g])
          /\ gen'[g].place = "claim" => gen[g].place = "claim"
    /\ parent' = parent \/ (parent' = FALSE /\ \A g \in Gen : gen[g].place # "claim")

LEMMA Still ==
    ASSUME Shape, UNCHANGED <<now, parent, gen, expires, crashes>>
    PROVE  Allowed
BY DEF Allowed, Shape

LEMMA Touched ==
    ASSUME Shape, NEW g \in Gen, Released(g), NEW f \in Files, Ordered(f),
           f.place = "claim" => gen[g].place = "claim",
           gen' = [gen EXCEPT ![g] = f], UNCHANGED <<now, parent, expires, crashes>>
    PROVE  Allowed
BY DEF Allowed, Shape

LEMMA Cleared ==
    ASSUME Shape, locateAdmission = NoGen, parent' = FALSE,
           UNCHANGED <<now, gen, expires, crashes>>
    PROVE  Allowed
<1>1. \A g \in Gen : gen[g].place # "claim"
  BY Generations DEF locateAdmission, OneOf
<1>2. QED
  BY <1>1 DEF Allowed, Shape

-----------------------------------------------------------------------------
(* A process that does not build.                                          *)

LEMMA Moves ==
    ASSUME Admitted, Allowed, NEW p \in Proc, NEW d,
           proc' = [proc EXCEPT ![p] = d], Sane(p, d), d.pc \notin Building, Onward(proc[p], d),
           \A g \in Gen : Refers(d, g) =>
               Released(g) \/ (g = <<p, d.call, d.attempt>> /\ ~Before(d)),
           \A g \in Gen : Knows(d, g) =>
               ~Unborn(g) \/ (g = <<p, d.call, d.attempt>> /\ ~Before(d))
    PROVE  Admitted'
<1>0. /\ proc \in [Proc -> Register] /\ d \in Register /\ proc' \in [Proc -> Register]
      /\ proc'[p] = d /\ (\A q \in Proc : q # p => proc'[q] = proc[q])
      /\ now' = now /\ expires' = expires
  BY DEF Admitted, Shape, Sane, Allowed
<1>1. ASSUME NEW g \in Gen, Unborn(g)' PROVE Unborn(g)
  <2>1. g[1] \in Proc
    BY Generations
  <2>2. CASE g[1] = p
    BY <2>2, <1>0, <1>1, OnwardBears DEF Unborn
  <2>3. CASE g[1] # p
    BY <2>3, <2>1, <1>0, <1>1 DEF Unborn
  <2>4. QED
    BY <2>2, <2>3
<1>2. ASSUME NEW g \in Gen, Guarded(g)' PROVE Guarded(g) /\ g[1] # p /\ proc'[g[1]] = proc[g[1]]
  <2>1. g[1] \in Proc
    BY Generations
  <2>2. g[1] # p
    BY <1>0, <1>2 DEF Guarded, ActiveIn
  <2>3. QED
    BY <2>1, <2>2, <1>0, <1>2 DEF Guarded
<1>3. ASSUME NEW g \in Gen, Released(g) PROVE Released(g)'
  BY <1>1, <1>2, <1>3 DEF Released
<1>4. ASSUME NEW g \in Gen, g = <<p, d.call, d.attempt>>, ~Before(d) PROVE Released(g)'
  <2>1. ~Guarded(g)'
    BY <1>2, <1>4
  <2>2. ~UnbornIn(d, g)
    <3>1. d.call \in Nat /\ d.attempt \in Nat
      BY <1>0, AdmissionAssumption DEF Register
    <3>2. QED
      BY <3>1, <1>4 DEF UnbornIn
  <2>3. QED
    BY <2>1, <2>2, <1>0, <1>4 DEF Released, Unborn
<1>5. Shape'
  <2>1. \A q \in Proc : Sane(q, proc'[q])
    BY <1>0 DEF Admitted, Shape
  <2>2. \A g \in Gen : Ordered(gen'[g])
    BY DEF Admitted, Shape, Allowed
  <2>3. QED
    BY <2>1, <2>2, <1>0 DEF Admitted, Shape, Allowed
<1>6. OneClaim'
  BY DEF Admitted, OneClaim, Allowed
<1>7. UnbornIsBlank'
  <2>1. ASSUME NEW g \in Gen, Unborn(g)' PROVE gen'[g] = Nothing
    BY <1>1, <2>1 DEF Admitted, UnbornIsBlank, Allowed, Released
  <2>2. QED
    BY <2>1 DEF UnbornIsBlank
<1>8. GuardedIsBuilt'
  <2>1. ASSUME NEW g \in Gen, Guarded(g)' PROVE gen'[g] = Built(proc'[g[1]].pc)
    BY <1>2, <2>1 DEF Admitted, GuardedIsBuilt, Allowed, Released
  <2>2. QED
    BY <2>1 DEF GuardedIsBuilt
<1>9. OnlyReleased'
  <2>1. ASSUME NEW q \in Proc, NEW g \in Gen, Refers(proc'[q], g) PROVE Released(g)'
    <3>1. CASE q = p
      BY <3>1, <2>1, <1>0, <1>3, <1>4
    <3>2. CASE q # p
      BY <3>2, <2>1, <1>0, <1>3 DEF Admitted, OnlyReleased
    <3>3. QED
      BY <3>1, <3>2
  <2>2. ASSUME NEW q \in Proc, NEW g \in Gen, Knows(proc'[q], g) PROVE ~Unborn(g)'
    <3>1. CASE q = p
      BY <3>1, <2>2, <1>0, <1>1, <1>4 DEF Released
    <3>2. CASE q # p
      BY <3>2, <2>2, <1>0, <1>1 DEF Admitted, OnlyReleased
    <3>3. QED
      BY <3>1, <3>2
  <2>3. QED
    BY <2>1, <2>2 DEF OnlyReleased
<1>10. QED
  BY <1>5, <1>6, <1>7, <1>8, <1>9 DEF Admitted

-----------------------------------------------------------------------------
(* How a call goes on.                                                     *)

LEMMA NoneIsHeld == \A g \in Gen : g # NoGen
BY NoGenAssumption

\* A register with nothing observed.
Blank(n, k, out, pc, alone) == [Idle(n, k, out) EXCEPT !.pc = pc, !.alone = alone]

IsBlank(d, n, k, pc) ==
    /\ d \in Register
    /\ d.pc = pc /\ d.call = n /\ d.attempt = k /\ d.back = "enter" /\ d.queue = {}
    /\ d.holder = NoGen /\ d.retired = NoGen /\ d.expected = NoGen

LEMMA BlankFields ==
    ASSUME NEW n \in Nat, NEW k \in 1 .. MaxElection, NEW out \in Answer,
           NEW pc \in {"idle", "list", "makeCandidate", "bypass"}, NEW alone \in BOOLEAN
    PROVE  IsBlank(Blank(n, k, out, pc, alone), n, k, pc)
<1> DEFINE r == Idle(n, k, out)
           d == [r EXCEPT !.pc = pc, !.alone = alone]
<1>1. pc \in PC /\ "idle" \in PC /\ {} \in SUBSET (Gen \X Places)
  BY DEF PC
<1>2. r \in Register
  BY <1>1 DEF Register, Idle
<1>3. /\ r.call = n /\ r.attempt = k /\ r.back = "enter" /\ r.queue = {}
      /\ r.holder = NoGen /\ r.retired = NoGen /\ r.expected = NoGen
  BY DEF Idle
<1> HIDE DEF r
<1>4. d \in Register
  BY <1>1, <1>2 DEF Register
<1>5. /\ d.pc = pc /\ d.call = n /\ d.attempt = k /\ d.back = "enter" /\ d.queue = {}
      /\ d.holder = NoGen /\ d.retired = NoGen /\ d.expected = NoGen
  BY <1>2, <1>3 DEF Register
<1>6. d = Blank(n, k, out, pc, alone)
  BY DEF Blank, r
<1> HIDE DEF d
<1>7. QED
  BY <1>4, <1>5, <1>6 DEF IsBlank

LEMMA IdleIsBlank ==
    ASSUME NEW n \in Nat, NEW k \in 1 .. MaxElection, NEW out \in Answer, NEW alone \in BOOLEAN
    PROVE  [Idle(n, k, out) EXCEPT !.alone = alone] = Blank(n, k, out, "idle", alone)
<1> DEFINE r == Idle(n, k, out)
<1>1. r.pc = "idle" /\ DOMAIN r = DOMAIN Idle(0, 1, "none") /\ "pc" \in DOMAIN r
  BY DEF Idle
<1>2. r = [r EXCEPT !.pc = "idle"]
  BY <1>1 DEF Idle
<1> HIDE DEF r
<1>3. [r EXCEPT !.alone = alone] = [r EXCEPT !.pc = "idle", !.alone = alone]
  BY <1>2
<1>4. QED
  BY <1>3 DEF Blank, r

LEMMA BlankSane ==
    ASSUME NEW p \in Proc, NEW n \in Nat, NEW k \in 1 .. MaxElection, NEW out \in Answer,
           NEW pc \in {"idle", "list", "makeCandidate", "bypass"}, NEW alone \in BOOLEAN,
           pc # "idle" => n \in 1 .. Len(Works[p])
    PROVE  LET d == Blank(n, k, out, pc, alone)
           IN  Sane(p, d) /\ \A g \in Gen : ~Refers(d, g) /\ ~Knows(d, g)
<1> DEFINE d == Blank(n, k, out, pc, alone)
<1>0. IsBlank(d, n, k, pc)
  BY BlankFields
<1> HIDE DEF d
<1>1. /\ d \in Register
      /\ d.pc = pc /\ d.call = n /\ d.attempt = k /\ d.back = "enter" /\ d.queue = {}
      /\ d.holder = NoGen /\ d.retired = NoGen /\ d.expected = NoGen
  BY <1>0 DEF IsBlank
<1>2. pc \notin Dropping /\ pc \notin Expecting
  BY DEF Dropping, Expecting
<1>3. Sane(p, d)
  BY <1>1, <1>2, NoneIsHeld DEF Sane, Looking, Dropping
<1>4. \A g \in Gen : ~Refers(d, g) /\ ~Knows(d, g)
  BY <1>1, <1>2, NoneIsHeld DEF Refers, Knows
<1>5. QED
  BY <1>3, <1>4 DEF d

LEMMA Returns ==
    ASSUME Admitted, Allowed, NEW p \in Proc, NEW k \in 1 .. MaxElection, NEW out \in Answer,
           NEW pc \in {"idle", "list", "makeCandidate", "bypass"},
           pc # "idle" => proc[p].pc # "idle",
           \/ k = proc[p].attempt /\ (pc # "list") /\ (pc = "makeCandidate" => Before(proc[p]))
           \/ k = proc[p].attempt + 1,
           proc' = [proc EXCEPT ![p] = Blank(proc[p].call, k, out, pc, proc[p].alone)]
    PROVE  Admitted'
<1> DEFINE d == Blank(proc[p].call, k, out, pc, proc[p].alone)
<1>1. /\ proc[p].call \in Nat /\ proc[p].alone \in BOOLEAN
      /\ pc # "idle" => proc[p].call \in 1 .. Len(Works[p])
  BY DEF Admitted, Shape, Sane, Register
<1>2. /\ Sane(p, d) /\ d.pc = pc /\ d.call = proc[p].call /\ d.attempt = k /\ d.back = "enter"
      /\ \A g \in Gen : ~Refers(d, g) /\ ~Knows(d, g)
  <2>1. IsBlank(d, proc[p].call, k, pc)
    BY <1>1, BlankFields
  <2>2. Sane(p, d) /\ \A g \in Gen : ~Refers(d, g) /\ ~Knows(d, g)
    BY <1>1, BlankSane
  <2>3. QED
    BY <2>1, <2>2 DEF IsBlank
<1>3. proc' = [proc EXCEPT ![p] = d]
  OBVIOUS
<1> HIDE DEF d
<1>4. d.pc \notin Building
  BY <1>2 DEF Building
<1>5. Onward(proc[p], d)
  BY <1>2 DEF Onward, Before, Looking, Expecting, Dropping
<1>6. QED
  BY <1>2, <1>3, <1>4, <1>5, Moves

LEMMA Begins ==
    ASSUME Admitted, Allowed, NEW p \in Proc, NEW k \in 1 .. MaxElection,
           NEW pc \in {"list", "makeCandidate", "bypass"}, proc[p].pc # "idle",
           \/ k = proc[p].attempt /\ (pc # "list") /\ (pc = "makeCandidate" => Before(proc[p]))
           \/ k = proc[p].attempt + 1,
           Begin(p, pc, k)
    PROVE  Admitted'
<1>1. "none" \in Answer
  BY DEF Answer
<1>2. proc' = [proc EXCEPT ![p] = Blank(proc[p].call, k, "none", pc, proc[p].alone)]
  BY DEF Begin, Me, Blank
<1>3. QED
  BY <1>1, <1>2, Returns

LEMMA Replies ==
    ASSUME Admitted, Allowed, NEW p \in Proc, NEW out \in Answer, Reply(p, out)
    PROVE  Admitted'
<1>1. /\ proc[p].attempt \in 1 .. MaxElection /\ proc[p].call \in Nat
      /\ proc[p].alone \in BOOLEAN
  BY DEF Admitted, Shape, Register
<1>2. proc' = [proc EXCEPT ![p] = Blank(proc[p].call, proc[p].attempt, out, "idle", proc[p].alone)]
  BY <1>1, IdleIsBlank DEF Reply, Me
<1>3. QED
  BY <1>1, <1>2, Returns

LEMMA Fails ==
    ASSUME Admitted, Allowed, NEW p \in Proc, NEW out \in Answer, Fail(p, out)
    PROVE  Admitted'
<1>1. "recovery_required" \in Answer
  BY DEF Answer
<1>2. CASE proc[p].back = "retire"
  BY <1>1, <1>2, Replies DEF Fail, Me
<1>3. CASE proc[p].back # "retire"
  BY <1>3, Replies DEF Fail, Me
<1>4. QED
  BY <1>2, <1>3

\* A process that looks for a way in, or helps.
Seeking == Looking \cup Expecting

LEMMA SeekingIsBefore ==
    ASSUME NEW c, c.pc \in Seeking, c.back = "enter"
    PROVE  Before(c)
BY DEF Before, Seeking

LEMMA Resolves ==
    ASSUME Admitted, Allowed, NEW p \in Proc, proc[p].pc \in Seeking, proc[p].back # "retire",
           NEW kind \in {"blocked", "lost", "clear", "cleared"}, NEW holder,
           Resolved(p, kind, holder)
    PROVE  Admitted'
<1>1. /\ proc[p].attempt \in 1 .. MaxElection /\ proc[p].back \in {"enter", "again"}
      /\ proc[p].pc # "idle" /\ proc[p].attempt \in Nat
      /\ {"conflict", "recovery_required", "internal_failure"} \subseteq Answer
  BY AdmissionAssumption DEF Admitted, Shape, Register, Seeking, Looking, Expecting, Answer
<1>2. ASSUME Retry(p), proc[p].attempt < MaxElection PROVE Admitted'
  <2>1. proc[p].attempt + 1 \in 1 .. MaxElection
    BY <1>1, <1>2, AdmissionAssumption
  <2>2. Begin(p, "list", proc[p].attempt + 1)
    BY <1>2 DEF Retry, Me
  <2>3. QED
    BY <1>1, <2>1, <2>2, Begins
<1>3. ASSUME Begin(p, "bypass", proc[p].attempt) PROVE Admitted'
  BY <1>1, <1>3, Begins
<1>4. ASSUME Begin(p, "makeCandidate", proc[p].attempt), proc[p].back = "enter" PROVE Admitted'
  BY <1>1, <1>4, Begins, SeekingIsBefore
<1>5. ASSUME NEW out \in {"conflict", "recovery_required", "internal_failure"}, Reply(p, out)
      PROVE  Admitted'
  BY <1>1, <1>5, Replies
<1>6. CASE kind = "blocked"
  <2>1. \/ Begin(p, "bypass", proc[p].attempt)
        \/ Retry(p) /\ proc[p].attempt < MaxElection
        \/ Reply(p, "conflict")
    BY <1>6 DEF Resolved, Me
  <2>2. QED
    BY <2>1, <1>2, <1>3, <1>5
<1>7. CASE kind = "lost"
  <2>1. Reply(p, "recovery_required") \/ Reply(p, "internal_failure")
    BY <1>7, <1>1 DEF Resolved, Me
  <2>2. QED
    BY <2>1, <1>5
<1>8. CASE kind \in {"clear", "cleared"}
  <2>1. \/ Begin(p, "makeCandidate", proc[p].attempt) /\ proc[p].back = "enter"
        \/ Retry(p) /\ proc[p].attempt < MaxElection
        \/ Reply(p, "conflict") \/ Reply(p, "internal_failure")
    BY <1>8, <1>1 DEF Resolved, Me
  <2>2. QED
    BY <2>1, <1>2, <1>4, <1>5
<1>9. QED
  BY <1>6, <1>7, <1>8

LEMMA Helps ==
    ASSUME Admitted, Allowed, NEW p \in Proc, proc[p].pc \in Seeking,
           NEW kind \in {"cleared", "lost"}, Helped(p, kind)
    PROVE  Admitted'
<1>1. {"done", "recovery_required"} \subseteq Answer
  BY DEF Answer
<1>2. CASE proc[p].back # "retire"
  BY <1>2, Resolves DEF Helped, Me
<1>3. CASE proc[p].back = "retire"
  BY <1>1, <1>3, Replies DEF Helped, Me
<1>4. QED
  BY <1>2, <1>3

LEMMA Goes ==
    ASSUME Admitted, Allowed, NEW p \in Proc, NEW pc \in PC, Goto(p, pc),
           proc[p].pc # "idle", pc \notin Building \cup {"makeCandidate", "decide"},
           pc \in Dropping => proc[p].pc \in Dropping,
           pc \in Expecting => proc[p].expected \in Gen /\ Released(proc[p].expected),
           pc \in {"retire", "mark"} => proc[p].pc \in {"retire", "mark"},
           pc \in (Looking \cup Dropping \cup {"elect", "electLost"}) \ {"removeParent"} =>
               proc[p].back # "retire",
           pc \in Seeking => proc[p].pc \in Seeking
    PROVE  Admitted'
<1> DEFINE c == proc[p]
           d == [c EXCEPT !.pc = pc, !.holder = NoGen, !.retired = NoGen]
<1>1. c \in Register /\ Sane(p, c)
  BY DEF Admitted, Shape
<1>2. d \in Register
  BY <1>1 DEF Register
<1>3. /\ d.pc = pc /\ d.holder = NoGen /\ d.retired = NoGen
      /\ d.call = c.call /\ d.attempt = c.attempt /\ d.back = c.back /\ d.queue = c.queue
      /\ d.cand = c.cand /\ d.drop = c.drop /\ d.expected = c.expected
  BY <1>1 DEF Register
<1>4. proc' = [proc EXCEPT ![p] = d]
  <2>1. proc \in [Proc -> Register]
    BY DEF Admitted, Shape
  <2>2. QED
    BY <2>1 DEF Goto, Register
<1> HIDE DEF d
<1>5. Sane(p, d)
  BY <1>1, <1>2, <1>3 DEF Sane, Building
<1>6. d.pc \notin Building
  BY <1>3
<1>7. Onward(c, d)
  BY <1>3 DEF Onward, Before, Seeking
<1>8. \A g \in Gen : Refers(d, g) => Released(g)
  BY <1>3, NoneIsHeld DEF Refers, Admitted, OnlyReleased
<1>9. \A g \in Gen : Knows(d, g) => ~Unborn(g)
  BY <1>3, NoneIsHeld DEF Knows, Admitted, OnlyReleased
<1>10. QED
  BY <1>4, <1>5, <1>6, <1>7, <1>8, <1>9, Moves

-----------------------------------------------------------------------------
(* What a process reads.                                                   *)

LEMMA Shapes ==
    ASSUME Admitted
    PROVE  /\ Shape
           /\ \A p \in Proc : proc[p] \in Register /\ Sane(p, proc[p])
           /\ \A g \in Gen : gen[g] \in Files /\ Ordered(gen[g])
           /\ \A p \in Proc, g \in Gen : Refers(proc[p], g) => Released(g)
           /\ \A p \in Proc, g \in Gen : Knows(proc[p], g) => ~Unborn(g)
BY DEF Admitted, Shape, OnlyReleased

LEMMA ExistsIsBorn ==
    ASSUME Admitted, NEW g \in Gen, gen[g].place # "none"
    PROVE  ~Unborn(g)
BY DEF Admitted, UnbornIsBlank, Nothing

\* A generation that is past its end by the clock of anybody, with the skew
\* added, is past it by real time.
LEMMA ExpiredIsReleased ==
    ASSUME Admitted, NEW p \in Proc, NEW g \in Gen, ~Unborn(g), Expired(p, g)
    PROVE  Released(g)
<1>1. /\ Offset[p] \in 0 .. Skew /\ Skew \in Nat /\ MaxTime \in Nat /\ AdmissionTTL \in Nat
  BY AdmissionAssumption
<1>2. now \in 0 .. MaxTime /\ expires[g] \in 0 .. MaxTime + Skew + AdmissionTTL
  BY DEF Admitted, Shape
<1>3. expires[g] <= now
  BY <1>1, <1>2 DEF Expired, Clock
<1>4. QED
  BY <1>1, <1>2, <1>3 DEF Released, Guarded

\* Nor is one that is being retired, or whose record is gone, relied upon.
LEMMA RetiredIsReleased ==
    ASSUME Admitted, NEW g \in Gen, gen[g].place = "claim",
           gen[g].tomb \/ gen[g].marker \/ gen[g].record = "none"
    PROVE  Released(g)
<1>1. ~Unborn(g)
  BY ExistsIsBorn
<1>2. ASSUME Guarded(g) PROVE FALSE
  <2>1. gen[g] = Built(proc[g[1]].pc)
    BY <1>2 DEF Admitted, GuardedIsBuilt
  <2>2. proc[g[1]].pc = "operate"
    BY <2>1 DEF Built
  <2>3. QED
    BY <2>1, <2>2 DEF Built
<1>3. QED
  BY <1>1, <1>2 DEF Released

LEMMA ReadsClaim ==
    ASSUME Admitted
    PROVE  /\ readAdmissionClaim \in Gen \cup {NoGen}
           /\ \A g \in Gen : readAdmissionClaim = g => ~Unborn(g)
<1> DEFINE G == {g \in Gen : gen[g].place = "claim" /\ gen[g].record # "none"}
<1>1. OneOf(G) \in G \cup {NoGen}
  BY DEF OneOf
<1>2. readAdmissionClaim = OneOf(G)
  BY DEF readAdmissionClaim
<1>3. QED
  BY <1>1, <1>2, NoneIsHeld, ExistsIsBorn

LEMMA ReadsTombstone ==
    ASSUME Admitted
    PROVE  /\ readAdmissionTombstone \in Gen \cup {NoGen}
           /\ \A g \in Gen : readAdmissionTombstone = g => Released(g)
<1> DEFINE G == {g \in Gen : gen[g].place = "claim" /\ gen[g].tomb}
<1>1. OneOf(G) \in G \cup {NoGen}
  BY DEF OneOf
<1>2. readAdmissionTombstone = OneOf(G)
  BY DEF readAdmissionTombstone
<1>3. QED
  BY <1>1, <1>2, NoneIsHeld, RetiredIsReleased

LEMMA Locates ==
    ASSUME Admitted
    PROVE  /\ locateAdmission \in Gen \cup {NoGen}
           /\ \A g \in Gen : locateAdmission = g => gen[g].place = "claim"
<1> DEFINE G == {g \in Gen : gen[g].place = "claim"}
<1>1. OneOf(G) \in G \cup {NoGen}
  BY DEF OneOf
<1>2. locateAdmission = OneOf(G)
  BY DEF locateAdmission
<1>3. QED
  BY <1>1, <1>2, NoneIsHeld

-----------------------------------------------------------------------------
(* Sweeping.                                                               *)

LEMMA ListNext ==
    ASSUME Admitted, NEW p \in Proc, ListCandidates(p)
    PROVE  Admitted'
<1>1. Allowed
  BY Shapes, Still DEF ListCandidates
<1>2. CASE Fail(p, "state_corrupt")
  BY <1>1, <1>2, Fails DEF Answer
<1>3. CASE proc' = [proc EXCEPT ![p].pc = "sweep",
                       ![p].queue = {<<g, gen[g].place>> : g \in {h \in Unpublished : Expired(p, h)}}]
  <2> DEFINE Q == {<<g, gen[g].place>> : g \in {h \in Unpublished : Expired(p, h)}}
             c == proc[p]
             d == [c EXCEPT !.pc = "sweep", !.queue = Q]
  <2>1. \A g \in Unpublished : g \in Gen /\ gen[g].place \in Places /\ gen[g].place # "none"
    BY DEF Unpublished, Places
  <2>2. Q \in SUBSET (Gen \X Places)
    BY <2>1
  <2>3. \A x \in Q : x[1] \in Gen => Released(x[1])
    BY <2>1, ExistsIsBorn, ExpiredIsReleased
  <2>4. proc' = [proc EXCEPT ![p] = d]
    BY <1>3, Shapes DEF Shape, Register
  <2> HIDE DEF Q
  <2>5. c \in Register /\ Sane(p, c) /\ c.pc = "list"
    BY Shapes DEF ListCandidates, At
  <2>6. d \in Register
    <3>1. "sweep" \in PC
      BY DEF PC
    <3>2. QED
      BY <2>2, <2>5, <3>1 DEF Register
  <2>7. /\ d.pc = "sweep" /\ d.queue = Q /\ d.holder = c.holder /\ d.retired = c.retired
        /\ d.call = c.call /\ d.attempt = c.attempt /\ d.back = c.back /\ d.expected = c.expected
    BY <2>5 DEF Register
  <2> HIDE DEF d
  <2>8. Sane(p, d)
    BY <2>5, <2>6, <2>7 DEF Sane, Looking, Dropping, Expecting
  <2>9. d.pc \notin Building /\ Onward(c, d)
    BY <2>5, <2>7 DEF Building, Onward, Before, Looking
  <2>10. \A g \in Gen : Refers(d, g) => Released(g)
    BY <2>3, <2>7, Shapes DEF Refers, Dropping, Expecting
  <2>11. \A g \in Gen : Knows(d, g) => ~Unborn(g)
    BY <2>7, Shapes DEF Knows
  <2>12. QED
    BY <1>1, <2>4, <2>8, <2>9, <2>10, <2>11, Moves
<1>4. QED
  BY <1>2, <1>3 DEF ListCandidates

LEMMA SweepNext ==
    ASSUME Admitted, NEW p \in Proc, Sweep(p)
    PROVE  Admitted'
<1>1. Allowed
  BY Shapes, Still DEF Sweep
<1>2. /\ proc[p] \in Register /\ Sane(p, proc[p]) /\ proc[p].pc = "sweep"
      /\ proc[p].back # "retire"
  BY Shapes DEF Sweep, At, Sane, Looking
<1>3. CASE Goto(p, "readClaim")
  BY <1>1, <1>2, <1>3, Goes DEF PC, Building, Dropping, Expecting, Seeking, Looking
<1>4. ASSUME NEW x \in proc[p].queue, NEW pc \in {"quarantine", "inspectRecord"},
             Drop(p, x, pc, "sweep")
      PROVE  Admitted'
  <2> DEFINE c == proc[p]
             d == [c EXCEPT !.pc = pc, !.cand = x, !.drop = "sweep"]
  <2>1. proc' = [proc EXCEPT ![p] = d]
    BY <1>4, Shapes DEF Drop, Shape, Register
  <2>2. x \in Gen \X Places
    BY <1>2 DEF Register
  <2>3. d \in Register
    <3>1. pc \in PC
      BY DEF PC
    <3>2. QED
      BY <1>2, <2>2, <3>1 DEF Register
  <2>4. /\ d.pc = pc /\ d.queue = c.queue /\ d.holder = c.holder /\ d.retired = c.retired
        /\ d.call = c.call /\ d.attempt = c.attempt /\ d.back = c.back /\ d.expected = c.expected
        /\ d.cand = x /\ d.drop = "sweep"
    BY <1>2 DEF Register
  <2> HIDE DEF d
  <2>5. Sane(p, d)
    BY <1>2, <2>2, <2>3, <2>4 DEF Sane, Looking, Dropping, Expecting
  <2>6. d.pc \notin Building /\ Onward(c, d)
    BY <1>2, <2>4 DEF Building, Onward, Before, Looking
  <2>7. \A g \in Gen : Refers(d, g) => Refers(c, g)
    BY <1>4, <2>4 DEF Refers, Dropping, Expecting
  <2>8. \A g \in Gen : Knows(d, g) => Knows(c, g)
    BY <2>4 DEF Knows
  <2>9. QED
    BY <1>1, <2>1, <2>5, <2>6, <2>7, <2>8, Moves, Shapes
<1>5. QED
  BY <1>3, <1>4 DEF Sweep, Me

LEMMA DroppedMoves ==
    ASSUME Admitted, Allowed, NEW p \in Proc, proc[p].pc \in Dropping, Dropped(p)
    PROVE  Admitted'
<1> DEFINE c == proc[p]
<1>1. /\ c \in Register /\ Sane(p, c) /\ c.pc # "idle" /\ c.back # "retire" /\ c.pc \notin Expecting
      /\ proc \in [Proc -> Register]
  BY Shapes DEF Shape, Sane, Dropping, Expecting
<1>2. ASSUME NEW d \in Register, proc' = [proc EXCEPT ![p] = d],
             d.pc \in {"sweep", "list", "unpublished"}, d.back # "retire",
             d.queue \subseteq c.queue, d.holder = c.holder, d.retired = c.retired,
             d.call = c.call, d.attempt = c.attempt, d.expected = c.expected,
             Before(d) => Before(c)
      PROVE  Admitted'
  <2>1. Sane(p, d)
    BY <1>1, <1>2 DEF Sane, Looking, Dropping, Expecting
  <2>2. d.pc \notin Building /\ Onward(c, d)
    BY <1>2 DEF Building, Onward
  <2>3. \A g \in Gen : Refers(d, g) => Refers(c, g)
    BY <1>2 DEF Refers, Dropping, Expecting
  <2>4. \A g \in Gen : Knows(d, g) => Knows(c, g)
    BY <1>2 DEF Knows
  <2>5. QED
    BY <1>2, <2>1, <2>2, <2>3, <2>4, Moves, Shapes
<1>3. CASE c.drop = "sweep"
  <2> DEFINE Q == c.queue \ {c.cand}
             d == [c EXCEPT !.pc = "sweep", !.queue = Q, !.cand = NoGen]
  <2>1. Q \in SUBSET (Gen \X Places) /\ "sweep" \in PC /\ Q \subseteq c.queue
    BY <1>1 DEF Register, PC
  <2>2. proc' = [proc EXCEPT ![p] = d]
    BY <1>1, <1>3 DEF Dropped, Me, Register
  <2> HIDE DEF Q
  <2>3. d \in Register
    BY <1>1, <2>1 DEF Register
  <2>4. /\ d.pc = "sweep" /\ d.queue = Q /\ d.holder = c.holder /\ d.retired = c.retired
        /\ d.call = c.call /\ d.attempt = c.attempt /\ d.back = c.back /\ d.expected = c.expected
    BY <1>1 DEF Register
  <2> HIDE DEF d
  <2>5. Before(d) => Before(c)
    BY <1>3, <2>4 DEF Before
  <2>6. QED
    BY <1>1, <1>2, <2>1, <2>2, <2>3, <2>4, <2>5
<1>4. CASE c.drop # "sweep" /\ c.electing
  <2> DEFINE d == [c EXCEPT !.pc = "list", !.back = "again", !.cand = NoGen]
  <2>1. "list" \in PC
    BY DEF PC
  <2>2. proc' = [proc EXCEPT ![p] = d]
    BY <1>1, <1>4 DEF Dropped, Me, Register
  <2>3. d \in Register
    BY <1>1, <2>1 DEF Register
  <2>4. /\ d.pc = "list" /\ d.queue = c.queue /\ d.holder = c.holder /\ d.retired = c.retired
        /\ d.call = c.call /\ d.attempt = c.attempt /\ d.back = "again" /\ d.expected = c.expected
    BY <1>1 DEF Register
  <2> HIDE DEF d
  <2>5. Before(d) => Before(c)
    BY <2>4 DEF Before
  <2>6. QED
    BY <1>1, <1>2, <2>1, <2>2, <2>3, <2>4, <2>5
<1>5. CASE c.drop # "sweep" /\ ~c.electing
  <2> DEFINE d == [c EXCEPT !.pc = "unpublished", !.cand = NoGen]
  <2>1. "unpublished" \in PC
    BY DEF PC
  <2>2. proc' = [proc EXCEPT ![p] = d]
    BY <1>1, <1>5 DEF Dropped, Me, Register
  <2>3. d \in Register
    BY <1>1, <2>1 DEF Register
  <2>4. /\ d.pc = "unpublished" /\ d.queue = c.queue /\ d.holder = c.holder
        /\ d.retired = c.retired /\ d.call = c.call /\ d.attempt = c.attempt
        /\ d.back = c.back /\ d.expected = c.expected
    BY <1>1 DEF Register
  <2> HIDE DEF d
  <2>5. Before(d) => Before(c)
    BY <2>4 DEF Before, Looking, Expecting, Dropping
  <2>6. QED
    BY <1>1, <1>2, <2>1, <2>2, <2>3, <2>4, <2>5
<1>6. QED
  BY <1>3, <1>4, <1>5

LEMMA DropFails ==
    ASSUME Admitted, Allowed, NEW p \in Proc, proc[p].pc \in Dropping, DropFailed(p)
    PROVE  Admitted'
<1>1. "internal_failure" \in Answer
  BY DEF Answer
<1>2. QED
  BY <1>1, DroppedMoves, Fails DEF DropFailed

\* Removing a candidate: p holds a released one, and goes on with it.
LEMMA DropsReleased ==
    ASSUME Admitted, NEW p \in Proc, proc[p].pc \in Dropping
    PROVE  /\ proc[p].cand \in Gen \X Places /\ proc[p].cand[1] \in Gen
           /\ Released(proc[p].cand[1])
<1>1. proc[p].cand \in Gen \X Places
  BY Shapes DEF Sane
<1>2. Refers(proc[p], proc[p].cand[1])
  BY DEF Refers
<1>3. QED
  BY <1>1, <1>2, Shapes

LEMMA GoesOnDropping ==
    ASSUME Admitted, Allowed, NEW p \in Proc, proc[p].pc \in Dropping,
           NEW pc \in Dropping, Goto(p, pc)
    PROVE  Admitted'
<1>1. proc[p].pc # "idle" /\ proc[p].back # "retire"
  BY Shapes DEF Sane, Dropping
<1>2. /\ pc \in PC /\ pc \notin Building \cup {"makeCandidate", "decide"}
      /\ pc \notin Expecting /\ pc \notin {"retire", "mark"} /\ pc \notin Seeking
  BY DEF Dropping, PC, Building, Expecting, Seeking, Looking
<1>3. QED
  BY <1>1, <1>2, Goes

LEMMA InspectsNext ==
    ASSUME Admitted, NEW p \in Proc, InspectRecord(p) \/ InspectDir(p)
    PROVE  Admitted'
<1>1. Allowed
  BY Shapes, Still DEF InspectRecord, InspectDir
<1>2. proc[p].pc \in Dropping
  BY DEF InspectRecord, InspectDir, At, Dropping
<1>3. \E pc \in {"removeRecord", "inspectDir", "removeDir", "removeCandidate"} : Goto(p, pc)
  BY DEF InspectRecord, InspectDir
<1>4. {"removeRecord", "inspectDir", "removeDir", "removeCandidate"} \subseteq Dropping
  BY DEF Dropping
<1>5. QED
  BY <1>1, <1>2, <1>3, <1>4, GoesOnDropping

LEMMA QuarantineNext ==
    ASSUME Admitted, NEW p \in Proc, Quarantine(p)
    PROVE  Admitted'
<1> DEFINE c == proc[p]
           g == c.cand[1]
<1>1. /\ c.pc = "quarantine" /\ c.pc \in Dropping /\ c \in Register /\ Sane(p, c)
      /\ proc \in [Proc -> Register] /\ Shape
      /\ UNCHANGED <<now, parent, expires, crashes>>
  BY Shapes DEF Quarantine, At, Dropping, Shape
<1>2. c.cand \in Gen \X Places /\ g \in Gen /\ Released(g)
  BY <1>1, DropsReleased
<1>3. CASE gen[g].place = "candidate"
  <2> DEFINE f == [gen[g] EXCEPT !.place = "quarantine"]
             Q == c.queue \ {c.cand}
             x == <<g, "quarantine">>
             d == [c EXCEPT !.pc = "inspectRecord", !.queue = Q, !.cand = x]
  <2>1. f \in Files /\ Ordered(f) /\ f.place # "claim"
    BY <1>2, <1>3, Shapes DEF Files, Ordered
  <2>2. gen' = [gen EXCEPT ![g] = f]
    BY <1>2, <1>3 DEF Quarantine, Cand, Me
  <2> HIDE DEF f
  <2>3. Allowed
    BY <1>1, <1>2, <2>1, <2>2, Touched
  <2>4. /\ Q \in SUBSET (Gen \X Places) /\ "inspectRecord" \in PC /\ Q \subseteq c.queue
        /\ x \in Gen \X Places /\ x[1] = g
    BY <1>1, <1>2 DEF Register, PC, Places
  <2>5. proc' = [proc EXCEPT ![p] = d]
    BY <1>1, <1>3 DEF Quarantine, Cand, Me, Register
  <2> HIDE DEF Q, x
  <2>6. d \in Register
    BY <1>1, <2>4 DEF Register
  <2>7. /\ d.pc = "inspectRecord" /\ d.queue = Q /\ d.holder = c.holder /\ d.retired = c.retired
        /\ d.call = c.call /\ d.attempt = c.attempt /\ d.back = c.back /\ d.expected = c.expected
        /\ d.cand = x /\ d.drop = c.drop
    BY <1>1 DEF Register
  <2> HIDE DEF d
  <2>8. Sane(p, d)
    BY <1>1, <2>4, <2>6, <2>7 DEF Sane, Looking, Dropping, Expecting
  <2>9. d.pc \notin Building /\ Onward(c, d)
    BY <1>1, <2>7 DEF Building, Onward, Before, Looking, Expecting, Dropping
  <2>10. \A h \in Gen : Refers(d, h) => Refers(c, h)
    BY <1>1, <2>4, <2>7 DEF Refers, Dropping, Expecting
  <2>11. \A h \in Gen : Knows(d, h) => Knows(c, h)
    BY <2>7 DEF Knows
  <2>12. QED
    BY <2>3, <2>5, <2>8, <2>9, <2>10, <2>11, Moves, Shapes
<1>4. CASE gen[g].place # "candidate"
  <2>1. DropFailed(p) /\ gen' = gen
    BY <1>4 DEF Quarantine, Cand, Me
  <2>2. QED
    BY <1>1, <2>1, Still, DropFails
<1>5. QED
  BY <1>3, <1>4

LEMMA RemoveRecordNext ==
    ASSUME Admitted, NEW p \in Proc, RemoveRecord(p)
    PROVE  Admitted'
<1> DEFINE g == proc[p].cand[1]
           f == [gen[g] EXCEPT !.record = "none"]
<1>1. /\ proc[p].pc \in Dropping /\ Shape
      /\ UNCHANGED <<now, parent, expires, crashes>>
  BY Shapes DEF RemoveRecord, At, Dropping
<1>2. g \in Gen /\ Released(g)
  BY <1>1, DropsReleased
<1>3. CASE gen' = [gen EXCEPT ![g] = f] /\ Goto(p, "inspectDir")
  <2>1. f \in Files /\ Ordered(f) /\ f.place = gen[g].place
    BY <1>2, Shapes DEF Files, Ordered
  <2> HIDE DEF f
  <2>2. Allowed
    BY <1>1, <1>2, <1>3, <2>1, Touched
  <2>3. QED
    BY <1>1, <1>3, <2>2, GoesOnDropping DEF Dropping
<1>4. CASE DropFailed(p) /\ gen' = gen
  BY <1>1, <1>4, Still, DropFails
<1>5. QED
  BY <1>2, <1>3, <1>4 DEF RemoveRecord, Me

LEMMA RemoveDirNext ==
    ASSUME Admitted, NEW p \in Proc, RemoveDir(p)
    PROVE  Admitted'
<1> DEFINE g == proc[p].cand[1]
           f == [gen[g] EXCEPT !.dir = FALSE]
<1>1. /\ proc[p].pc \in Dropping /\ Shape
      /\ UNCHANGED <<now, parent, expires, crashes>>
  BY Shapes DEF RemoveDir, At, Dropping
<1>2. g \in Gen /\ Released(g)
  BY <1>1, DropsReleased
<1>3. CASE gen' = [gen EXCEPT ![g] = f] /\ Goto(p, "removeCandidate")
  <2>1. f \in Files /\ Ordered(f) /\ f.place = gen[g].place
    BY <1>2, Shapes DEF Files, Ordered
  <2> HIDE DEF f
  <2>2. Allowed
    BY <1>1, <1>2, <1>3, <2>1, Touched
  <2>3. QED
    BY <1>1, <1>3, <2>2, GoesOnDropping DEF Dropping
<1>4. CASE DropFailed(p) /\ gen' = gen
  BY <1>1, <1>4, Still, DropFails
<1>5. QED
  BY <1>2, <1>3, <1>4 DEF RemoveDir, Me

LEMMA NothingIsOrdered == Nothing \in Files /\ Ordered(Nothing) /\ Nothing.place # "claim"
BY DEF Nothing, Files, Ordered

LEMMA RemoveCandidateNext ==
    ASSUME Admitted, NEW p \in Proc, RemoveCandidate(p)
    PROVE  Admitted'
<1> DEFINE g == proc[p].cand[1]
<1>1. /\ proc[p].pc \in Dropping /\ Shape
      /\ UNCHANGED <<now, parent, expires, crashes>>
  BY Shapes DEF RemoveCandidate, At, Dropping
<1>2. g \in Gen /\ Released(g)
  BY <1>1, DropsReleased
<1>3. CASE gen' = [gen EXCEPT ![g] = Nothing] /\ Dropped(p)
  <2>1. Allowed
    BY <1>1, <1>2, <1>3, NothingIsOrdered, Touched
  <2>2. QED
    BY <1>1, <1>3, <2>1, DroppedMoves
<1>4. CASE DropFailed(p) /\ gen' = gen
  BY <1>1, <1>4, Still, DropFails
<1>5. QED
  BY <1>3, <1>4 DEF RemoveCandidate, Me

-----------------------------------------------------------------------------
(* resolveAdmissionRecovery.                                               *)

\* The register of p once it read the record.
LEMMA Observes ==
    ASSUME Admitted, Allowed, NEW p \in Proc, NEW pc \in PC,
           \/ proc[p].pc = "readClaim" /\ pc = "readTombstone"
           \/ proc[p].pc = "helpClaim" /\ pc = "helpTombstone"
           \/ proc[p].pc = "linkClaim" /\ pc = "linkTombstone",
           proc' = [proc EXCEPT ![p].pc = pc, ![p].holder = readAdmissionClaim]
    PROVE  Admitted'
<1> DEFINE c == proc[p]
           h == readAdmissionClaim
           d == [c EXCEPT !.pc = pc, !.holder = h]
<1>1. c \in Register /\ Sane(p, c) /\ proc \in [Proc -> Register]
  BY Shapes DEF Shape
<1>2. h \in Gen \cup {NoGen} /\ \A g \in Gen : h = g => ~Unborn(g)
  BY ReadsClaim
<1>3. proc' = [proc EXCEPT ![p] = d]
  BY <1>1 DEF Register
<1> HIDE DEF h
<1>4. d \in Register
  BY <1>1, <1>2 DEF Register
<1>5. /\ d.pc = pc /\ d.queue = c.queue /\ d.holder = h /\ d.retired = c.retired
      /\ d.call = c.call /\ d.attempt = c.attempt /\ d.back = c.back /\ d.expected = c.expected
  BY <1>1 DEF Register
<1> HIDE DEF d
<1>6. Sane(p, d)
  BY <1>1, <1>4, <1>5 DEF Sane, Looking, Dropping, Expecting
<1>7. d.pc \notin Building /\ Onward(c, d)
  BY <1>5 DEF Building, Onward, Before, Looking, Expecting
<1>8. \A g \in Gen : Refers(d, g) => Refers(c, g)
  BY <1>5 DEF Refers, Dropping, Expecting
<1>9. \A g \in Gen : Knows(d, g) => ~Unborn(g)
  BY <1>2, <1>5, Shapes DEF Knows
<1>10. QED
  BY <1>3, <1>6, <1>7, <1>8, <1>9, Moves, Shapes

LEMMA ReadsNext ==
    ASSUME Admitted, NEW p \in Proc, ReadClaim(p) \/ HelpClaim(p) \/ LinkClaim(p)
    PROVE  Admitted'
<1>1. Allowed
  BY Shapes, Still DEF ReadClaim, HelpClaim, LinkClaim
<1>2. {"readTombstone", "helpTombstone", "linkTombstone"} \subseteq PC
  BY DEF PC
<1>3. CASE ReadClaim(p)
  BY <1>1, <1>2, <1>3, Observes DEF ReadClaim, At
<1>4. CASE HelpClaim(p)
  BY <1>1, <1>2, <1>4, Observes DEF HelpClaim, At
<1>5. CASE LinkClaim(p)
  BY <1>1, <1>2, <1>5, Observes DEF LinkClaim, At
<1>6. QED
  BY <1>3, <1>4, <1>5

LEMMA ReadTombstoneNext ==
    ASSUME Admitted, NEW p \in Proc, ReadTombstone(p)
    PROVE  Admitted'
<1> DEFINE c == proc[p]
           t == readAdmissionTombstone
           e == Either(c.holder, t)
           d == [c EXCEPT !.pc = "decide", !.retired = t, !.holder = NoGen, !.expected = e]
<1>1. /\ c.pc = "readTombstone" /\ c \in Register /\ Sane(p, c) /\ proc \in [Proc -> Register]
      /\ c.holder \in Gen \cup {NoGen}
  BY Shapes DEF Shape, ReadTombstone, At, Register
<1>2. Allowed
  BY Shapes, Still DEF ReadTombstone
<1>3. t \in Gen \cup {NoGen} /\ \A g \in Gen : t = g => Released(g)
  BY ReadsTombstone
<1>4. CASE ~Compatible(c.holder, t)
  <2>1. Fail(p, "state_corrupt") /\ "state_corrupt" \in Answer
    BY <1>4 DEF ReadTombstone, Me, Answer
  <2>2. QED
    BY <1>2, <2>1, Fails
<1>5. CASE Compatible(c.holder, t)
  <2>1. e \in Gen \cup {NoGen} /\ (t # NoGen => e = t) /\ (e = c.holder \/ e = t)
    BY <1>1, <1>3, <1>5 DEF Either, Compatible
  <2>2. proc' = [proc EXCEPT ![p] = d]
    BY <1>1, <1>5 DEF ReadTombstone, Me, Register
  <2> HIDE DEF t, e
  <2>3. "decide" \in PC /\ c.back # "retire"
    BY <1>1 DEF PC, Sane, Looking
  <2>4. d \in Register
    BY <1>1, <1>3, <2>1, <2>3 DEF Register
  <2>5. /\ d.pc = "decide" /\ d.queue = c.queue /\ d.holder = NoGen /\ d.retired = t
        /\ d.call = c.call /\ d.attempt = c.attempt /\ d.back = c.back /\ d.expected = e
    BY <1>1 DEF Register
  <2> HIDE DEF d
  <2>6. Sane(p, d)
    BY <1>1, <2>1, <2>3, <2>4, <2>5 DEF Sane, Looking, Dropping, Expecting
  <2>7. d.pc \notin Building /\ Onward(c, d)
    BY <1>1, <2>5 DEF Building, Onward, Before, Looking, Expecting
  <2>8. \A g \in Gen : Refers(d, g) => Released(g)
    BY <1>3, <2>5, Shapes DEF Refers, Dropping, Expecting
  <2>9. \A g \in Gen : Knows(d, g) => ~Unborn(g)
    BY <1>3, <2>1, <2>5, Shapes, NoneIsHeld DEF Knows, Released
  <2>10. QED
    BY <1>2, <2>2, <2>6, <2>7, <2>8, <2>9, Moves
<1>6. QED
  BY <1>4, <1>5

LEMMA LeftoverMoves ==
    ASSUME Admitted, Allowed, NEW p \in Proc, proc[p].pc = "decide",
           NEW l \in Gen, Released(l), NEW pc \in {"removeMarker", "removeGeneration"},
           proc' = [proc EXCEPT ![p].pc = pc, ![p].expected = l, ![p].empty = TRUE]
    PROVE  Admitted'
<1> DEFINE c == proc[p]
           d == [c EXCEPT !.pc = pc, !.expected = l, !.empty = TRUE]
<1>1. c \in Register /\ Sane(p, c) /\ proc \in [Proc -> Register]
  BY Shapes DEF Shape
<1>2. pc \in PC
  BY DEF PC
<1>3. proc' = [proc EXCEPT ![p] = d]
  BY <1>1 DEF Register
<1>4. d \in Register
  BY <1>1, <1>2 DEF Register
<1>5. /\ d.pc = pc /\ d.queue = c.queue /\ d.holder = c.holder /\ d.retired = c.retired
      /\ d.call = c.call /\ d.attempt = c.attempt /\ d.back = c.back /\ d.expected = l
  BY <1>1 DEF Register
<1> HIDE DEF d
<1>6. Sane(p, d)
  BY <1>1, <1>4, <1>5 DEF Sane, Looking, Dropping, Expecting
<1>7. d.pc \notin Building /\ Onward(c, d)
  BY <1>5 DEF Building, Onward, Before, Looking, Expecting
<1>8. \A g \in Gen : Refers(d, g) => Released(g)
  <2>1. \A g \in Gen : Refers(d, g) => Refers(c, g) \/ g = l
    BY <1>5 DEF Refers, Dropping, Expecting
  <2>2. QED
    BY <2>1, Shapes
<1>9. \A g \in Gen : Knows(d, g) => ~Unborn(g)
  <2>1. \A g \in Gen : Knows(d, g) => Knows(c, g) \/ g = l
    BY <1>5 DEF Knows
  <2>2. QED
    BY <2>1, Shapes DEF Released
<1>10. QED
  BY <1>3, <1>6, <1>7, <1>8, <1>9, Moves

LEMMA DecideNext ==
    ASSUME Admitted, NEW p \in Proc, Decide(p)
    PROVE  Admitted'
<1> DEFINE c == proc[p]
           g == c.expected
           l == locateAdmission
<1>1. /\ c.pc = "decide" /\ c \in Register /\ Sane(p, c) /\ c.back # "retire" /\ c.pc \in Seeking
      /\ g \in Gen \cup {NoGen}
  BY Shapes DEF Decide, At, Sane, Looking, Seeking, Register
<1>2. Allowed
  BY Shapes, Still DEF Decide
<1>3. {"help", "elect", "clearParent"} \subseteq PC
  BY DEF PC
<1>4. ASSUME g # NoGen PROVE g \in Gen /\ ~Unborn(g)
  BY <1>1, <1>4, Shapes DEF Knows
<1>5. CASE g # NoGen /\ admissionCleanupMarker(g) /\ Goto(p, "help")
  <2>1. Released(g)
    BY <1>4, <1>5, RetiredIsReleased DEF admissionCleanupMarker
  <2>2. QED
    BY <1>1, <1>2, <1>3, <1>4, <1>5, <2>1, Goes
       DEF Building, Dropping, Expecting, Seeking, Looking
<1>6. CASE g # NoGen /\ Goto(p, "elect") /\ (c.retired # NoGen \/ Expired(p, g))
  <2>1. Released(g)
    <3>1. CASE c.retired # NoGen
      <4>1. c.retired = g
        BY <1>1, <3>1 DEF Sane
      <4>2. Refers(c, g)
        BY <4>1 DEF Refers
      <4>3. QED
        BY <1>4, <1>6, <4>2, Shapes
    <3>2. CASE Expired(p, g)
      BY <1>4, <1>6, <3>2, ExpiredIsReleased
    <3>3. QED
      BY <1>6, <3>1, <3>2
  <2>2. QED
    BY <1>1, <1>2, <1>3, <1>4, <1>6, <2>1, Goes
       DEF Building, Dropping, Expecting, Seeking, Looking
<1>7. CASE Resolved(p, "blocked", g)
  BY <1>1, <1>2, <1>7, Resolves
<1>8. CASE Goto(p, "clearParent")
  BY <1>1, <1>2, <1>3, <1>8, Goes DEF Building, Dropping, Expecting, Seeking, Looking
<1>9. ASSUME l # NoGen, admissionCleanupMarker(l) \/ IsEmpty(l),
             NEW pc \in {"removeMarker", "removeGeneration"},
             proc' = [proc EXCEPT ![p].pc = pc, ![p].expected = l, ![p].empty = TRUE]
      PROVE  Admitted'
  <2>1. l \in Gen /\ gen[l].place = "claim"
    BY <1>9, Locates
  <2>2. Released(l)
    BY <1>9, <2>1, RetiredIsReleased DEF admissionCleanupMarker, IsEmpty
  <2>3. QED
    BY <1>1, <1>2, <1>9, <2>1, <2>2, LeftoverMoves
<1>10. QED
  <2>1. \/ g # NoGen /\ admissionCleanupMarker(g) /\ Goto(p, "help")
        \/ g # NoGen /\ Goto(p, "elect") /\ (c.retired # NoGen \/ Expired(p, g))
        \/ Resolved(p, "blocked", g)
        \/ /\ l # NoGen /\ (admissionCleanupMarker(l) \/ IsEmpty(l))
           /\ \E pc \in {"removeMarker", "removeGeneration"} :
                proc' = [proc EXCEPT ![p].pc = pc, ![p].expected = l, ![p].empty = TRUE]
        \/ Goto(p, "clearParent")
    BY DEF Decide, Me
  <2>2. QED
    BY <2>1, <1>5, <1>6, <1>7, <1>8, <1>9

LEMMA ClearParentNext ==
    ASSUME Admitted, NEW p \in Proc, ClearParent(p)
    PROVE  Admitted'
<1>1. /\ proc[p].pc \in Seeking /\ proc[p].back # "retire" /\ Shape
      /\ UNCHANGED <<now, gen, expires, crashes>>
  BY Shapes DEF ClearParent, At, Sane, Looking, Seeking
<1>2. CASE locateAdmission = NoGen /\ parent' = FALSE /\ Resolved(p, "cleared", NoGen)
  BY <1>1, <1>2, Cleared, Resolves
<1>3. CASE parent' = parent /\ (Resolved(p, "clear", NoGen) \/ Resolved(p, "lost", NoGen))
  BY <1>1, <1>3, Still, Resolves
<1>4. QED
  BY <1>2, <1>3 DEF ClearParent

LEMMA ElectNext ==
    ASSUME Admitted, NEW p \in Proc, Elect(p)
    PROVE  Admitted'
<1> DEFINE c == proc[p]
           g == c.expected
           f == [gen[g] EXCEPT !.marker = TRUE]
<1>1. /\ c.pc = "elect" /\ c.pc \in Seeking /\ c.back # "retire" /\ Shape /\ g \in Gen
      /\ Refers(c, g) /\ UNCHANGED <<now, parent, expires, crashes>>
  BY Shapes DEF Elect, At, Sane, Expecting, Seeking, Refers
<1>2. Released(g)
  BY <1>1, Shapes
<1>3. {"help", "electLost"} \subseteq PC
  BY DEF PC
<1>4. CASE gen[g].place = "claim" /\ gen' = [gen EXCEPT ![g] = f] /\ Goto(p, "help")
  <2>1. f \in Files /\ Ordered(f) /\ f.place = gen[g].place
    BY <1>1, <1>4, Shapes DEF Files, Ordered
  <2> HIDE DEF f
  <2>2. Allowed
    BY <1>1, <1>2, <1>4, <2>1, Touched
  <2>3. QED
    BY <1>1, <1>2, <1>3, <1>4, <2>2, Goes DEF Building, Dropping, Expecting, Seeking, Looking
<1>5. CASE gen' = gen /\ Goto(p, "electLost")
  <2>1. Allowed
    BY <1>1, <1>5, Still
  <2>2. QED
    BY <1>1, <1>2, <1>3, <1>5, <2>1, Goes DEF Building, Dropping, Expecting, Seeking, Looking
<1>6. QED
  BY <1>4, <1>5 DEF Elect, Me

LEMMA ElectLostNext ==
    ASSUME Admitted, NEW p \in Proc, ElectLost(p)
    PROVE  Admitted'
<1> DEFINE c == proc[p]
<1>1. /\ c.pc = "electLost" /\ c.pc \in Seeking /\ c.back # "retire" /\ c.expected \in Gen
      /\ Refers(c, c.expected)
  BY Shapes DEF ElectLost, At, Sane, Expecting, Seeking, Refers
<1>2. Released(c.expected) /\ Allowed
  BY <1>1, Shapes, Still DEF ElectLost
<1>3. "help" \in PC /\ "internal_failure" \in Answer
  BY DEF PC, Answer
<1>4. CASE Goto(p, "help")
  BY <1>1, <1>2, <1>3, <1>4, Goes DEF Building, Dropping, Expecting, Seeking, Looking
<1>5. CASE Resolved(p, "blocked", readAdmissionClaim)
  BY <1>1, <1>2, <1>5, Resolves
<1>6. CASE Fail(p, "internal_failure")
  BY <1>2, <1>3, <1>6, Fails
<1>7. QED
  BY <1>4, <1>5, <1>6 DEF ElectLost

-----------------------------------------------------------------------------
(* helpAdmissionCleanup and retireAdmissionRecord.                         *)

\* Where a process goes on retiring the generation it expects.
Retiring == {"help", "helpClaim", "link", "linkClaim", "unlink", "inspectTombstone",
             "removeTombstone", "raw", "removeMarker", "removeGeneration", "removeParent"}

LEMMA GoesOnRetiring ==
    ASSUME Admitted, Allowed, NEW p \in Proc, proc[p].pc \in Expecting,
           NEW pc \in Retiring, Goto(p, pc)
    PROVE  Admitted'
<1>1. /\ proc[p].pc # "idle" /\ proc[p].pc \in Seeking
      /\ proc[p].expected \in Gen /\ Released(proc[p].expected)
  BY Shapes DEF Sane, Expecting, Seeking, Refers
<1>2. /\ pc \in PC /\ pc \notin Building \cup {"makeCandidate", "decide"}
      /\ pc \notin Dropping /\ pc \notin {"retire", "mark"}
      /\ pc \notin (Looking \cup Dropping \cup {"elect", "electLost"}) \ {"removeParent"}
  BY DEF Retiring, Dropping, PC, Building, Looking
<1>3. QED
  BY <1>1, <1>2, Goes

\* The generation a process retires.
LEMMA RetiresReleased ==
    ASSUME Admitted, NEW p \in Proc, proc[p].pc \in Expecting
    PROVE  /\ proc[p].expected \in Gen /\ Released(proc[p].expected)
           /\ proc[p].pc \in Seeking /\ Shape
BY Shapes DEF Sane, Seeking, Refers

\* It changes what is in the generation, not where the generation is.
LEMMA RetiresTouched ==
    ASSUME Admitted, NEW p \in Proc, proc[p].pc \in Expecting,
           NEW f \in Files, Ordered(f),
           f.place = "claim" => gen[proc[p].expected].place = "claim",
           gen' = [gen EXCEPT ![proc[p].expected] = f],
           UNCHANGED <<now, parent, expires, crashes>>
    PROVE  Allowed
BY RetiresReleased, Touched

LEMMA HelpNext ==
    ASSUME Admitted, NEW p \in Proc, Help(p)
    PROVE  Admitted'
<1>1. proc[p].pc \in Expecting /\ proc[p].pc \in Seeking /\ Allowed
  BY Shapes, Still DEF Help, At, Expecting, Seeking
<1>2. "helpClaim" \in Retiring
  BY DEF Retiring
<1>3. QED
  BY <1>1, <1>2, GoesOnRetiring, Helps DEF Help

LEMMA HelpTombstoneNext ==
    ASSUME Admitted, NEW p \in Proc, HelpTombstone(p)
    PROVE  Admitted'
<1> DEFINE c == proc[p]
<1>1. /\ c.pc = "helpTombstone" /\ c.pc \in Expecting /\ c \in Register /\ Sane(p, c)
      /\ proc \in [Proc -> Register] /\ Allowed
  BY Shapes, Still DEF HelpTombstone, At, Expecting, Shape
<1>2. CASE Fail(p, "state_corrupt")
  BY <1>1, <1>2, Fails DEF Answer
<1>3. ASSUME NEW pc \in {"link", "unlink", "inspectTombstone"},
             proc' = [proc EXCEPT ![p].holder = NoGen, ![p].pc = pc]
      PROVE  Admitted'
  <2> DEFINE d == [c EXCEPT !.holder = NoGen, !.pc = pc]
  <2>1. proc' = [proc EXCEPT ![p] = d]
    BY <1>1, <1>3 DEF Register
  <2>2. pc \in PC
    BY DEF PC
  <2>3. d \in Register
    BY <1>1, <2>2 DEF Register
  <2>4. /\ d.pc = pc /\ d.queue = c.queue /\ d.holder = NoGen /\ d.retired = c.retired
        /\ d.call = c.call /\ d.attempt = c.attempt /\ d.back = c.back /\ d.expected = c.expected
    BY <1>1 DEF Register
  <2> HIDE DEF d
  <2>5. Sane(p, d)
    BY <1>1, <2>3, <2>4 DEF Sane, Looking, Dropping, Expecting
  <2>6. d.pc \notin Building /\ Onward(c, d)
    BY <1>1, <2>4 DEF Building, Onward, Before, Looking, Expecting
  <2>7. \A g \in Gen : Refers(d, g) => Refers(c, g)
    BY <1>1, <2>4 DEF Refers, Dropping, Expecting
  <2>8. \A g \in Gen : Knows(d, g) => Knows(c, g)
    BY <2>4, NoneIsHeld DEF Knows
  <2>9. QED
    BY <1>1, <2>1, <2>5, <2>6, <2>7, <2>8, Moves, Shapes
<1>4. QED
  <2> DEFINE retired == readAdmissionTombstone
             pc == CASE c.holder # NoGen /\ retired = NoGen -> "link"
                     [] c.holder # NoGen /\ retired # NoGen -> "unlink"
                     [] c.holder = NoGen -> "inspectTombstone"
  <2>1. pc \in {"link", "unlink", "inspectTombstone"}
    <3>1. CASE c.holder = NoGen
      BY <3>1
    <3>2. CASE c.holder # NoGen
      BY <3>2
    <3>3. QED
      BY <3>1, <3>2
  <2>2. \/ Fail(p, "state_corrupt")
        \/ proc' = [proc EXCEPT ![p].holder = NoGen, ![p].pc = pc]
    BY DEF HelpTombstone, Me
  <2> HIDE DEF pc
  <2>3. QED
    BY <1>2, <1>3, <2>1, <2>2

LEMMA LinkNext ==
    ASSUME Admitted, NEW p \in Proc, Link(p)
    PROVE  Admitted'
<1> DEFINE g == proc[p].expected
           f == [gen[g] EXCEPT !.tomb = TRUE]
<1>1. proc[p].pc \in Expecting /\ UNCHANGED <<now, parent, expires, crashes>>
  BY DEF Link, At, Expecting
<1>2. {"unlink", "linkClaim"} \subseteq Retiring
  BY DEF Retiring
<1>3. CASE gen[g].place = "claim" /\ gen' = [gen EXCEPT ![g] = f] /\ Goto(p, "unlink")
  <2>1. f \in Files /\ Ordered(f) /\ f.place = gen[g].place
    <3>1. gen[g] \in Files /\ Ordered(gen[g])
      BY <1>1, RetiresReleased, Shapes
    <3>2. QED
      BY <1>3, <3>1 DEF Files, Ordered
  <2> HIDE DEF f
  <2>2. QED
    BY <1>1, <1>2, <1>3, <2>1, RetiresTouched, GoesOnRetiring
<1>4. CASE gen' = gen /\ Goto(p, "linkClaim")
  BY <1>1, <1>2, <1>4, RetiresReleased, Still, GoesOnRetiring
<1>5. QED
  BY <1>3, <1>4 DEF Link, Me

LEMMA LinkTombstoneNext ==
    ASSUME Admitted, NEW p \in Proc, LinkTombstone(p)
    PROVE  Admitted'
<1> DEFINE g == proc[p].expected
           t == readAdmissionTombstone
           h == proc[p].holder
<1>1. proc[p].pc \in Expecting /\ proc[p].pc \in Seeking /\ Allowed
  BY Shapes, Still DEF LinkTombstone, At, Expecting, Seeking
<1>2. "help" \in Retiring /\ {"state_corrupt", "internal_failure"} \subseteq Answer
  BY DEF Retiring, Answer
<1>3. \/ Goto(p, "help") \/ Helped(p, "lost")
      \/ Fail(p, "state_corrupt") \/ Fail(p, "internal_failure")
  <2>1. CASE t = g /\ h \in {NoGen, g}
    BY <2>1 DEF LinkTombstone, Me
  <2>2. CASE t # g /\ h = NoGen
    BY <2>2 DEF LinkTombstone, Me
  <2>3. CASE h \notin {NoGen, g}
    BY <2>3 DEF LinkTombstone, Me
  <2>4. CASE t # g /\ h = g /\ h # NoGen
    BY <2>4 DEF LinkTombstone, Me
  <2>5. QED
    BY <2>1, <2>2, <2>3, <2>4
<1>4. QED
  BY <1>1, <1>2, <1>3, GoesOnRetiring, Helps, Fails

LEMMA UnlinkNext ==
    ASSUME Admitted, NEW p \in Proc, Unlink(p)
    PROVE  Admitted'
<1> DEFINE g == proc[p].expected
           f == [gen[g] EXCEPT !.record = "none"]
<1>1. proc[p].pc \in Expecting /\ UNCHANGED <<now, parent, expires, crashes>>
  BY DEF Unlink, At, Expecting
<1>2. {"inspectTombstone", "raw"} \subseteq Retiring
  BY DEF Retiring
<1>3. CASE gen[g].place = "claim" /\ gen' = [gen EXCEPT ![g] = f] /\ Goto(p, "inspectTombstone")
  <2>1. f \in Files /\ Ordered(f) /\ f.place = gen[g].place
    <3>1. gen[g] \in Files /\ Ordered(gen[g])
      BY <1>1, RetiresReleased, Shapes
    <3>2. QED
      BY <1>3, <3>1 DEF Files, Ordered
  <2> HIDE DEF f
  <2>2. QED
    BY <1>1, <1>2, <1>3, <2>1, RetiresTouched, GoesOnRetiring
<1>4. CASE gen' = gen /\ Goto(p, "raw")
  BY <1>1, <1>2, <1>4, RetiresReleased, Still, GoesOnRetiring
<1>5. QED
  BY <1>3, <1>4 DEF Unlink, Me

LEMMA InspectTombstoneNext ==
    ASSUME Admitted, NEW p \in Proc, InspectTombstone(p)
    PROVE  Admitted'
<1>1. proc[p].pc \in Expecting /\ Allowed
  BY Shapes, Still DEF InspectTombstone, At, Expecting
<1>2. {"removeTombstone", "removeMarker"} \subseteq Retiring
  BY DEF Retiring
<1>3. \E pc \in {"removeTombstone", "removeMarker"} : Goto(p, pc)
  BY DEF InspectTombstone
<1>4. QED
  BY <1>1, <1>2, <1>3, GoesOnRetiring

LEMMA RemoveTombstoneNext ==
    ASSUME Admitted, NEW p \in Proc, RemoveTombstone(p)
    PROVE  Admitted'
<1> DEFINE g == proc[p].expected
           f == [gen[g] EXCEPT !.tomb = FALSE]
<1>1. proc[p].pc \in Expecting /\ UNCHANGED <<now, parent, expires, crashes>>
  BY DEF RemoveTombstone, At, Expecting
<1>2. {"removeMarker", "raw"} \subseteq Retiring
  BY DEF Retiring
<1>3. CASE gen[g].place = "claim" /\ gen' = [gen EXCEPT ![g] = f] /\ Goto(p, "removeMarker")
  <2>1. f \in Files /\ Ordered(f) /\ f.place = gen[g].place
    <3>1. gen[g] \in Files /\ Ordered(gen[g])
      BY <1>1, RetiresReleased, Shapes
    <3>2. QED
      BY <1>3, <3>1 DEF Files, Ordered
  <2> HIDE DEF f
  <2>2. QED
    BY <1>1, <1>2, <1>3, <2>1, RetiresTouched, GoesOnRetiring
<1>4. CASE gen' = gen /\ Goto(p, "raw")
  BY <1>1, <1>2, <1>4, RetiresReleased, Still, GoesOnRetiring
<1>5. QED
  BY <1>3, <1>4 DEF RemoveTombstone, Entombed, Me

LEMMA RawNext ==
    ASSUME Admitted, NEW p \in Proc, Raw(p)
    PROVE  Admitted'
<1>1. proc[p].pc \in Seeking /\ Allowed /\ "internal_failure" \in Answer
  BY Shapes, Still DEF Raw, At, Expecting, Seeking, Answer
<1>2. QED
  BY <1>1, Fails, Helps DEF Raw

LEMMA RemoveMarkerNext ==
    ASSUME Admitted, NEW p \in Proc, RemoveMarker(p)
    PROVE  Admitted'
<1> DEFINE g == proc[p].expected
           f == [gen[g] EXCEPT !.marker = FALSE]
<1>1. /\ proc[p].pc \in Expecting /\ UNCHANGED <<now, parent, expires, crashes>>
      /\ Goto(p, "removeGeneration")
  BY DEF RemoveMarker, At, Expecting
<1>2. "removeGeneration" \in Retiring
  BY DEF Retiring
<1>3. CASE gen[g].place = "claim" /\ gen' = [gen EXCEPT ![g] = f]
  <2>1. f \in Files /\ Ordered(f) /\ f.place = gen[g].place
    <3>1. gen[g] \in Files /\ Ordered(gen[g])
      BY <1>1, RetiresReleased, Shapes
    <3>2. QED
      BY <1>3, <3>1 DEF Files, Ordered
  <2> HIDE DEF f
  <2>2. QED
    BY <1>1, <1>2, <1>3, <2>1, RetiresTouched, GoesOnRetiring
<1>4. CASE gen' = gen
  BY <1>1, <1>2, <1>4, RetiresReleased, Still, GoesOnRetiring
<1>5. QED
  BY <1>3, <1>4 DEF RemoveMarker, admissionCleanupMarker, Me

LEMMA RemoveGenerationNext ==
    ASSUME Admitted, NEW p \in Proc, RemoveGeneration(p)
    PROVE  Admitted'
<1> DEFINE g == proc[p].expected
<1>1. /\ proc[p].pc \in Expecting /\ proc[p].pc \in Seeking
      /\ UNCHANGED <<now, parent, expires, crashes>>
  BY DEF RemoveGeneration, At, Expecting, Seeking
<1>2. "removeParent" \in Retiring /\ "internal_failure" \in Answer
  BY DEF Retiring, Answer
<1>3. CASE gen' = [gen EXCEPT ![g] = Nothing] /\ Goto(p, "removeParent")
  BY <1>1, <1>2, <1>3, NothingIsOrdered, RetiresTouched, GoesOnRetiring
<1>4. CASE gen' = gen /\ Helped(p, "lost")
  BY <1>1, <1>4, RetiresReleased, Still, Helps
<1>5. CASE gen' = gen /\ Fail(p, "internal_failure")
  BY <1>1, <1>2, <1>5, RetiresReleased, Still, Fails
<1>6. QED
  BY <1>3, <1>4, <1>5 DEF RemoveGeneration, Me

LEMMA RemoveParentNext ==
    ASSUME Admitted, NEW p \in Proc, RemoveParent(p)
    PROVE  Admitted'
<1>1. /\ proc[p].pc \in Seeking /\ Shape /\ "internal_failure" \in Answer
      /\ UNCHANGED <<now, gen, expires, crashes>>
  BY Shapes DEF RemoveParent, At, Looking, Seeking, Answer
<1>2. CASE locateAdmission = NoGen /\ parent' = FALSE /\ Helped(p, "cleared")
  BY <1>1, <1>2, Cleared, Helps
<1>3. CASE parent' = parent /\ Fail(p, "internal_failure")
  BY <1>1, <1>3, Still, Fails
<1>4. CASE parent' = parent /\ Helped(p, "lost")
  BY <1>1, <1>4, Still, Helps
<1>5. QED
  BY <1>2, <1>3, <1>4 DEF RemoveParent

-----------------------------------------------------------------------------
(* A process that builds its generation.                                   *)

\* The process that owns generation m builds it, or starts to, and its
\* register becomes d.
BuildStep(p, d, m) ==
    /\ m = <<p, proc[p].call, proc[p].attempt>>
    /\ proc' = [proc EXCEPT ![p] = d] /\ Sane(p, d) /\ d.pc \in Building
    /\ d.call = proc[p].call /\ d.attempt = proc[p].attempt
    /\ \A g \in Gen : (Refers(d, g) => Refers(proc[p], g)) /\ (Knows(d, g) => Knows(proc[p], g))
    /\ expires' \in [Gen -> 0 .. MaxTime + Skew + AdmissionTTL] /\ gen' \in [Gen -> Files]
    /\ \A g \in Gen : g # m => expires'[g] = expires[g] /\ gen'[g] = gen[g]
    /\ expires'[m] # expires[m] => Unborn(m)
    /\ Unborn(m) \/ proc[p].pc \in Building
    /\ Ordered(gen'[m])
    /\ now < expires'[m] => gen'[m] = Built(d.pc)
    /\ gen'[m].place = "claim" => parent' /\ (gen[m].place = "claim" \/ ~parent)
    /\ parent' \in BOOLEAN /\ (parent => parent') /\ now' = now /\ crashes' = crashes

LEMMA Builds ==
    ASSUME Admitted, NEW p \in Proc, NEW d, NEW m \in Gen, BuildStep(p, d, m)
    PROVE  Admitted'
<1> USE DEF BuildStep
<1> DEFINE c == proc[p]
<1>0. /\ proc \in [Proc -> Register] /\ d \in Register /\ proc' \in [Proc -> Register]
      /\ proc'[p] = d /\ (\A q \in Proc : q # p => proc'[q] = proc[q])
      /\ c \in Register /\ m[1] = p /\ m[2] = c.call /\ m[3] = c.attempt
  BY DEF Admitted, Shape, Sane
<1>1. ~Before(d) /\ (c.pc \in Building => ~Before(c))
  BY DEF Before, Building, Looking, Expecting, Dropping
<1>2. ~Unborn(m)'
  <2>1. d.call \in Nat /\ d.attempt \in Nat
    BY <1>0, AdmissionAssumption DEF Register
  <2>2. QED
    BY <1>0, <1>1, <2>1 DEF Unborn, UnbornIn
<1>3. ASSUME NEW g \in Gen, Unborn(g)' PROVE Unborn(g) /\ g # m
  <2>1. g[1] \in Proc /\ g # m
    BY <1>2, <1>3, Generations
  <2>2. CASE g[1] = p
    <3>1. UnbornIn(d, g)
      BY <1>0, <1>3, <2>2 DEF Unborn
    <3>2. Onward(c, d)
      BY <1>1 DEF Onward
    <3>3. QED
      BY <1>0, <2>1, <2>2, <3>1, <3>2, OnwardBears DEF Unborn
  <2>3. CASE g[1] # p
    BY <2>3, <2>1, <1>0, <1>3 DEF Unborn
  <2>4. QED
    BY <2>2, <2>3, <2>1
<1>4. ASSUME NEW g \in Gen, g # m, Guarded(g)' PROVE Guarded(g) /\ proc'[g[1]] = proc[g[1]]
  <2>1. g[1] \in Proc /\ g = <<g[1], g[2], g[3]>>
    BY Generations
  <2>2. g[1] # p
    BY <1>0, <1>4, <2>1 DEF Guarded, ActiveIn
  <2>3. QED
    BY <1>0, <1>4, <2>1, <2>2 DEF Guarded
<1>5. ASSUME NEW g \in Gen, Released(g), g # m PROVE Released(g)'
  BY <1>3, <1>4, <1>5 DEF Released
<1>6. ASSUME Released(m) PROVE Released(m)'
  <2>1. c.pc \in Building /\ ~Unborn(m)
    BY <1>6 DEF Released
  <2>2. expires'[m] = expires[m]
    BY <2>1
  <2>3. ActiveIn(c, m)
    BY <1>0, <2>1 DEF ActiveIn
  <2>4. ~(now < expires[m])
    BY <1>0, <1>6, <2>3 DEF Released, Guarded
  <2>5. ~Guarded(m)'
    BY <1>0, <2>2, <2>4 DEF Guarded
  <2>6. QED
    BY <1>2, <2>5 DEF Released
<1>7. Shape'
  <2>1. \A q \in Proc : Sane(q, proc'[q])
    BY <1>0 DEF Admitted, Shape
  <2>2. \A g \in Gen : Ordered(gen'[g])
    BY <1>0 DEF Admitted, Shape
  <2>3. QED
    BY <2>1, <2>2, <1>0 DEF Admitted, Shape
<1>8. OneClaim'
  <2>1. ASSUME NEW g \in Gen, gen'[g].place = "claim" PROVE parent'
    BY <1>0, <2>1 DEF Admitted, OneClaim
  <2>2. ASSUME NEW g \in Gen, gen'[g].place = "claim", g # m, gen'[m].place = "claim"
        PROVE  FALSE
    BY <1>0, <2>2 DEF Admitted, OneClaim
  <2>3. ASSUME NEW g \in Gen, NEW h \in Gen, gen'[g].place = "claim", gen'[h].place = "claim"
        PROVE  g = h
    <3>1. CASE g = m \/ h = m
      BY <2>2, <2>3, <3>1
    <3>2. CASE g # m /\ h # m
      BY <1>0, <2>3, <3>2 DEF Admitted, OneClaim
    <3>3. QED
      BY <3>1, <3>2
  <2>4. QED
    BY <2>1, <2>3 DEF OneClaim
<1>9. UnbornIsBlank'
  <2>1. ASSUME NEW g \in Gen, Unborn(g)' PROVE gen'[g] = Nothing
    BY <1>0, <1>3, <2>1 DEF Admitted, UnbornIsBlank
  <2>2. QED
    BY <2>1 DEF UnbornIsBlank
<1>10. GuardedIsBuilt'
  <2>1. ASSUME NEW g \in Gen, Guarded(g)' PROVE gen'[g] = Built(proc'[g[1]].pc)
    <3>1. CASE g = m
      <4>1. now < expires'[m]
        BY <1>0, <2>1, <3>1 DEF Guarded
      <4>2. QED
        BY <1>0, <3>1, <4>1
    <3>2. CASE g # m
      BY <1>0, <1>4, <2>1, <3>2 DEF Admitted, GuardedIsBuilt
    <3>3. QED
      BY <3>1, <3>2
  <2>2. QED
    BY <2>1 DEF GuardedIsBuilt
<1>11. OnlyReleased'
  <2>1. ASSUME NEW q \in Proc, NEW g \in Gen, Refers(proc'[q], g) PROVE Released(g)'
    <3>1. Refers(proc[q], g)
      BY <1>0, <2>1
    <3>2. Released(g)
      BY <3>1 DEF Admitted, OnlyReleased
    <3>3. QED
      BY <1>5, <1>6, <3>2
  <2>2. ASSUME NEW q \in Proc, NEW g \in Gen, Knows(proc'[q], g) PROVE ~Unborn(g)'
    <3>1. Knows(proc[q], g)
      BY <1>0, <2>2
    <3>2. ~Unborn(g)
      BY <3>1 DEF Admitted, OnlyReleased
    <3>3. QED
      BY <1>3, <3>2
  <2>3. QED
    BY <2>1, <2>2 DEF OnlyReleased
<1>12. QED
  BY <1>7, <1>8, <1>9, <1>10, <1>11 DEF Admitted

LEMMA OwnGeneration ==
    ASSUME Admitted, NEW p \in Proc, proc[p].pc # "idle"
    PROVE  /\ Mine(p) = <<p, proc[p].call, proc[p].attempt>> /\ Mine(p) \in Gen
           /\ Before(proc[p]) => Unborn(Mine(p))
           /\ ~Before(proc[p]) => ~Unborn(Mine(p))
           /\ proc[p].pc \notin Building => ~Guarded(Mine(p))
<1>1. /\ proc[p].call \in 1 .. Len(Works[p]) /\ proc[p].attempt \in 1 .. MaxElection
      /\ proc[p].call \in Nat /\ proc[p].attempt \in Nat
  BY Shapes, AdmissionAssumption DEF Sane, Register
<1>2. Mine(p) = <<p, proc[p].call, proc[p].attempt>> /\ Mine(p) \in Gen
  BY <1>1, Generations DEF Mine, Me
<1>3. /\ Mine(p)[1] = p /\ Mine(p)[2] = proc[p].call /\ Mine(p)[3] = proc[p].attempt
  BY <1>2
<1>4. QED
  BY <1>1, <1>2, <1>3 DEF Unborn, UnbornIn, Guarded, ActiveIn

LEMMA BuiltFields ==
    ASSUME NEW pc \in Building
    PROVE  /\ Built(pc) \in Files
           /\ Built(pc).place = IF pc = "operate" THEN "claim" ELSE "candidate"
           /\ pc = "makeDir" => Built(pc).dir = FALSE
           /\ pc # "makeDir" => Built(pc).dir = TRUE
           /\ pc \in {"makeDir", "openRecord"} => Built(pc).record = "none"
           /\ pc = "writeRecord" => Built(pc).record = "empty"
           /\ pc \in {"publish", "operate"} => Built(pc).record = "full"
           /\ Built(pc).tomb = FALSE /\ Built(pc).marker = FALSE
BY DEF Building, Built, Files

LEMMA SameFiles ==
    ASSUME NEW f \in Files, NEW h \in Files,
           f.place = h.place, f.dir = h.dir, f.record = h.record, f.tomb = h.tomb,
           f.marker = h.marker
    PROVE  f = h
BY DEF Files

LEMMA BuildsOn ==
    ASSUME Admitted, NEW p \in Proc, NEW pc \in Building, Goto(p, pc),
           proc[p].pc \in {"makeCandidate", "makeDir", "openRecord", "writeRecord", "publish"},
           expires' \in [Gen -> 0 .. MaxTime + Skew + AdmissionTTL], gen' \in [Gen -> Files],
           \A g \in Gen : g # Mine(p) => expires'[g] = expires[g] /\ gen'[g] = gen[g],
           expires'[Mine(p)] # expires[Mine(p)] => proc[p].pc = "makeCandidate",
           Ordered(gen'[Mine(p)]), now < expires'[Mine(p)] => gen'[Mine(p)] = Built(pc),
           gen'[Mine(p)].place = "claim" => parent' /\ ~parent,
           parent' \in BOOLEAN, parent => parent', UNCHANGED <<now, crashes>>
    PROVE  Admitted'
<1> DEFINE c == proc[p]
           d == [c EXCEPT !.pc = pc, !.holder = NoGen, !.retired = NoGen]
           m == Mine(p)
<1>1. /\ c \in Register /\ Sane(p, c) /\ c.pc # "idle" /\ c.back = "enter"
      /\ proc \in [Proc -> Register]
  BY Shapes DEF Shape, Sane
<1>2. /\ m = <<p, c.call, c.attempt>> /\ m \in Gen
      /\ Before(c) => Unborn(m)
  BY <1>1, OwnGeneration
<1>3. Unborn(m) \/ c.pc \in Building
  BY <1>1, <1>2 DEF Before, Looking, Building
<1>4. expires'[m] # expires[m] => Unborn(m)
  BY <1>1, <1>2 DEF Before, Looking
<1>5. proc' = [proc EXCEPT ![p] = d]
  BY <1>1 DEF Goto, Register
<1>6. pc \in PC /\ pc \notin Dropping \cup Expecting \cup Looking /\ pc \notin {"idle", "decide"}
  BY DEF Building, Dropping, Expecting, Looking, PC
<1>7. d \in Register
  BY <1>1, <1>6 DEF Register
<1>8. /\ d.pc = pc /\ d.queue = c.queue /\ d.holder = NoGen /\ d.retired = NoGen
      /\ d.call = c.call /\ d.attempt = c.attempt /\ d.back = c.back /\ d.expected = c.expected
  BY <1>1 DEF Register
<1> HIDE DEF d, m
<1>9. Sane(p, d)
  BY <1>1, <1>6, <1>7, <1>8 DEF Sane, Expecting
<1>10. \A g \in Gen : Refers(d, g) => Refers(c, g)
  BY <1>6, <1>8, NoneIsHeld DEF Refers
<1>11. \A g \in Gen : Knows(d, g) => Knows(c, g)
  BY <1>8, NoneIsHeld DEF Knows
<1>12. /\ \A g \in Gen : g # m => expires'[g] = expires[g] /\ gen'[g] = gen[g]
       /\ d.pc \in Building /\ (now < expires'[m] => gen'[m] = Built(d.pc)) /\ Ordered(gen'[m])
       /\ gen'[m].place = "claim" => parent' /\ (gen[m].place = "claim" \/ ~parent)
  BY <1>8 DEF m
<1>13. /\ m = <<p, proc[p].call, proc[p].attempt>>
       /\ d.call = proc[p].call /\ d.attempt = proc[p].attempt
       /\ \A g \in Gen : Refers(d, g) => Refers(proc[p], g)
       /\ \A g \in Gen : Knows(d, g) => Knows(proc[p], g)
       /\ Unborn(m) \/ proc[p].pc \in Building
  BY <1>2, <1>3, <1>8, <1>10, <1>11
<1>14. expires'[m] # expires[m] => Unborn(m)
  BY <1>4
<1>15. BuildStep(p, d, m)
  BY <1>2, <1>13, <1>14, <1>5, <1>9, <1>12 DEF BuildStep
<1>16. QED
  BY <1>2, <1>15, Builds

\* The owner puts something into the candidate it is building.
LEMMA BuildsMore ==
    ASSUME Admitted, NEW p \in Proc, NEW pc \in Building, Goto(p, pc),
           proc[p].pc \in {"makeDir", "openRecord", "writeRecord", "publish"},
           NEW f \in Files, gen' = [gen EXCEPT ![Mine(p)] = f], Ordered(f),
           gen[Mine(p)] = Built(proc[p].pc) => f = Built(pc),
           f.place = "claim" => parent' /\ ~parent,
           parent' \in BOOLEAN, parent => parent', UNCHANGED <<now, expires, crashes>>
    PROVE  Admitted'
<1> DEFINE m == Mine(p)
<1>1. /\ m \in Gen /\ m[1] = p /\ m[2] = proc[p].call /\ m[3] = proc[p].attempt
  BY OwnGeneration
<1>2. /\ gen \in [Gen -> Files] /\ gen' \in [Gen -> Files] /\ gen'[m] = f
      /\ expires' = expires /\ expires \in [Gen -> 0 .. MaxTime + Skew + AdmissionTTL]
      /\ \A g \in Gen : g # m => gen'[g] = gen[g]
  BY <1>1 DEF Admitted, Shape
<1>3. ASSUME now < expires[m] PROVE f = Built(pc)
  <2>1. Guarded(m)
    BY <1>1, <1>3 DEF Guarded, ActiveIn, Building
  <2>2. gen[m] = Built(proc[p].pc)
    BY <1>1, <2>1 DEF Admitted, GuardedIsBuilt
  <2>3. QED
    BY <2>2
<1>4. /\ \A g \in Gen : g # Mine(p) => expires'[g] = expires[g] /\ gen'[g] = gen[g]
      /\ expires'[Mine(p)] = expires[Mine(p)] /\ gen'[Mine(p)] = f
      /\ now < expires'[Mine(p)] => gen'[Mine(p)] = Built(pc)
      /\ UNCHANGED <<now, crashes>>
  BY <1>2, <1>3
<1>5. QED
  BY <1>2, <1>4, BuildsOn

\* The owner gives its candidate up.
LEMMA Abandons ==
    ASSUME Admitted, Allowed, NEW p \in Proc, NEW electing \in BOOLEAN,
           proc[p].pc \in {"makeDir", "openRecord", "writeRecord", "publish"}, Abandon(p, electing)
    PROVE  Admitted'
<1> DEFINE c == proc[p]
           x == <<Mine(p), "candidate">>
           d == [c EXCEPT !.pc = "quarantine", !.cand = x, !.drop = "loser", !.electing = electing]
<1>1. /\ c \in Register /\ Sane(p, c) /\ c.pc # "idle" /\ c.back = "enter"
      /\ proc \in [Proc -> Register]
  BY Shapes DEF Shape, Sane
<1>2. /\ Mine(p) = <<p, c.call, c.attempt>> /\ Mine(p) \in Gen
  BY <1>1, OwnGeneration
<1>3. x \in Gen \X Places /\ x[1] = <<p, c.call, c.attempt>> /\ "quarantine" \in PC
  BY <1>2 DEF Places, PC
<1>4. proc' = [proc EXCEPT ![p] = d]
  BY <1>1 DEF Abandon, Register
<1> HIDE DEF x
<1>5. d \in Register
  BY <1>1, <1>3 DEF Register
<1>6. /\ d.pc = "quarantine" /\ d.queue = c.queue /\ d.holder = c.holder /\ d.retired = c.retired
      /\ d.call = c.call /\ d.attempt = c.attempt /\ d.back = c.back /\ d.expected = c.expected
      /\ d.cand = x /\ d.drop = "loser"
  BY <1>1 DEF Register
<1> HIDE DEF d
<1>7. Sane(p, d)
  BY <1>1, <1>3, <1>5, <1>6 DEF Sane, Looking, Dropping, Expecting
<1>8. ~Before(d)
  BY <1>6 DEF Before, Looking, Expecting
<1>9. d.pc \notin Building /\ Onward(c, d)
  BY <1>6, <1>8 DEF Building, Onward
<1>10. \A g \in Gen : Refers(d, g) => Released(g) \/ (g = <<p, d.call, d.attempt>> /\ ~Before(d))
  <2>1. \A g \in Gen : Refers(d, g) => Refers(c, g) \/ g = x[1]
    BY <1>6 DEF Refers, Dropping, Expecting
  <2>2. QED
    BY <1>3, <1>6, <1>8, <2>1, Shapes
<1>11. \A g \in Gen : Knows(d, g) => Knows(c, g)
  BY <1>6 DEF Knows
<1>12. QED
  BY <1>4, <1>7, <1>9, <1>10, <1>11, Moves, Shapes

LEMMA MakeCandidateNext ==
    ASSUME Admitted, NEW p \in Proc, MakeCandidate(p)
    PROVE  Admitted'
<1> DEFINE m == Mine(p)
           e == Clock(p) + AdmissionTTL
           f == [gen[m] EXCEPT !.place = "candidate"]
<1>1. /\ proc[p].pc = "makeCandidate" /\ proc[p].back = "enter" /\ parent' = parent
      /\ UNCHANGED <<now, crashes>> /\ Goto(p, "makeDir") /\ Shape
      /\ expires' = [expires EXCEPT ![m] = e] /\ gen' = [gen EXCEPT ![m] = f]
  BY Shapes DEF MakeCandidate, At, Sane
<1>2. m \in Gen /\ Unborn(m)
  BY <1>1, OwnGeneration DEF Before, Looking
<1>3. gen[m] = Nothing
  BY <1>2 DEF Admitted, UnbornIsBlank
<1>4. f \in Files /\ Ordered(f) /\ f.place = "candidate" /\ f = Built("makeDir")
  <2>1. /\ f \in Files /\ f.place = "candidate" /\ f.dir = FALSE /\ f.record = "none"
        /\ f.tomb = FALSE /\ f.marker = FALSE
    <3>1. /\ gen[m] \in Files /\ gen[m].dir = FALSE /\ gen[m].record = "none"
          /\ gen[m].tomb = FALSE /\ gen[m].marker = FALSE
      BY <1>3, NothingIsOrdered DEF Nothing
    <3>2. QED
      BY <3>1 DEF Files
  <2> HIDE DEF f
  <2>2. f = Built("makeDir")
    BY <2>1, BuiltFields, SameFiles DEF Building
  <2>3. QED
    BY <2>1, <2>2 DEF Ordered
<1>5. e \in 0 .. MaxTime + Skew + AdmissionTTL
  <2>1. /\ Offset[p] \in 0 .. Skew /\ Skew \in Nat /\ MaxTime \in Nat /\ AdmissionTTL \in Nat
    BY AdmissionAssumption
  <2>2. now \in 0 .. MaxTime
    BY <1>1 DEF Shape
  <2>3. QED
    BY <2>1, <2>2 DEF Clock
<1> HIDE DEF e, f
<1>6. "makeDir" \in Building /\ parent \in BOOLEAN
  BY <1>1 DEF Building, Shape
<1>7. /\ expires' \in [Gen -> 0 .. MaxTime + Skew + AdmissionTTL] /\ gen' \in [Gen -> Files]
      /\ gen'[m] = f /\ \A g \in Gen : g # m => expires'[g] = expires[g] /\ gen'[g] = gen[g]
  BY <1>1, <1>2, <1>4, <1>5 DEF Shape
<1>8. QED
  BY <1>1, <1>4, <1>6, <1>7, BuildsOn

LEMMA MakeDirNext ==
    ASSUME Admitted, NEW p \in Proc, MakeDir(p)
    PROVE  Admitted'
<1> DEFINE m == Mine(p)
           f == [gen[m] EXCEPT !.dir = TRUE]
<1>1. /\ proc[p].pc = "makeDir" /\ Shape /\ UNCHANGED <<now, parent, expires, crashes>>
      /\ parent \in BOOLEAN
  BY Shapes DEF MakeDir, At, Shape
<1>2. m \in Gen /\ gen[m] \in Files /\ Ordered(gen[m])
  BY <1>1, OwnGeneration, Shapes
<1>3. CASE gen[m].place = "candidate" /\ gen' = [gen EXCEPT ![m] = f] /\ Goto(p, "openRecord")
  <2>1. /\ f \in Files /\ f.place = "candidate" /\ f.dir = TRUE /\ f.record = gen[m].record
        /\ f.tomb = gen[m].tomb /\ f.marker = gen[m].marker
    BY <1>2, <1>3 DEF Files
  <2>2. /\ "openRecord" \in Building /\ "makeDir" \in Building
    BY DEF Building
  <2> HIDE DEF f
  <2>3. gen[m] = Built("makeDir") => f = Built("openRecord")
    <3>1. /\ Built("makeDir").record = "none" /\ Built("makeDir").tomb = FALSE
          /\ Built("makeDir").marker = FALSE
      BY <2>2, BuiltFields
    <3>2. /\ Built("openRecord") \in Files /\ Built("openRecord").place = "candidate"
          /\ Built("openRecord").dir = TRUE /\ Built("openRecord").record = "none"
          /\ Built("openRecord").tomb = FALSE /\ Built("openRecord").marker = FALSE
      BY <2>2, BuiltFields
    <3>3. QED
      BY <2>1, <3>1, <3>2, SameFiles
  <2>4. Ordered(f)
    BY <1>2, <1>3, <2>1 DEF Ordered
  <2>5. QED
    BY <1>1, <1>3, <2>1, <2>2, <2>3, <2>4, BuildsMore
<1>4. CASE Abandon(p, FALSE) /\ gen' = gen
  BY <1>1, <1>4, Still, Abandons
<1>5. QED
  BY <1>3, <1>4 DEF MakeDir

LEMMA OpenRecordNext ==
    ASSUME Admitted, NEW p \in Proc, OpenRecord(p)
    PROVE  Admitted'
<1> DEFINE m == Mine(p)
           f == [gen[m] EXCEPT !.record = "empty"]
<1>1. /\ proc[p].pc = "openRecord" /\ Shape /\ UNCHANGED <<now, parent, expires, crashes>>
      /\ parent \in BOOLEAN
  BY Shapes DEF OpenRecord, At, Shape
<1>2. m \in Gen /\ gen[m] \in Files /\ Ordered(gen[m])
  BY <1>1, OwnGeneration, Shapes
<1>3. CASE /\ gen[m].place = "candidate" /\ gen[m].dir /\ gen' = [gen EXCEPT ![m] = f]
           /\ Goto(p, "writeRecord")
  <2>1. /\ f \in Files /\ f.place = "candidate" /\ f.dir = TRUE /\ f.record = "empty"
        /\ f.tomb = gen[m].tomb /\ f.marker = gen[m].marker
    BY <1>2, <1>3 DEF Files
  <2>2. /\ "openRecord" \in Building /\ "writeRecord" \in Building
    BY DEF Building
  <2> HIDE DEF f
  <2>3. gen[m] = Built("openRecord") => f = Built("writeRecord")
    <3>1. /\ Built("openRecord").tomb = FALSE /\ Built("openRecord").marker = FALSE
      BY <2>2, BuiltFields
    <3>2. /\ Built("writeRecord") \in Files /\ Built("writeRecord").place = "candidate"
          /\ Built("writeRecord").dir = TRUE /\ Built("writeRecord").record = "empty"
          /\ Built("writeRecord").tomb = FALSE /\ Built("writeRecord").marker = FALSE
      BY <2>2, BuiltFields
    <3>3. QED
      BY <2>1, <3>1, <3>2, SameFiles
  <2>4. Ordered(f)
    BY <1>2, <1>3, <2>1 DEF Ordered
  <2>5. QED
    BY <1>1, <1>3, <2>1, <2>2, <2>3, <2>4, BuildsMore
<1>4. CASE Abandon(p, FALSE) /\ gen' = gen
  BY <1>1, <1>4, Still, Abandons
<1>5. QED
  BY <1>3, <1>4 DEF OpenRecord

LEMMA WriteRecordNext ==
    ASSUME Admitted, NEW p \in Proc, WriteRecord(p)
    PROVE  Admitted'
<1> DEFINE m == Mine(p)
           f == IF gen[m].record = "empty" THEN [gen[m] EXCEPT !.record = "full"] ELSE gen[m]
<1>1. /\ proc[p].pc = "writeRecord" /\ Shape /\ UNCHANGED <<now, parent, expires, crashes>>
      /\ parent \in BOOLEAN /\ gen \in [Gen -> Files]
  BY Shapes DEF WriteRecord, At, Shape
<1>2. m \in Gen /\ gen[m] \in Files /\ Ordered(gen[m])
  BY <1>1, OwnGeneration, Shapes
<1>3. gen' = [gen EXCEPT ![m] = f]
  <2>1. CASE gen[m].record = "empty"
    BY <1>1, <1>2, <2>1 DEF WriteRecord
  <2>2. CASE gen[m].record # "empty"
    BY <1>1, <1>2, <2>2 DEF WriteRecord
  <2>3. QED
    BY <2>1, <2>2
<1>4. /\ f \in Files /\ f.place = gen[m].place /\ f.dir = gen[m].dir
      /\ f.tomb = gen[m].tomb /\ f.marker = gen[m].marker
      /\ gen[m].record = "empty" => f.record = "full"
  <2>1. CASE gen[m].record = "empty"
    BY <1>2, <2>1 DEF Files
  <2>2. CASE gen[m].record # "empty"
    BY <1>2, <2>2
  <2>3. QED
    BY <2>1, <2>2
<1> HIDE DEF f
<1>5. Ordered(f)
  BY <1>2, <1>4 DEF Ordered
<1>6. /\ "writeRecord" \in Building /\ "publish" \in Building
  BY DEF Building
<1>7. /\ Built("writeRecord").place = "candidate" /\ Built("writeRecord").dir = TRUE
      /\ Built("writeRecord").record = "empty"
      /\ Built("writeRecord").tomb = FALSE /\ Built("writeRecord").marker = FALSE
  BY <1>6, BuiltFields
<1>8. CASE gen[m].place = "candidate" /\ gen[m].dir /\ Goto(p, "publish")
  <2>1. gen[m] = Built("writeRecord") => f = Built("publish")
    <3>1. /\ Built("publish") \in Files /\ Built("publish").place = "candidate"
          /\ Built("publish").dir = TRUE /\ Built("publish").record = "full"
          /\ Built("publish").tomb = FALSE /\ Built("publish").marker = FALSE
      BY <1>6, BuiltFields
    <3>2. QED
      BY <1>4, <1>7, <3>1, SameFiles
  <2>2. f.place # "claim"
    BY <1>4, <1>8
  <2>3. QED
    BY <1>1, <1>3, <1>4, <1>5, <1>6, <1>8, <2>1, <2>2, BuildsMore
<1>9. CASE ~(gen[m].place = "candidate" /\ gen[m].dir) /\ Abandon(p, FALSE)
  <2>1. ~Before(proc[p])
    BY <1>1 DEF Before, Looking, Expecting, Dropping
  <2>2. gen[m] # Built("writeRecord")
    BY <1>7, <1>9
  <2>3. ~Guarded(m)
    <3>1. m[1] = p
      BY <1>1, OwnGeneration
    <3>2. QED
      BY <1>1, <1>2, <2>2, <3>1 DEF Admitted, GuardedIsBuilt
  <2>4. Released(m)
    BY <1>1, <2>1, <2>3, OwnGeneration DEF Released
  <2>5. Allowed
    BY <1>1, <1>2, <1>3, <1>4, <1>5, <2>4, Touched
  <2>6. QED
    BY <1>1, <1>9, <2>5, Abandons
<1>10. QED
  BY <1>8, <1>9 DEF WriteRecord

LEMMA PublishNext ==
    ASSUME Admitted, NEW p \in Proc, Publish(p)
    PROVE  Admitted'
<1> DEFINE m == Mine(p)
           f == [gen[m] EXCEPT !.place = "claim"]
<1>1. proc[p].pc = "publish" /\ Shape /\ UNCHANGED <<now, expires, crashes>>
  BY Shapes DEF Publish, At
<1>2. m \in Gen /\ gen[m] \in Files /\ Ordered(gen[m])
  BY <1>1, OwnGeneration, Shapes
<1>3. CASE /\ gen[m].place = "candidate" /\ ~parent /\ gen' = [gen EXCEPT ![m] = f]
           /\ parent' = TRUE /\ Goto(p, "operate")
  <2>1. /\ f \in Files /\ f.place = "claim" /\ f.dir = gen[m].dir /\ f.record = gen[m].record
        /\ f.tomb = gen[m].tomb /\ f.marker = gen[m].marker
    BY <1>2, <1>3 DEF Files
  <2>2. /\ "publish" \in Building /\ "operate" \in Building
    BY DEF Building
  <2> HIDE DEF f
  <2>3. gen[m] = Built("publish") => f = Built("operate")
    <3>1. /\ Built("publish").dir = TRUE /\ Built("publish").record = "full"
          /\ Built("publish").tomb = FALSE /\ Built("publish").marker = FALSE
      BY <2>2, BuiltFields
    <3>2. /\ Built("operate") \in Files /\ Built("operate").place = "claim"
          /\ Built("operate").dir = TRUE /\ Built("operate").record = "full"
          /\ Built("operate").tomb = FALSE /\ Built("operate").marker = FALSE
      BY <2>2, BuiltFields
    <3>3. QED
      BY <2>1, <3>1, <3>2, SameFiles
  <2>4. Ordered(f)
    BY <2>1 DEF Ordered
  <2>5. QED
    BY <1>1, <1>3, <2>1, <2>2, <2>3, <2>4, BuildsMore
<1>4. CASE Abandon(p, TRUE) /\ gen' = gen /\ parent' = parent
  BY <1>1, <1>4, Still, Abandons
<1>5. QED
  BY <1>3, <1>4 DEF Publish

-----------------------------------------------------------------------------
(* withAdmission, the operation done.                                      *)

LEMMA NotPublishedNext ==
    ASSUME Admitted, NEW p \in Proc, NotPublished(p)
    PROVE  Admitted'
<1>1. Allowed /\ {"conflict", "internal_failure"} \subseteq Answer
  BY Shapes, Still DEF NotPublished, Answer
<1>2. QED
  BY <1>1, Replies DEF NotPublished

LEMMA OperateNext ==
    ASSUME Admitted, NEW p \in Proc, Operate(p)
    PROVE  Admitted'
<1>1. Allowed /\ "done" \in Answer /\ "finish" \in PC
  BY Shapes, Still DEF Operate, Answer, PC
<1>2. CASE proc[p].pc = "operate" /\ Goto(p, "finish")
  BY <1>1, <1>2, Goes DEF Building, Dropping, Expecting, Seeking, Looking
<1>3. CASE Reply(p, "done")
  BY <1>1, <1>3, Replies
<1>4. QED
  BY <1>2, <1>3 DEF Operate, At

LEMMA FinishNext ==
    ASSUME Admitted, NEW p \in Proc, Finish(p)
    PROVE  Admitted'
<1> DEFINE c == proc[p]
           m == Mine(p)
           d == [c EXCEPT !.pc = "retire", !.back = "retire", !.expected = m]
<1>1. /\ c.pc = "finish" /\ c \in Register /\ Sane(p, c) /\ Allowed
      /\ proc \in [Proc -> Register] /\ "done" \in Answer /\ "retire" \in PC
  BY Shapes, Still DEF Finish, At, Shape, Answer, PC
<1>2. m = <<p, c.call, c.attempt>> /\ m \in Gen
  BY <1>1, OwnGeneration
<1>3. CASE Reply(p, "done")
  BY <1>1, <1>3, Replies
<1>4. CASE proc' = [proc EXCEPT ![p].pc = "retire", ![p].back = "retire", ![p].expected = m]
  <2>1. proc' = [proc EXCEPT ![p] = d]
    BY <1>1, <1>4 DEF Register
  <2> HIDE DEF m
  <2>2. d \in Register
    BY <1>1, <1>2 DEF Register
  <2>3. /\ d.pc = "retire" /\ d.queue = c.queue /\ d.holder = c.holder /\ d.retired = c.retired
        /\ d.call = c.call /\ d.attempt = c.attempt /\ d.back = "retire" /\ d.expected = m
    BY <1>1 DEF Register
  <2> HIDE DEF d
  <2>4. Sane(p, d)
    BY <1>1, <1>2, <2>2, <2>3 DEF Sane, Looking, Dropping, Expecting
  <2>5. ~Before(d)
    BY <2>3 DEF Before
  <2>6. d.pc \notin Building /\ Onward(c, d)
    BY <2>3, <2>5 DEF Building, Onward
  <2>7. \A g \in Gen : Refers(d, g) => Released(g) \/ (g = <<p, d.call, d.attempt>> /\ ~Before(d))
    <3>1. \A g \in Gen : Refers(d, g) => Refers(c, g) \/ g = m
      BY <2>3 DEF Refers, Dropping, Expecting
    <3>2. QED
      BY <1>2, <2>3, <2>5, <3>1, Shapes
  <2>8. \A g \in Gen : Knows(d, g) => ~Unborn(g) \/ (g = <<p, d.call, d.attempt>> /\ ~Before(d))
    <3>1. \A g \in Gen : Knows(d, g) => Knows(c, g) \/ g = m
      BY <2>3 DEF Knows
    <3>2. QED
      BY <1>2, <2>3, <2>5, <3>1, Shapes
  <2>9. QED
    BY <1>1, <2>1, <2>4, <2>6, <2>7, <2>8, Moves
<1>5. QED
  BY <1>3, <1>4 DEF Finish

LEMMA RetireNext ==
    ASSUME Admitted, NEW p \in Proc, Retire(p)
    PROVE  Admitted'
<1>1. /\ proc[p].pc = "retire" /\ proc[p].pc \in Expecting /\ Allowed
      /\ {"help", "mark"} \subseteq PC
  BY Shapes, Still DEF Retire, At, Expecting, PC
<1>2. \E pc \in {"help", "mark"} : Goto(p, pc)
  BY DEF Retire
<1>3. QED
  BY <1>1, <1>2, RetiresReleased, Goes DEF Building, Dropping, Seeking, Looking

LEMMA MarkNext ==
    ASSUME Admitted, NEW p \in Proc, Mark(p)
    PROVE  Admitted'
<1> DEFINE g == proc[p].expected
           f == [gen[g] EXCEPT !.marker = TRUE]
<1>1. /\ proc[p].pc = "mark" /\ proc[p].pc \in Expecting
      /\ UNCHANGED <<now, parent, expires, crashes>>
      /\ "help" \in Retiring /\ "recovery_required" \in Answer
  BY DEF Mark, At, Expecting, Retiring, Answer
<1>2. Mine(p) = g
  BY <1>1, Shapes, OwnGeneration DEF Sane
<1>3. CASE gen[g].place = "claim" /\ gen' = [gen EXCEPT ![g] = f] /\ Goto(p, "help")
  <2>1. f \in Files /\ Ordered(f) /\ f.place = gen[g].place
    <3>1. gen[g] \in Files /\ Ordered(gen[g])
      BY <1>1, RetiresReleased, Shapes
    <3>2. QED
      BY <1>3, <3>1 DEF Files, Ordered
  <2> HIDE DEF f
  <2>2. QED
    BY <1>1, <1>3, <2>1, RetiresTouched, GoesOnRetiring
<1>4. CASE gen' = gen /\ Reply(p, "recovery_required")
  BY <1>1, <1>4, RetiresReleased, Still, Replies
<1>5. QED
  BY <1>2, <1>3, <1>4 DEF Mark

-----------------------------------------------------------------------------
(* Time, calls and crashes.                                                *)

LEMMA CrashNext ==
    ASSUME Admitted, NEW p \in Proc, Crash(p)
    PROVE  Admitted'
<1> DEFINE c == proc[p]
           d == Idle(c.call, c.attempt, "none")
<1>1. /\ c \in Register /\ c.call \in Nat /\ c.attempt \in 1 .. MaxElection
      /\ proc' = [proc EXCEPT ![p] = d]
  BY Shapes DEF Crash, Me, Register
<1>2. Allowed
  <2>1. /\ Shape /\ crashes \in 0 .. MaxCrash /\ crashes < MaxCrash /\ crashes' = crashes + 1
    BY Shapes DEF Crash, Shape
  <2>2. crashes' \in 0 .. MaxCrash
    BY <2>1, AdmissionAssumption
  <2>3. QED
    BY <2>1, <2>2 DEF Crash, Allowed, Shape
<1>3. "none" \in Answer /\ "idle" \in PC /\ {} \in SUBSET (Gen \X Places)
  BY DEF Answer, PC
<1>4. d \in Register
  BY <1>1, <1>3 DEF Idle, Register
<1>5. /\ d.pc = "idle" /\ d.queue = {} /\ d.holder = NoGen /\ d.retired = NoGen
      /\ d.call = c.call /\ d.attempt = c.attempt /\ d.expected = NoGen
  BY DEF Idle
<1> HIDE DEF d
<1>6. Sane(p, d)
  BY <1>4, <1>5 DEF Sane, Looking, Dropping, Expecting
<1>7. d.pc \notin Building /\ Onward(c, d)
  BY <1>5 DEF Building, Onward, Before, Looking, Expecting, Dropping
<1>8. \A g \in Gen : ~Refers(d, g) /\ ~Knows(d, g)
  BY <1>5, NoneIsHeld DEF Refers, Knows, Dropping, Expecting
<1>9. QED
  BY <1>1, <1>2, <1>6, <1>7, <1>8, Moves

\* Two registers that differ in nothing the invariant speaks of.
Alike(c, d) ==
    /\ d.pc = c.pc /\ d.call = c.call /\ d.attempt = c.attempt /\ d.back = c.back
    /\ d.queue = c.queue /\ d.cand = c.cand /\ d.drop = c.drop
    /\ d.holder = c.holder /\ d.retired = c.retired /\ d.expected = c.expected

LEMMA AlikeFacts ==
    ASSUME NEW c \in Register, NEW d \in Register, Alike(c, d)
    PROVE  /\ \A p \in Proc : Sane(p, c) => Sane(p, d)
           /\ \A g \in Gen : /\ UnbornIn(d, g) <=> UnbornIn(c, g)
                             /\ ActiveIn(d, g) <=> ActiveIn(c, g)
                             /\ Refers(d, g) <=> Refers(c, g)
                             /\ Knows(d, g) <=> Knows(c, g)
<1>1. \A p \in Proc : Sane(p, c) => Sane(p, d)
  BY DEF Alike, Sane
<1>2. Before(d) <=> Before(c)
  BY DEF Alike, Before
<1>3. \A g \in Gen : UnbornIn(d, g) <=> UnbornIn(c, g)
  BY <1>2 DEF Alike, UnbornIn
<1>4. \A g \in Gen : ActiveIn(d, g) <=> ActiveIn(c, g)
  BY DEF Alike, ActiveIn
<1>5. \A g \in Gen : (Refers(d, g) <=> Refers(c, g)) /\ (Knows(d, g) <=> Knows(c, g))
  BY DEF Alike, Refers, Knows
<1>6. QED
  BY <1>1, <1>3, <1>4, <1>5

LEMMA CallNext ==
    ASSUME Admitted, NEW p \in Proc, Call(p)
    PROVE  Admitted'
<1> DEFINE c == proc[p]
           d == Blank(c.call + 1, 1, "none", "list", Alone(p))
           o(q) == [proc[q] EXCEPT !.alone = @ /\ At(q, "idle")]
<1>1. /\ Shape /\ c \in Register /\ c.call \in Nat /\ c.call < Len(Works[p])
      /\ proc \in [Proc -> Register] /\ UNCHANGED <<now, parent, gen, expires, crashes>>
  BY Shapes DEF Call, Me, Shape, Register
<1>2. c.call + 1 \in 1 .. Len(Works[p]) /\ c.call + 1 \in Nat
  <2>1. Len(Works[p]) \in Nat
    BY AdmissionAssumption
  <2>2. QED
    BY <1>1, <2>1
<1>3. 1 \in 1 .. MaxElection /\ "none" \in Answer /\ Alone(p) \in BOOLEAN
  BY AdmissionAssumption DEF Answer, Alone
<1>4. Sane(p, d) /\ \A g \in Gen : ~Refers(d, g) /\ ~Knows(d, g)
  BY <1>2, <1>3, BlankSane
<1>5. d \in Register /\ d.pc = "list" /\ d.call = c.call + 1 /\ d.attempt = 1
  <2>1. IsBlank(d, c.call + 1, 1, "list")
    BY <1>2, <1>3, BlankFields
  <2>2. QED
    BY <2>1 DEF IsBlank
<1>6. proc' = [q \in Proc |-> IF q = p THEN d ELSE o(q)]
  BY DEF Call, Me, Blank
<1> HIDE DEF d
<1>7. ASSUME NEW q \in Proc PROVE o(q) \in Register /\ Alike(proc[q], o(q))
  <2>1. proc[q] \in Register
    BY <1>1
  <2> DEFINE b == proc[q].alone /\ At(q, "idle")
  <2>2. b \in BOOLEAN
    OBVIOUS
  <2>3. o(q) = [proc[q] EXCEPT !.alone = b]
    BY <2>1 DEF Register
  <2> HIDE DEF b, o
  <2>4. o(q) \in Register
    BY <2>1, <2>2, <2>3 DEF Register
  <2>5. Alike(proc[q], o(q))
    BY <2>1, <2>3 DEF Register, Alike
  <2>6. QED
    BY <2>4, <2>5
<1> HIDE DEF o
<1>8. /\ proc' \in [Proc -> Register] /\ proc'[p] = d
      /\ \A q \in Proc : q # p => proc'[q] = o(q)
  BY <1>5, <1>6, <1>7
<1>9. \A q \in Proc : q # p =>
         /\ proc'[q].pc = proc[q].pc /\ Sane(q, proc'[q])
         /\ \A g \in Gen : /\ UnbornIn(proc'[q], g) <=> UnbornIn(proc[q], g)
                           /\ ActiveIn(proc'[q], g) <=> ActiveIn(proc[q], g)
                           /\ Refers(proc'[q], g) <=> Refers(proc[q], g)
                           /\ Knows(proc'[q], g) <=> Knows(proc[q], g)
  <2>1. ASSUME NEW q \in Proc, q # p PROVE proc'[q].pc = proc[q].pc
    BY <1>7, <1>8, <2>1 DEF Alike
  <2>2. ASSUME NEW q \in Proc PROVE proc[q] \in Register /\ Sane(q, proc[q])
    BY Shapes
  <2>3. QED
    BY <1>7, <1>8, <2>1, <2>2, AlikeFacts
<1>10. ASSUME NEW g \in Gen, Unborn(g)' PROVE Unborn(g)
  <2>1. g[1] \in Proc
    BY Generations
  <2>2. CASE g[1] = p
    <3>1. Onward(c, d) /\ UnbornIn(d, g)
      BY <1>5, <1>8, <1>10, <2>2 DEF Onward, Unborn
    <3>2. QED
      BY <1>1, <1>5, <2>2, <3>1, OnwardBears DEF Unborn
  <2>3. CASE g[1] # p
    BY <1>9, <1>10, <2>1, <2>3 DEF Unborn
  <2>4. QED
    BY <2>2, <2>3
<1>11. ASSUME NEW g \in Gen, Guarded(g)' PROVE Guarded(g) /\ proc'[g[1]].pc = proc[g[1]].pc
  <2>1. g[1] \in Proc
    BY Generations
  <2>2. g[1] # p
    BY <1>5, <1>8, <1>11 DEF Guarded, ActiveIn, Building
  <2>3. QED
    BY <1>1, <1>9, <1>11, <2>1, <2>2 DEF Guarded
<1>12. ASSUME NEW g \in Gen, Released(g) PROVE Released(g)'
  BY <1>10, <1>11, <1>12 DEF Released
<1>13. Shape'
  BY <1>1, <1>4, <1>8, <1>9 DEF Shape
<1>14. OneClaim'
  BY <1>1 DEF Admitted, OneClaim
<1>15. UnbornIsBlank'
  BY <1>1, <1>10 DEF Admitted, UnbornIsBlank
<1>16. GuardedIsBuilt'
  BY <1>1, <1>11 DEF Admitted, GuardedIsBuilt
<1>17. OnlyReleased'
  <2>1. ASSUME NEW q \in Proc, NEW g \in Gen, Refers(proc'[q], g) PROVE Released(g)'
    BY <1>4, <1>8, <1>9, <1>12, <2>1 DEF Admitted, OnlyReleased
  <2>2. ASSUME NEW q \in Proc, NEW g \in Gen, Knows(proc'[q], g) PROVE ~Unborn(g)'
    BY <1>4, <1>8, <1>9, <1>10, <2>2 DEF Admitted, OnlyReleased
  <2>3. QED
    BY <2>1, <2>2 DEF OnlyReleased
<1>18. QED
  BY <1>13, <1>14, <1>15, <1>16, <1>17 DEF Admitted

LEMMA TickNext ==
    ASSUME Admitted, Tick
    PROVE  Admitted'
<1>1. /\ now' \in 0 .. MaxTime /\ now' = now + 1 /\ now \in Nat
      /\ UNCHANGED <<parent, gen, expires, proc, crashes>>
  BY AdmissionAssumption DEF Admitted, Shape, Tick
<1>2. ASSUME NEW g \in Gen PROVE (Unborn(g)' <=> Unborn(g)) /\ (Guarded(g)' => Guarded(g))
  <2>1. expires[g] \in Int
    BY AdmissionAssumption DEF Admitted, Shape
  <2>2. QED
    BY <1>1, <2>1 DEF Unborn, Guarded
<1>3. ASSUME NEW g \in Gen, Released(g) PROVE Released(g)'
  BY <1>2, <1>3 DEF Released
<1>4. Shape'
  BY <1>1 DEF Admitted, Shape
<1>5. OneClaim' /\ UnbornIsBlank' /\ GuardedIsBuilt'
  BY <1>1, <1>2 DEF Admitted, OneClaim, UnbornIsBlank, GuardedIsBuilt
<1>6. OnlyReleased'
  BY <1>1, <1>2, <1>3 DEF Admitted, OnlyReleased
<1>7. QED
  BY <1>4, <1>5, <1>6 DEF Admitted

-----------------------------------------------------------------------------
(* The invariant and what follows.                                         *)

LEMMA AdmittedInit ==
    ASSUME Init
    PROVE  Admitted
<1>1. /\ now = 0 /\ parent = FALSE /\ crashes = 0 /\ gen = [g \in Gen |-> Nothing]
      /\ expires = [g \in Gen |-> 0] /\ proc = [p \in Proc |-> Idle(0, 1, "none")]
  BY DEF Init
<1>2. 1 \in 1 .. MaxElection /\ "none" \in Answer /\ "idle" \in PC
  BY AdmissionAssumption DEF Answer, PC
<1> DEFINE d == Idle(0, 1, "none")
<1>3. {} \in SUBSET (Gen \X Places)
  OBVIOUS
<1>4. d \in Register
  BY <1>2, <1>3 DEF Idle, Register
<1>5. /\ d.pc = "idle" /\ d.queue = {} /\ d.holder = NoGen /\ d.retired = NoGen
      /\ d.expected = NoGen
  BY DEF Idle
<1> HIDE DEF d
<1>6. \A p \in Proc : proc[p] = d
  BY <1>1 DEF d
<1>7. \A p \in Proc : Sane(p, d)
  BY <1>4, <1>5 DEF Sane, Looking, Dropping, Expecting
<1>8. \A g \in Gen : ~Refers(d, g) /\ ~Knows(d, g)
  BY <1>5, NoneIsHeld DEF Refers, Knows, Dropping, Expecting
<1>9. Shape
  <2>1. proc \in [Proc -> Register]
    BY <1>1, <1>4 DEF d
  <2>2. gen \in [Gen -> Files] /\ \A g \in Gen : Ordered(gen[g])
    BY <1>1, NothingIsOrdered
  <2>3. expires \in [Gen -> 0 .. MaxTime + Skew + AdmissionTTL]
    BY <1>1, AdmissionAssumption
  <2>4. now \in 0 .. MaxTime /\ crashes \in 0 .. MaxCrash
    BY <1>1, AdmissionAssumption
  <2>5. QED
    BY <1>1, <1>6, <1>7, <2>1, <2>2, <2>3, <2>4 DEF Shape
<1>10. OneClaim /\ UnbornIsBlank
  BY <1>1, NothingIsOrdered DEF OneClaim, UnbornIsBlank
<1>11. \A g \in Gen : ~Guarded(g)
  BY <1>5, <1>6, Generations DEF Guarded, ActiveIn, Building
<1>12. GuardedIsBuilt /\ OnlyReleased
  BY <1>6, <1>8, <1>11 DEF GuardedIsBuilt, OnlyReleased
<1>13. QED
  BY <1>9, <1>10, <1>12 DEF Admitted

LEMMA StepNext ==
    ASSUME Admitted, NEW p \in Proc, Step(p)
    PROVE  Admitted'
<1>1. CASE ListCandidates(p) \/ Sweep(p) \/ Quarantine(p) \/ InspectRecord(p) \/ RemoveRecord(p)
           \/ InspectDir(p) \/ RemoveDir(p) \/ RemoveCandidate(p)
  BY <1>1, ListNext, SweepNext, QuarantineNext, InspectsNext, RemoveRecordNext, RemoveDirNext,
     RemoveCandidateNext
<1>2. CASE ReadClaim(p) \/ ReadTombstone(p) \/ Decide(p) \/ ClearParent(p) \/ Elect(p)
           \/ ElectLost(p)
  BY <1>2, ReadsNext, ReadTombstoneNext, DecideNext, ClearParentNext, ElectNext, ElectLostNext
<1>3. CASE Help(p) \/ HelpClaim(p) \/ HelpTombstone(p) \/ Link(p) \/ LinkClaim(p)
           \/ LinkTombstone(p) \/ Unlink(p) \/ InspectTombstone(p) \/ RemoveTombstone(p) \/ Raw(p)
           \/ RemoveMarker(p) \/ RemoveGeneration(p) \/ RemoveParent(p)
  BY <1>3, HelpNext, ReadsNext, HelpTombstoneNext, LinkNext, LinkTombstoneNext, UnlinkNext,
     InspectTombstoneNext, RemoveTombstoneNext, RawNext, RemoveMarkerNext, RemoveGenerationNext,
     RemoveParentNext
<1>4. CASE MakeCandidate(p) \/ MakeDir(p) \/ OpenRecord(p) \/ WriteRecord(p) \/ Publish(p)
           \/ NotPublished(p) \/ Operate(p) \/ Finish(p) \/ Retire(p) \/ Mark(p)
  BY <1>4, MakeCandidateNext, MakeDirNext, OpenRecordNext, WriteRecordNext, PublishNext,
     NotPublishedNext, OperateNext, FinishNext, RetireNext, MarkNext
<1>5. QED
  BY <1>1, <1>2, <1>3, <1>4 DEF Step

LEMMA AdmittedNext ==
    ASSUME Admitted, [Next]_vars
    PROVE  Admitted'
<1>1. CASE Next
  BY <1>1, TickNext, CallNext, StepNext, CrashNext DEF Next
<1>2. CASE UNCHANGED vars
  <2>1. UNCHANGED <<now, parent, gen, expires, crashes>> /\ UNCHANGED proc
    BY <1>2 DEF vars
  <2>2. /\ \A g \in Gen : (Unborn(g)' <=> Unborn(g)) /\ (Guarded(g)' <=> Guarded(g))
    BY <2>1 DEF Unborn, Guarded
  <2>3. Shape' /\ OneClaim' /\ UnbornIsBlank' /\ GuardedIsBuilt'
    BY <2>1, <2>2 DEF Admitted, Shape, OneClaim, UnbornIsBlank, GuardedIsBuilt
  <2>4. OnlyReleased'
    BY <2>1, <2>2 DEF Admitted, OnlyReleased, Released
  <2>5. QED
    BY <2>3, <2>4 DEF Admitted
<1>3. QED
  BY <1>1, <1>2

\* At every moment each process is excluded from the generations others rely
\* on.
LEMMA AlwaysAdmitted == Spec => []Admitted
<1>1. Init => Admitted
  BY AdmittedInit
<1>2. Admitted /\ [Next]_vars => Admitted'
  BY AdmittedNext
<1>3. QED
  BY <1>1, <1>2, PTL DEF Spec

\* What publishing, sweeping, helping and retiring leave in the admission
\* directory (withAdmission) is well formed, and one generation is published
\* at most.
THEOREM TypeCorrect == Spec => []TypeOK
<1>1. ASSUME Admitted PROVE TypeOK
  <2> DEFINE S == {g \in Gen : gen[g].place = "claim"}
  <2>1. CASE S = {}
    <3>1. Cardinality(S) = 0
      BY <2>1, FS_EmptySet
    <3>2. QED
      BY <3>1, <1>1 DEF TypeOK, Admitted, Shape, Ordered, Register, Me
  <2>2. CASE S # {}
    <3>1. PICK g \in Gen : gen[g].place = "claim"
      BY <2>2
    <3>2. S = {g} /\ parent
      BY <1>1, <3>1 DEF Admitted, OneClaim
    <3>3. Cardinality(S) = 1
      BY <3>2, FS_Singleton
    <3>4. QED
      BY <3>2, <3>3, <1>1 DEF TypeOK, Admitted, Shape, Ordered, Register, Me
  <2>3. QED
    BY <2>1, <2>2
<1>2. QED
  BY <1>1, AlwaysAdmitted, PTL

\* Whoever works under an admission that has not expired by its own clock
\* (withAdmission, its operation) has its record published, whole and not
\* elected for retirement, whatever any number of other processes sweep, help
\* and retire, and wherever they died.
THEOREM HolderPublished == Spec => []HolderIsPublished
<1>1. ASSUME Admitted PROVE HolderIsPublished
  <2>1. ASSUME NEW p \in Proc, At(p, "operate"), Clock(p) < expires[Mine(p)]
        PROVE  gen[Mine(p)] = Built("operate")
    <3>1. Mine(p) \in Gen /\ Mine(p) = <<p, proc[p].call, proc[p].attempt>>
      BY <1>1, <2>1, OwnGeneration DEF At
    <3>2. now < expires[Mine(p)]
      <4>1. Offset[p] \in 0 .. Skew /\ Skew \in Nat /\ MaxTime \in Nat /\ AdmissionTTL \in Nat
        BY AdmissionAssumption
      <4>2. now \in 0 .. MaxTime /\ expires[Mine(p)] \in 0 .. MaxTime + Skew + AdmissionTTL
        BY <1>1, <3>1 DEF Admitted, Shape
      <4>3. QED
        BY <2>1, <4>1, <4>2 DEF Clock
    <3>3. Guarded(Mine(p))
      BY <2>1, <3>1, <3>2 DEF Guarded, ActiveIn, At, Building
    <3>4. QED
      BY <1>1, <2>1, <3>1, <3>3 DEF Admitted, GuardedIsBuilt, At
  <2>2. /\ Built("operate").place = "claim" /\ Built("operate").record = "full"
        /\ ~Built("operate").tomb /\ ~Built("operate").marker
    <3>1. "operate" \in Building
      BY DEF Building
    <3>2. QED
      BY <3>1, BuiltFields
  <2>3. QED
    BY <2>1, <2>2 DEF HolderIsPublished
<1>2. QED
  BY <1>1, AlwaysAdmitted, PTL

=============================================================================
