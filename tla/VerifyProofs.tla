----------------------------- MODULE VerifyProofs -----------------------------
(***************************************************************************)
(* Theorems about Verify, for any callers, predicates, standards, contents *)
(* and bounds.                                                             *)
(*                                                                         *)
(* The invariant says what an attestation is worth: one by hand names a    *)
(* revision, and one that a runner signed names content that some revision *)
(* has, on which the tests pass if it says so.  What a standard makes of   *)
(* them is then read off Evaluate.                                         *)
(***************************************************************************)
EXTENDS Verify, Groundwork, FiniteSetTheorems, TLAPS

Rev == [snap : Snapshot, own : Nat, prev : Nat, parents : Seq(Nat)]

Request == [rev : Nat, status : {"active", "resolved", "declined"}]

Fields == {"revs", "trunk", "cur", "atts", "requests", "std", "edits"}

\* A revision is later than its parents.  One of the author's has of the other
\* unit what its parent has, and the one a landing derives is of the content
\* that it supersedes.
RevFits(R, r) ==
  /\ \A i \in DOMAIN R[r].parents : R[r].parents[i] \in 1 .. (r - 1)
  /\ R[r].own # 0 => /\ R[r].parents # << >>
                     /\ R[R[r].parents[1]].snap.other = R[r].snap.other
  /\ R[r].own # 0 /\ Inherits(R[r]) => R[R[r].prev].own = R[r].own

\* Some revision has the function and the test of s.
Held(R, s) == \E r \in DOMAIN R : R[r].snap.fn = s.fn /\ R[r].snap.t = s.t

Pair(s) == {<<"t", s.t>>, <<"fn", s.fn>>}

\* The kinds that are proved by tests that fail on the parent.
NewKinds == {Def[n].name : n \in {m \in DOMAIN Def : Def[m].kind = "attest" /\ Def[m].for = "new_tests"}}

\* A planned run names what it will have run.
RunFits(R, run) ==
  /\ run.kind \in Tools
  /\ \E s \in Snapshot :
       /\ Held(R, s)
       /\ \/ /\ run.how = "suite" /\ run.fn = s.fn /\ run.t = s.t
             /\ run.subject \in {Nobody, SnapRef(s)} /\ run.bodies \subseteq Pair(s)
          \/ /\ run.how = "new" /\ run.kind \in NewKinds
             /\ run.subject = Nobody /\ run.bodies = {<<"t", s.t>>}

\* A suite that is said to pass passes.
OutFits(run, out) == out.ok /\ out.whole /\ run.how = "suite" => TestPasses(run.t, run.fn)

SignedFits(R, a) ==
  /\ a.runner = Owner /\ a.kind \in Tools
  /\ \E s \in Snapshot :
       /\ Held(R, s) /\ a.subject \in {Nobody, SnapRef(s)} /\ a.bodies \subseteq Pair(s)
       /\ \/ a.kind \in NewKinds /\ a.subject = Nobody /\ a.bodies = {<<"t", s.t>>}
          \/ a.whole /\ a.result => TestPasses(s.t, s.fn)

ByHandFits(a) ==
  /\ a.runner = Nobody /\ a.subject \in {"revision"} \X Nat
  /\ a.kind = "approval.human" => a.verifier = Human

AttsFit(rp) == \A a \in rp.atts : ByHandFits(a) \/ SignedFits(rp.revs, a)

RevsFit(R) == R \in Seq(Rev) /\ \A r \in DOMAIN R : RevFits(R, r)

\* An open request is the only one about its revision.
RequestsFit(rp) ==
  /\ rp.requests \in Seq(Request)
  /\ \A i, j \in DOMAIN rp.requests :
       (rp.requests[i] = rp.requests[j] /\ rp.requests[i].status = "active") => i = j

Good(rp) ==
  /\ DOMAIN rp = Fields /\ rp.std \in Standards
  /\ RevsFit(rp.revs) /\ AttsFit(rp) /\ RequestsFit(rp)
  /\ rp.trunk \in DOMAIN rp.revs /\ rp.cur \in DOMAIN rp.revs /\ rp.revs[rp.cur].own # 0

\* A verify under way, with what its tools said so far.
CallFits(R, k) ==
  /\ DOMAIN k = {"pc", "rev", "runs", "outs", "saw"} /\ k.rev \in Nat
  /\ DOMAIN k.runs \subseteq Nat /\ \A i \in DOMAIN k.runs : RunFits(R, k.runs[i])
  /\ DOMAIN k.outs \subseteq DOMAIN k.runs
  /\ \A i \in DOMAIN k.outs : OutFits(k.runs[i], k.outs[i])
  /\ k.pc \in {"ready", "tool"} => DOMAIN k.outs # DOMAIN k.runs

IInv ==
  /\ Good(repo) /\ DOMAIN call = Caller
  /\ \A c \in Caller : CallFits(repo.revs, call[c])

-----------------------------------------------------------------------------
(***************************************************************************)
(* The program under change, and what evaluate gathers.                    *)
(***************************************************************************)

\* The units of a snapshot are these.
LEMMA UnitsAre ==
  ASSUME NEW s, NEW u \in Units(s)
  PROVE  \/ u.nid = "fn" /\ u.kind = "function" /\ u.body = <<"fn", s.fn>>
         \/ /\ u.nid = "other" /\ u.kind = "function" /\ u.body = <<"other", s.other>>
            /\ u.name = "other"
         \/ /\ u.nid = "t0" /\ u.kind = "test" /\ u.body = <<"t0", 1>> /\ u.name = "t0"
            /\ u.deps = {"other"}
         \/ /\ u.nid = "t" /\ u.kind = "test" /\ u.body = <<"t", s.t>> /\ s.t # 0
            /\ u.deps = {"fn"}
  BY DEF Units, Unit

\* What a change leaves of the other unit is not changed.
LEMMA ChangedAre ==
  ASSUME NEW s, NEW b, s.other = b.other, NEW c, c.units = Units(s), c.before = Units(b),
         NEW u \in ChangedUnits(c)
  PROVE  u \in Units(s) /\ u.nid \in {"fn", "t"} /\ u.body \in Pair(s)
<1>1. u \in Units(s) /\ \A p \in Units(b) : p.nid = u.nid => p.body # u.body \/ p.name # u.name
  BY DEF ChangedUnits
<1>2. /\ Unit("other", "function", <<"other", b.other>>, {}) \in Units(b)
      /\ Unit("t0", "test", <<"t0", 1>>, {"other"}) \in Units(b)
  BY DEF Units
<1>3. u.nid # "other"
  <2>1. SUFFICES ASSUME u.nid = "other" PROVE FALSE
    OBVIOUS
  <2>2. u.body = <<"other", b.other>> /\ u.name = "other"
    BY <1>1, <2>1, UnitsAre
  <2> QED
    BY <1>1, <1>2, <2>1, <2>2 DEF Unit
<1>4. u.nid # "t0"
  <2>1. SUFFICES ASSUME u.nid = "t0" PROVE FALSE
    OBVIOUS
  <2>2. u.body = <<"t0", 1>> /\ u.name = "t0"
    BY <1>1, <2>1, UnitsAre
  <2> QED
    BY <1>1, <1>2, <2>1, <2>2 DEF Unit
<1> QED
  BY <1>1, <1>3, <1>4, UnitsAre DEF Pair

\* The tests that are selected, and what they cover, are of the pair.
LEMMA SelectedFits ==
  ASSUME NEW s, NEW b, s.other = b.other, NEW full
  PROVE  Selected(s, b, full).bodies \subseteq Pair(s)
<1> DEFINE c       == [units |-> Units(s), before |-> Units(b)]
           changed == ChangedUnits(c)
           picked  == UNION {IF u.kind = "test" THEN {u} ELSE Covering(s, u) : u \in changed}
           covered == changed # {} /\ \A u \in changed : u.kind = "test" \/ Covering(s, u) # {}
           few     == ~full /\ covered /\ Cardinality(picked) < Cardinality(Tests(s))
<1>1. Selected(s, b, full) = IF few THEN [tests |-> picked, bodies |-> {u.body : u \in picked \cup changed}]
                             ELSE [tests |-> {}, bodies |-> {}]
  BY DEF Selected
<1>2. \A u \in changed : u \in Units(s) /\ u.nid \in {"fn", "t"} /\ u.body \in Pair(s)
  BY ChangedAre
<1> HIDE DEF c, changed
<1>3. ASSUME NEW u \in changed, NEW t \in Covering(s, u)
      PROVE  t.body \in Pair(s)
  BY <1>2, <1>3, UnitsAre DEF Covering, Tests, Pair
<1>4. \A t \in picked : t.body \in Pair(s)
  BY <1>2, <1>3
<1> HIDE DEF picked, few
<1> QED
  BY <1>1, <1>2, <1>4

\* What counts on a revision names one of its subjects, and those count.
LEMMA SubjectsAre ==
  ASSUME NEW rp, NEW id, NEW rev, NEW a
  PROVE  OnSubject(Context(rp, id, rev), a)
           <=> \/ a.subject \in {RevRef(id), SnapRef(rev.snap)}
               \/ Inherits(rev) /\ a.subject = RevRef(rev.prev)
<1>1. Context(rp, id, rev).subjects = SubjectsOf(id, rev)
  BY DEF Context
<1>2. OnSubject(Context(rp, id, rev), a)
        <=> \E i \in DOMAIN SubjectsOf(id, rev) : SubjectsOf(id, rev)[i] = a.subject
  BY <1>1 DEF OnSubject, Ranks
<1> QED
  BY <1>2 DEF SubjectsOf

-----------------------------------------------------------------------------
(***************************************************************************)
(* What is written under the lock.                                         *)
(***************************************************************************)

\* The revisions are kept.
Keeps(R, Q) == DOMAIN R \subseteq DOMAIN Q /\ \A r \in DOMAIN R : Q[r] = R[r]

\* The revisions, the line and the standard are as they were.
Same(rp, q) == q.revs = rp.revs /\ q.trunk = rp.trunk /\ q.cur = rp.cur /\ q.std = rp.std

\* What an attestation or a run names stays when there are more revisions.
LEMMA HeldStays ==
  ASSUME NEW R, NEW Q, Keeps(R, Q)
  PROVE  /\ \A run : RunFits(R, run) => RunFits(Q, run)
         /\ \A a : SignedFits(R, a) => SignedFits(Q, a)
         /\ \A k : CallFits(R, k) => CallFits(Q, k)
<1>1. \A s : Held(R, s) => Held(Q, s)
  BY DEF Keeps, Held
<1>2. \A run : RunFits(R, run) => RunFits(Q, run)
  BY <1>1 DEF RunFits
<1>3. \A a : SignedFits(R, a) => SignedFits(Q, a)
  BY <1>1 DEF SignedFits
<1>4. \A k : CallFits(R, k) => CallFits(Q, k)
  BY <1>2 DEF CallFits
<1> QED
  BY <1>2, <1>3, <1>4

\* An attestation by hand.
LEMMA AttestFits ==
  ASSUME NEW rp, Good(rp), NEW a, ByHandFits(a),
         {"kind", "subject", "verifier", "runner"} \subseteq DOMAIN a
  PROVE  /\ Good(Attest(rp, a)) /\ Same(rp, Attest(rp, a))
         /\ Attest(rp, a).requests = rp.requests /\ rp.atts \subseteq Attest(rp, a).atts
<1> DEFINE earlier == {b \in rp.atts : b.kind = a.kind /\ b.runner = Nobody}
           new     == [a EXCEPT !.time = Cardinality(earlier) + 1]
           q       == Attest(rp, a)
<1>1. q = [rp EXCEPT !.atts = @ \cup {new}]
  BY DEF Attest
<1>2. new.kind = a.kind /\ new.subject = a.subject /\ new.verifier = a.verifier /\ new.runner = a.runner
  OBVIOUS
<1> HIDE DEF new, q
<1>3. ByHandFits(new)
  BY <1>2 DEF ByHandFits
<1>4. /\ DOMAIN q = Fields /\ Same(rp, q) /\ q.requests = rp.requests
      /\ q.atts = rp.atts \cup {new}
  BY <1>1 DEF Good, Fields, Same
<1>5. AttsFit(q)
  BY <1>3, <1>4 DEF Good, AttsFit, Same
<1>6. RequestsFit(q)
  BY <1>4 DEF Good, RequestsFit
<1>7. Good(q)
  BY <1>4, <1>5, <1>6 DEF Good, Same
<1> QED
  BY <1>4, <1>7 DEF q

\* A risk is one.
LEMMA RiskFits ==
  ASSUME NEW rp, Good(rp), NEW id \in Nat, NEW rev
  PROVE  /\ Good(EnsureRisk(rp, id, rev)) /\ Same(rp, EnsureRisk(rp, id, rev))
         /\ EnsureRisk(rp, id, rev).requests = rp.requests
         /\ rp.atts \subseteq EnsureRisk(rp, id, rev).atts
<1> DEFINE level == RiskLevel[rev.snap, ParentSnap(rp, rev)]
           a     == [Attestation("risk.change", RevRef(id), {}, FALSE, Owner, Nobody) EXCEPT !.level = level]
<1>1. CASE \E b \in rp.atts : b.kind = "risk.change" /\ b.subject = RevRef(id)
  BY <1>1 DEF EnsureRisk, Same
<1>2. CASE ~ \E b \in rp.atts : b.kind = "risk.change" /\ b.subject = RevRef(id)
  <2>1. EnsureRisk(rp, id, rev) = Attest(rp, a)
    BY <1>2 DEF EnsureRisk
  <2> HIDE DEF level
  <2>2. /\ a.kind = "risk.change" /\ a.subject = RevRef(id) /\ a.runner = Nobody
        /\ {"kind", "subject", "verifier", "runner"} \subseteq DOMAIN a
    BY DEF Attestation
  <2> HIDE DEF a
  <2>3. ByHandFits(a)
    BY <2>2 DEF ByHandFits, RevRef
  <2> QED
    BY <2>1, <2>2, <2>3, AttestFits
<1> QED
  BY <1>1, <1>2

\* What a sequence is with one more.
LEMMA OneMore ==
  ASSUME NEW S, NEW s \in Seq(S), NEW e \in S
  PROVE  /\ Append(s, e) \in Seq(S) /\ Len(s) \in Nat /\ DOMAIN s = 1 .. Len(s)
         /\ DOMAIN Append(s, e) = 1 .. (Len(s) + 1) /\ Append(s, e)[Len(s) + 1] = e
         /\ \A i \in DOMAIN s : Append(s, e)[i] = s[i]
  BY AppendProperties, LenProperties

\* The humans are asked of a revision once while the question is open.
LEMMA RequestFits ==
  ASSUME NEW rp, Good(rp), NEW id \in Nat, NEW rev, NEW c, NEW unmet
  PROVE  /\ Good(EnsureRequest(rp, id, rev, c, unmet))
         /\ Same(rp, EnsureRequest(rp, id, rev, c, unmet))
         /\ rp.atts \subseteq EnsureRequest(rp, id, rev, c, unmet).atts
<1> DEFINE risked == EnsureRisk(rp, id, rev)
           new    == [rev |-> id, status |-> "active"]
           q      == [risked EXCEPT !.requests = Append(@, new)]
<1>1. /\ Good(risked) /\ Same(rp, risked) /\ risked.requests = rp.requests
      /\ rp.atts \subseteq risked.atts
  BY RiskFits
<1>2. EnsureRequest(rp, id, rev, c, unmet) \in {rp, risked, q}
      /\ (EnsureRequest(rp, id, rev, c, unmet) \in {rp, risked} \/ ~AlreadyAsked(rp, id))
  BY DEF EnsureRequest
<1> HIDE DEF risked
<1>3. ASSUME ~AlreadyAsked(rp, id)
      PROVE  Good(q) /\ Same(rp, q) /\ rp.atts \subseteq q.atts
  <2>1. /\ DOMAIN q = Fields /\ Same(risked, q) /\ q.atts = risked.atts
        /\ q.requests = Append(rp.requests, new)
    BY <1>1 DEF Good, Fields, Same
  <2>2. rp.requests \in Seq(Request) /\ new \in Request
    BY DEF Good, RequestsFit, Request
  <2>. HIDE DEF q, new
  <2>3. /\ q.requests \in Seq(Request) /\ DOMAIN q.requests = 1 .. (Len(rp.requests) + 1)
        /\ q.requests[Len(rp.requests) + 1] = new /\ DOMAIN rp.requests = 1 .. Len(rp.requests)
        /\ Len(rp.requests) \in Nat
        /\ \A i \in DOMAIN rp.requests : q.requests[i] = rp.requests[i]
    BY <2>1, <2>2, OneMore
  <2>4. \A i \in DOMAIN rp.requests : rp.requests[i] # new
    BY <1>3 DEF AlreadyAsked, new
  <2>5. ASSUME NEW i \in DOMAIN q.requests, NEW j \in DOMAIN q.requests,
               q.requests[i] = q.requests[j], q.requests[i].status = "active"
        PROVE  i = j
    <3>1. \A k \in DOMAIN q.requests : k \in DOMAIN rp.requests \/ k = Len(rp.requests) + 1
      BY <2>3
    <3>2. i \in DOMAIN rp.requests <=> j \in DOMAIN rp.requests
      BY <2>3, <2>4, <2>5, <3>1
    <3>3. CASE i \in DOMAIN rp.requests
      BY <2>3, <2>5, <3>2, <3>3 DEF Good, RequestsFit
    <3>4. CASE i \notin DOMAIN rp.requests
      BY <3>1, <3>2, <3>4
    <3> QED
      BY <3>3, <3>4
  <2>6. RequestsFit(q)
    BY <2>3, <2>5 DEF RequestsFit
  <2>7. AttsFit(q)
    BY <1>1, <2>1 DEF Good, AttsFit, Same
  <2>8. Good(q)
    BY <1>1, <2>1, <2>6, <2>7 DEF Good, Same
  <2> QED
    BY <1>1, <2>1, <2>8 DEF Same
<1>4. Same(rp, rp)
  BY DEF Same
<1> HIDE DEF q
<1> QED
  BY <1>1, <1>2, <1>3, <1>4

\* A change that has landed takes its open questions with it.
LEMMA CloseFits ==
  ASSUME NEW rp, Good(rp), NEW id
  PROVE  /\ Good(CloseRequests(rp, id)) /\ Same(rp, CloseRequests(rp, id))
         /\ CloseRequests(rp, id).atts = rp.atts
<1> DEFINE q    == CloseRequests(rp, id)
           R    == rp.requests
           n(i) == IF R[i].rev = id /\ R[i].status = "active" THEN [R[i] EXCEPT !.status = "resolved"]
                   ELSE R[i]
<1>1. /\ DOMAIN q = Fields /\ Same(rp, q) /\ q.atts = rp.atts
      /\ q.requests = [i \in DOMAIN R |-> n(i)]
  BY DEF CloseRequests, Good, Fields, Same
<1> HIDE DEF q
<1>2. R \in Seq(Request) /\ Len(R) \in Nat /\ DOMAIN R = 1 .. Len(R) /\ \A i \in DOMAIN R : R[i] \in Request
  BY LenProperties, ElementOfSeq DEF Good, RequestsFit
<1>3. \A i \in DOMAIN R : n(i) \in Request /\ (n(i).status = "active" => n(i) = R[i])
  BY <1>2 DEF Request
<1> HIDE DEF n
<1>4. q.requests \in [1 .. Len(R) -> Request]
  BY <1>1, <1>2, <1>3
<1>5. q.requests \in Seq(Request) /\ DOMAIN q.requests = DOMAIN R
  BY <1>2, <1>4, SeqDef
<1>6. ASSUME NEW i \in DOMAIN R, NEW j \in DOMAIN R,
             q.requests[i] = q.requests[j], q.requests[i].status = "active"
      PROVE  i = j
  <2>1. q.requests[i] = n(i) /\ q.requests[j] = n(j)
    BY <1>1
  <2>2. R[i] = R[j] /\ R[i].status = "active"
    BY <1>3, <1>6, <2>1
  <2> QED
    BY <2>2 DEF Good, RequestsFit
<1>7. RequestsFit(q)
  BY <1>5, <1>6 DEF RequestsFit
<1>8. Good(q)
  BY <1>1, <1>7 DEF Good, AttsFit, Same
<1> QED
  BY <1>1, <1>8 DEF q

\* What runs attest is so when they were planned of what some revision has, and
\* their tools said what is so.
LEMMA RecordFits ==
  ASSUME NEW rp, Good(rp), NEW runs, NEW outs,
         \A i \in DOMAIN outs : RunFits(rp.revs, runs[i]) /\ OutFits(runs[i], outs[i])
  PROVE  /\ Good(RecordAll(rp, runs, outs)) /\ Same(rp, RecordAll(rp, runs, outs))
         /\ \A a \in RecordAll(rp, runs, outs).atts : 
               a \in rp.atts \/ (a.runner = Owner /\ a.kind \in Tools)
         /\ rp.atts \subseteq RecordAll(rp, runs, outs).atts
<1> DEFINE q == RecordAll(rp, runs, outs)
<1>1. /\ DOMAIN q = Fields /\ Same(rp, q) /\ q.requests = rp.requests
      /\ q.atts = rp.atts \cup {Recorded(runs[i], outs[i]) : i \in Started(outs)}
  BY DEF RecordAll, Good, Fields, Same
<1> HIDE DEF q
<1>2. ASSUME NEW run, NEW out, RunFits(rp.revs, run), OutFits(run, out)
      PROVE  SignedFits(rp.revs, Recorded(run, out))
  <2> DEFINE a == Recorded(run, out)
  <2>1. /\ a.kind = run.kind /\ a.subject = run.subject /\ a.bodies = run.bodies
        /\ a.result = out.ok /\ a.whole = out.whole /\ a.runner = Owner
    BY DEF Recorded, Attestation
  <2> HIDE DEF a
  <2>2. PICK s \in Snapshot :
           /\ Held(rp.revs, s)
           /\ \/ /\ run.how = "suite" /\ run.fn = s.fn /\ run.t = s.t
                 /\ run.subject \in {Nobody, SnapRef(s)} /\ run.bodies \subseteq Pair(s)
              \/ /\ run.how = "new" /\ run.kind \in NewKinds
                 /\ run.subject = Nobody /\ run.bodies = {<<"t", s.t>>}
    BY <1>2 DEF RunFits
  <2>3. {<<"t", s.t>>} \subseteq Pair(s)
    BY DEF Pair
  <2>4. run.how = "suite" /\ a.whole /\ a.result => TestPasses(run.t, run.fn)
    BY <1>2, <2>1 DEF OutFits
  <2>5. a.kind \in Tools
    BY <1>2, <2>1 DEF RunFits
  <2>6. SignedFits(rp.revs, a)
    BY <2>1, <2>2, <2>3, <2>4, <2>5 DEF SignedFits
  <2> QED
    BY <2>6 DEF a
<1>3. \A i \in Started(outs) : SignedFits(rp.revs, Recorded(runs[i], outs[i]))
  BY <1>2 DEF Started
<1>4. AttsFit(q)
  BY <1>1, <1>3 DEF Good, AttsFit, Same
<1>5. Good(q)
  BY <1>1, <1>4 DEF Good, RequestsFit, Same
<1>6. \A a \in q.atts : a \in rp.atts \/ (a.runner = Owner /\ a.kind \in Tools)
  BY <1>1, <1>3 DEF SignedFits
<1> QED
  BY <1>1, <1>5, <1>6 DEF q

\* A revision whose parent has its other unit, and whose function and test some
\* revision has, is planned for what it is.
LEMMA PlanFits ==
  ASSUME NEW rp, NEW id, NEW rev, NEW full, rev.snap \in Snapshot, Held(rp.revs, rev.snap),
         ParentSnap(rp, rev).other = rev.snap.other
  PROVE  /\ DOMAIN PlanRuns(rp, id, rev, full) \subseteq Nat
         /\ \A i \in DOMAIN PlanRuns(rp, id, rev, full) : RunFits(rp.revs, PlanRuns(rp, id, rev, full)[i])
<1> DEFINE before == ParentSnap(rp, rev)
           c      == Context(rp, id, rev)
           unmet  == Status(rp, id, rev)
           wanted == {n \in RequiredAttestations(Chain(rp)) :
                        /\ Needed(unmet, n, full)
                        /\ Def[n].name \in Tools
                        /\ Def[n].for = "new_tests" => NewTests(c) # {}}
<1>1. PlanRuns(rp, id, rev, full)
        = [i \in {j \in DOMAIN Order : Order[j] \in wanted} |-> RunOf(Order[i], rev, before, full)]
  BY DEF PlanRuns
<1>2. \A n \in wanted : Def[n].kind = "attest" /\ Def[n].name \in Tools
  BY DEF RequiredAttestations
<1> HIDE DEF wanted
<1>3. DOMAIN Order \subseteq Nat /\ \A i \in DOMAIN Order : Order[i] \in DOMAIN Def
  BY PartiesAssumption, LenProperties, ElementOfSeq
<1>4. ASSUME NEW n \in wanted, n \in DOMAIN Def
      PROVE  RunFits(rp.revs, RunOf(n, rev, before, full))
  <2> DEFINE s   == rev.snap
             sel == Selected(s, before, full)
             run == RunOf(n, rev, before, full)
  <2>1. Def[n].kind = "attest" /\ Def[n].name \in Tools
    BY <1>2, <1>4
  <2>2. sel.bodies \subseteq Pair(s)
    BY SelectedFits
  <2> HIDE DEF sel, before
  <2>3. CASE Def[n].for = "new_tests"
    <3>1. /\ run.kind = Def[n].name /\ run.how = "new" /\ run.subject = Nobody
          /\ run.bodies = {<<"t", s.t>>}
      BY <2>3 DEF RunOf
    <3> HIDE DEF run
    <3>2. run.kind \in NewKinds
      BY <1>4, <2>1, <2>3, <3>1 DEF NewKinds
    <3>3. RunFits(rp.revs, run)
      BY <2>1, <3>1, <3>2 DEF RunFits
    <3> QED
      BY <3>3 DEF run
  <2>4. CASE Def[n].for # "new_tests"
    <3>1. /\ run.kind = Def[n].name /\ run.how = "suite" /\ run.fn = s.fn /\ run.t = s.t
          /\ run.subject \in {Nobody, SnapRef(s)} /\ run.bodies = sel.bodies
      BY <2>4 DEF RunOf, sel
    <3> HIDE DEF run
    <3>2. RunFits(rp.revs, run)
      BY <2>1, <2>2, <3>1 DEF RunFits
    <3> QED
      BY <3>2 DEF run
  <2> QED
    BY <2>3, <2>4
<1> QED
  BY <1>1, <1>3, <1>4

\* The answer of a verify.
LEMMA CompleteFits ==
  ASSUME NEW rp, Good(rp), NEW id \in Nat
  PROVE  /\ Good(Complete(rp, id)) /\ Same(rp, Complete(rp, id)) /\ rp.atts \subseteq Complete(rp, id).atts
<1> DEFINE rev    == rp.revs[id]
           risked == EnsureRisk(rp, id, rev)
           done   == EnsureRequest(risked, id, rev, Context(risked, id, rev), Status(risked, id, rev))
<1>1. Good(risked) /\ Same(rp, risked) /\ rp.atts \subseteq risked.atts
  BY RiskFits
<1>2. Complete(rp, id) = done
  BY DEF Complete
<1> HIDE DEF risked
<1>3. Good(done) /\ Same(risked, done) /\ risked.atts \subseteq done.atts
  BY <1>1, RequestFits
<1> QED
  BY <1>1, <1>2, <1>3 DEF Same

\* What the author works on is planned for what it is.
LEMMA AuthorsFit ==
  ASSUME NEW rp, Good(rp), NEW r \in DOMAIN rp.revs
  PROVE  /\ rp.revs[r] \in Rev /\ Held(rp.revs, rp.revs[r].snap) /\ r \in Nat
         /\ rp.revs[r].own # 0 => ParentSnap(rp, rp.revs[r]).other = rp.revs[r].snap.other
<1>1. rp.revs \in Seq(Rev) /\ RevFits(rp.revs, r)
  BY DEF Good, RevsFit
<1>2. rp.revs[r] \in Rev /\ r \in Nat
  BY <1>1, LenProperties, ElementOfSeq
<1> QED
  BY <1>1, <1>2 DEF RevFits, Held, ParentSnap

-----------------------------------------------------------------------------
(***************************************************************************)
(* The steps.                                                              *)
(***************************************************************************)

\* A step under the lock that no verify under way is part of.
LEMMA CallsStay ==
  ASSUME IInv, Good(repo'), Keeps(repo.revs, repo'.revs), call' = call
  PROVE  IInv'
<1>1. \A c \in Caller : CallFits(repo'.revs, call[c])
  BY HeldStays DEF IInv
<1> QED
  BY <1>1 DEF IInv

\* A verify that holds nothing.
LEMMA IdleFits == ASSUME NEW R PROVE CallFits(R, Idle)
<1>1. /\ DOMAIN Idle = {"pc", "rev", "runs", "outs", "saw"} /\ Idle.rev = 0
      /\ DOMAIN Idle.runs = {} /\ DOMAIN Idle.outs = {} /\ Idle.pc = "idle"
  BY DEF Idle
<1> QED
  BY <1>1 DEF CallFits

\* One more revision.
LEMMA NewRevision ==
  ASSUME NEW rp, Good(rp), NEW rev \in Rev, NEW Q, Q = Append(rp.revs, rev),
         RevFits(Q, Len(rp.revs) + 1)
  PROVE  /\ RevsFit(Q) /\ Keeps(rp.revs, Q) /\ Len(rp.revs) \in Nat
         /\ DOMAIN rp.revs = 1 .. Len(rp.revs) /\ DOMAIN Q = 1 .. (Len(rp.revs) + 1)
         /\ Q[Len(rp.revs) + 1] = rev
<1> DEFINE R == rp.revs
<1>1. R \in Seq(Rev) /\ \A r \in DOMAIN R : RevFits(R, r)
  BY DEF Good, RevsFit
<1> HIDE DEF R
<1>2. /\ Q \in Seq(Rev) /\ Len(R) \in Nat /\ DOMAIN R = 1 .. Len(R)
      /\ DOMAIN Q = 1 .. (Len(R) + 1) /\ Q[Len(R) + 1] = rev
      /\ \A r \in DOMAIN R : Q[r] = R[r]
  BY <1>1, OneMore DEF R
<1>3. Keeps(R, Q)
  BY <1>2 DEF Keeps
<1>4. ASSUME NEW r \in DOMAIN R
      PROVE  RevFits(Q, r)
  <2>1. RevFits(R, r) /\ Q[r] = R[r] /\ r \in Nat /\ R[r] \in Rev
    BY <1>1, <1>2, ElementOfSeq
  <2>2. ASSUME NEW i \in DOMAIN R[r].parents
        PROVE  R[r].parents[i] \in DOMAIN R
    <3>1. R[r].parents[i] \in 1 .. (r - 1)
      BY <2>1 DEF RevFits
    <3>2. r \in 1 .. Len(R)
      BY <1>2
    <3> QED
      BY <1>2, <3>1, <3>2
  <2>3. R[r].parents # << >> => 1 \in DOMAIN R[r].parents
    <3>1. R[r].parents \in Seq(Nat)
      BY <2>1 DEF Rev
    <3> QED
      BY <3>1, LenProperties, EmptySeq
  <2>4. Inherits(R[r]) => R[r].prev \in DOMAIN R
    <3>1. R[r].parents \in Seq(Nat)
      BY <2>1 DEF Rev
    <3>2. Len(R[r].parents) > 1 => 2 \in DOMAIN R[r].parents
      BY <3>1, LenProperties
    <3> QED
      BY <2>2, <3>2 DEF Inherits
  <2>5. R[r].own # 0 => /\ R[r].parents # << >>
                        /\ Q[R[r].parents[1]].snap.other = R[r].snap.other
    BY <1>2, <2>1, <2>2, <2>3 DEF RevFits
  <2>6. R[r].own # 0 /\ Inherits(R[r]) => Q[R[r].prev].own = R[r].own
    BY <1>2, <2>1, <2>4 DEF RevFits
  <2> QED
    BY <2>1, <2>5, <2>6 DEF RevFits
<1>5. \A r \in DOMAIN Q : RevFits(Q, r)
  <2>1. \A r \in DOMAIN Q : r \in DOMAIN R \/ r = Len(R) + 1
    BY <1>2
  <2> QED
    BY <1>4, <2>1 DEF R
<1> QED
  BY <1>2, <1>3, <1>5 DEF RevsFit, R

LEMMA VerifyNowFits == ASSUME IInv, NEW c \in Caller, VerifyNow(c) PROVE IInv'
<1>1. repo.cur \in Nat
  BY AuthorsFit DEF IInv, Good
<1>2. Good(repo') /\ Same(repo, repo')
  BY <1>1, CompleteFits DEF IInv, VerifyNow
<1>3. Keeps(repo.revs, repo'.revs)
  BY <1>2 DEF Same, Keeps
<1> QED
  BY <1>2, <1>3, CallsStay DEF VerifyNow

LEMMA VerifyPlanFits == ASSUME IInv, NEW c \in Caller, VerifyPlan(c) PROVE IInv'
<1>1. PICK runs \in {PlanRuns(repo, repo.cur, repo.revs[repo.cur], repo.std \in Full)} :
        /\ DOMAIN runs # {}
        /\ call' = [call EXCEPT ![c] = [Idle EXCEPT !.pc = "ready", !.rev = repo.cur, !.runs = runs]]
        /\ UNCHANGED repo
  BY DEF VerifyPlan
<1> DEFINE k == [Idle EXCEPT !.pc = "ready", !.rev = repo.cur, !.runs = runs]
<1>2. repo.cur \in DOMAIN repo.revs /\ repo.revs[repo.cur].own # 0 /\ Good(repo)
  BY DEF IInv, Good
<1>3. /\ repo.revs[repo.cur] \in Rev /\ Held(repo.revs, repo.revs[repo.cur].snap)
      /\ repo.cur \in Nat
      /\ ParentSnap(repo, repo.revs[repo.cur]).other = repo.revs[repo.cur].snap.other
  BY <1>2, AuthorsFit
<1>4. DOMAIN runs \subseteq Nat /\ \A i \in DOMAIN runs : RunFits(repo.revs, runs[i])
  BY <1>3, PlanFits DEF Rev
<1>5. /\ DOMAIN k = {"pc", "rev", "runs", "outs", "saw"} /\ k.rev = repo.cur
      /\ k.runs = runs /\ DOMAIN k.outs = {}
  BY DEF Idle
<1> HIDE DEF k
<1>6. CallFits(repo.revs, k)
  BY <1>1, <1>3, <1>4, <1>5 DEF CallFits
<1>7. DOMAIN call = Caller
  BY DEF IInv
<1>8. /\ DOMAIN call' = Caller /\ call'[c] = k
      /\ \A d \in Caller \ {c} : call'[d] = call[d]
  BY <1>1, <1>7 DEF k
<1>9. \A d \in Caller : CallFits(repo.revs, call'[d])
  BY <1>6, <1>8 DEF IInv
<1> QED
  BY <1>1, <1>8, <1>9 DEF IInv

\* What a tool says is kept at the place of its run.
LEMMA OutcomeFits ==
  ASSUME IInv, NEW c \in Caller, call[c].pc \in {"ready", "tool"}, NEW out, OutFits(Run(c), out),
         AddOutcome(c, out), repo' = repo
  PROVE  IInv'
<1> DEFINE k      == call[c]
           places == DOMAIN k.outs \cup {Place(c)}
           outs   == [i \in places |-> IF i = Place(c) THEN out ELSE k.outs[i]]
           pc     == IF places = DOMAIN k.runs THEN "done" ELSE "ready"
           new    == [k EXCEPT !.outs = outs, !.saw = Nobody, !.pc = pc]
<1>1. CallFits(repo.revs, k) /\ DOMAIN call = Caller
  BY DEF IInv
<1>2. Place(c) \in DOMAIN k.runs \ DOMAIN k.outs
  <2>1. DOMAIN k.runs \ DOMAIN k.outs # {} /\ DOMAIN k.runs \ DOMAIN k.outs \subseteq Nat
    BY <1>1 DEF CallFits
  <2>2. \E x \in DOMAIN k.runs \ DOMAIN k.outs : \A y \in DOMAIN k.runs \ DOMAIN k.outs : x <= y
    BY <2>1, LeastNatural
  <2> QED
    BY <2>2 DEF Place, Min
<1>3. call' = [call EXCEPT ![c] = new]
  BY <1>1 DEF AddOutcome
<1>4. /\ DOMAIN new = {"pc", "rev", "runs", "outs", "saw"} /\ new.rev = k.rev
      /\ new.runs = k.runs /\ new.outs = outs /\ new.pc = pc
  BY <1>1 DEF CallFits
<1> HIDE DEF new
<1>5. DOMAIN outs = places /\ \A i \in places : outs[i] = IF i = Place(c) THEN out ELSE k.outs[i]
  OBVIOUS
<1> HIDE DEF outs
<1>6. \A i \in places : OutFits(k.runs[i], outs[i])
  BY <1>1, <1>5 DEF CallFits, Run
<1>7. places \subseteq DOMAIN k.runs
  BY <1>1, <1>2 DEF CallFits
<1> HIDE DEF places
<1>8. CallFits(repo.revs, new)
  BY <1>1, <1>4, <1>5, <1>6, <1>7 DEF CallFits
<1>9. \A d \in Caller : CallFits(repo.revs, call'[d])
  BY <1>1, <1>3, <1>8 DEF IInv
<1> QED
  BY <1>1, <1>3, <1>9 DEF IInv

LEMMA StartToolFits == ASSUME IInv, NEW c \in Caller, StartTool(c) PROVE IInv'
<1>1. CASE Run(c).label \in DOMAIN dirs
  <2> DEFINE new == [call[c] EXCEPT !.pc = "tool", !.saw = dirs[Run(c).label]]
  <2>1. CallFits(repo.revs, call[c]) /\ DOMAIN call = Caller /\ call[c].pc = "ready" /\ repo' = repo
    BY DEF IInv, StartTool
  <2>2. call' = [call EXCEPT ![c] = new]
    BY <1>1, <2>1 DEF StartTool
  <2>3. /\ DOMAIN new = DOMAIN call[c] /\ new.rev = call[c].rev /\ new.runs = call[c].runs
        /\ new.outs = call[c].outs /\ new.pc = "tool"
    BY <2>1 DEF CallFits
  <2> HIDE DEF new
  <2>4. CallFits(repo.revs, new)
    BY <2>1, <2>3 DEF CallFits
  <2>5. \A d \in Caller : CallFits(repo.revs, call'[d])
    BY <2>1, <2>2, <2>4 DEF IInv
  <2> QED
    BY <2>1, <2>2, <2>5 DEF IInv
<1>2. CASE Run(c).label \notin DOMAIN dirs
  <2>1. call[c].pc = "ready" /\ AddOutcome(c, SpawnFailed) /\ repo' = repo
    BY <1>2 DEF StartTool
  <2>2. OutFits(Run(c), SpawnFailed)
    BY DEF OutFits, SpawnFailed, Outcome
  <2> QED
    BY <2>1, <2>2, OutcomeFits
<1> QED
  BY <1>1, <1>2

\* What a tool can say is so, or is not of the whole tree.
LEMMA ToolsFit ==
  ASSUME NEW run
  PROVE  OutFits(run, Finished(run)) /\ OutFits(run, TimedOut(run)) /\ OutFits(run, Torn)
<1>1. OutFits(run, Finished(run))
  <2>1. Finished(run).ok = Truth(run)
    BY DEF Finished, Outcome
  <2>2. run.how = "suite" => Truth(run) = TestPasses(run.t, run.fn)
    BY DEF Truth
  <2> QED
    BY <2>1, <2>2 DEF OutFits
<1>2. OutFits(run, TimedOut(run)) /\ OutFits(run, Torn)
  BY DEF OutFits, TimedOut, Torn, Outcome
<1> QED
  BY <1>1, <1>2

LEMMA EndToolFits == ASSUME IInv, NEW c \in Caller, EndTool(c) PROVE IInv'
<1>1. PICK out \in {Finished(Run(c)), TimedOut(Run(c)), Torn} : AddOutcome(c, out)
  BY DEF EndTool
<1>2. OutFits(Run(c), out)
  BY ToolsFit
<1> QED
  BY <1>1, <1>2, OutcomeFits DEF EndTool

LEMMA VerifyFinishFits == ASSUME IInv, NEW c \in Caller, VerifyFinish(c) PROVE IInv'
<1> DEFINE k  == call[c]
           rp == RecordAll(repo, k.runs, k.outs)
<1>1. Good(repo) /\ DOMAIN call = Caller /\ CallFits(repo.revs, k)
  BY DEF IInv
<1>2. Good(rp) /\ Same(repo, rp)
  BY <1>1, RecordFits DEF CallFits
<1>3. repo' \in {rp, Complete(rp, k.rev)} /\ call' = [call EXCEPT ![c] = Idle]
  BY DEF VerifyFinish
<1> HIDE DEF rp
<1>4. Good(Complete(rp, k.rev)) /\ Same(rp, Complete(rp, k.rev))
  BY <1>1, <1>2, CompleteFits DEF CallFits
<1>5. Good(repo') /\ repo'.revs = repo.revs
  BY <1>2, <1>3, <1>4 DEF Same
<1>6. \A d \in Caller : CallFits(repo.revs, call'[d])
  BY <1>1, <1>3, IdleFits DEF IInv
<1> QED
  BY <1>1, <1>3, <1>5, <1>6 DEF IInv

\* A line with one more revision, which is its trunk or what the author is on.
LEMMA MoreFits ==
  ASSUME NEW rp, Good(rp), NEW rev \in Rev, NEW q,
         DOMAIN q = Fields, q.revs = Append(rp.revs, rev), RevFits(q.revs, Len(rp.revs) + 1),
         q.atts = rp.atts, q.requests = rp.requests, q.std = rp.std,
         q.trunk \in {rp.trunk, Len(rp.revs) + 1}, q.cur \in {rp.cur, Len(rp.revs) + 1},
         rev.own = 0 => q.cur = rp.cur
  PROVE  Good(q) /\ Keeps(rp.revs, q.revs)
<1>1. /\ RevsFit(q.revs) /\ Keeps(rp.revs, q.revs) /\ Len(rp.revs) \in Nat
      /\ DOMAIN rp.revs = 1 .. Len(rp.revs) /\ DOMAIN q.revs = 1 .. (Len(rp.revs) + 1)
      /\ q.revs[Len(rp.revs) + 1] = rev
  BY NewRevision
<1>2. AttsFit(q)
  BY <1>1, HeldStays DEF Good, AttsFit
<1>3. RequestsFit(q)
  BY DEF Good, RequestsFit
<1>4. /\ q.trunk \in DOMAIN q.revs /\ q.cur \in DOMAIN q.revs /\ q.revs[q.cur].own # 0
  <2>1. rp.trunk \in DOMAIN q.revs /\ rp.cur \in DOMAIN rp.revs /\ rp.cur \in DOMAIN q.revs
    BY <1>1 DEF Good, Keeps
  <2>2. q.revs[rp.cur].own # 0
    BY <1>1, <2>1 DEF Good, Keeps
  <2>3. Len(rp.revs) + 1 \in DOMAIN q.revs
    BY <1>1
  <2> QED
    BY <1>1, <2>1, <2>2, <2>3
<1> QED
  BY <1>1, <1>2, <1>3, <1>4 DEF Good

LEMMA ResnapshotFits == ASSUME IInv, NEW s \in Contents[repo.std], Resnapshot(s) PROVE IInv'
<1> DEFINE R      == repo.revs
           r      == R[repo.cur]
           landed == repo.cur \in LandedRevs(repo)
           snap   == [s EXCEPT !.other = r.snap.other]
           rev    == [snap |-> snap, own |-> Len(R) + 1, prev |-> IF landed THEN 0 ELSE repo.cur,
                      parents |-> IF landed THEN <<repo.cur>> ELSE r.parents]
<1>1. Good(repo) /\ R \in Seq(Rev) /\ repo.cur \in DOMAIN R /\ r.own # 0
  BY DEF IInv, Good, RevsFit
<1>2. /\ repo' = [repo EXCEPT !.revs = Append(R, rev), !.cur = Len(R) + 1]
      /\ UNCHANGED call
  BY DEF Resnapshot
<1>3. /\ r \in Rev /\ repo.cur \in Nat /\ Len(R) \in Nat /\ DOMAIN R = 1 .. Len(R)
      /\ RevFits(R, repo.cur)
  BY <1>1, LenProperties, ElementOfSeq DEF Good, RevsFit
<1> HIDE DEF landed, r
<1>4. snap \in Snapshot /\ snap.other = r.snap.other
  <2>1. s \in Snapshot
    BY ScriptAssumption DEF IInv, Good
  <2>2. r.snap \in Snapshot
    BY <1>3 DEF Rev
  <2> QED
    BY <2>1, <2>2 DEF Snapshot
<1> HIDE DEF snap
<1>5. rev \in Rev
  <2>1. r.parents \in Seq(Nat) /\ <<repo.cur>> \in Seq(Nat)
    BY <1>3 DEF Rev
  <2>2. (IF landed THEN <<repo.cur>> ELSE r.parents) \in Seq(Nat)
    BY <2>1
  <2>3. (IF landed THEN 0 ELSE repo.cur) \in Nat
    BY <1>3
  <2> QED
    BY <1>3, <1>4, <2>2, <2>3 DEF Rev
<1> DEFINE Q == Append(R, rev)
<1>6. Q[Len(R) + 1] = rev /\ \A i \in DOMAIN R : Q[i] = R[i]
  BY <1>1, <1>5, OneMore
<1>7. /\ rev.snap = snap /\ rev.own = Len(R) + 1 /\ rev.prev = IF landed THEN 0 ELSE repo.cur
      /\ rev.parents = IF landed THEN <<repo.cur>> ELSE r.parents
  OBVIOUS
<1> HIDE DEF Q, rev
<1>8. RevFits(Q, Len(R) + 1)
  <2>1. CASE landed
    <3>1. rev.parents = <<repo.cur>> /\ rev.prev = 0
      BY <1>7, <2>1
    <3>2. \A i \in DOMAIN rev.parents : rev.parents[i] = repo.cur
      BY <3>1
    <3>3. rev.parents # << >> /\ rev.parents[1] = repo.cur
      BY <3>1
    <3>4. Q[rev.parents[1]].snap.other = rev.snap.other
      BY <1>1, <1>4, <1>6, <1>7, <3>3 DEF r
    <3>5. repo.cur \in 1 .. (Len(R) + 1 - 1)
      BY <1>1, <1>3
    <3> QED
      BY <1>6, <3>1, <3>2, <3>3, <3>4, <3>5 DEF RevFits, Inherits
  <2>2. CASE ~landed
    <3>1. rev.parents = r.parents /\ rev.prev = repo.cur
      BY <1>7, <2>2
    <3>2. /\ \A i \in DOMAIN r.parents : r.parents[i] \in 1 .. (repo.cur - 1)
          /\ r.parents # << >> /\ R[r.parents[1]].snap.other = r.snap.other
      BY <1>1, <1>3 DEF RevFits, r
    <3>3. r.parents \in Seq(Nat)
      BY <1>3 DEF Rev
    <3>4. 1 \in DOMAIN r.parents /\ (Len(r.parents) > 1 => 2 \in DOMAIN r.parents)
      BY <3>2, <3>3, LenProperties, EmptySeq
    <3>5. \A i \in DOMAIN r.parents : r.parents[i] \in DOMAIN R /\ r.parents[i] \in 1 .. (Len(R) + 1 - 1)
                                      /\ r.parents[i] # repo.cur
      BY <1>1, <1>3, <3>2
    <3>6. ~Inherits(rev)
      BY <3>1, <3>4, <3>5 DEF Inherits
    <3>7. Q[rev.parents[1]].snap.other = rev.snap.other
      BY <1>4, <1>6, <1>7, <3>1, <3>2, <3>4, <3>5
    <3> QED
      BY <1>6, <3>1, <3>2, <3>5, <3>6, <3>7 DEF RevFits
  <2> QED
    BY <2>1, <2>2
<1>9. /\ DOMAIN repo' = Fields /\ repo'.revs = Append(R, rev) /\ repo'.atts = repo.atts
      /\ repo'.requests = repo.requests /\ repo'.std = repo.std /\ repo'.trunk = repo.trunk
      /\ repo'.cur = Len(R) + 1
  BY <1>1, <1>2 DEF Good, Fields
<1>10. rev.own # 0
  BY <1>3, <1>7
<1>11. Good(repo') /\ Keeps(R, repo'.revs)
  BY <1>1, <1>5, <1>8, <1>9, <1>10, MoreFits DEF Q
<1> QED
  BY <1>2, <1>11, CallsStay

LEMMA TrunkMovesFits == ASSUME IInv, TrunkMoves PROVE IInv'
<1> DEFINE R    == repo.revs
           r    == R[repo.trunk]
           snap == [r.snap EXCEPT !.other = 1]
           rev  == [snap |-> snap, own |-> 0, prev |-> 0, parents |-> <<repo.trunk>>]
<1>1. Good(repo) /\ R \in Seq(Rev) /\ repo.trunk \in DOMAIN R
  BY DEF IInv, Good, RevsFit
<1>2. /\ repo' = [repo EXCEPT !.revs = Append(R, rev), !.trunk = Len(R) + 1]
      /\ UNCHANGED call
  BY DEF TrunkMoves
<1>3. r \in Rev /\ repo.trunk \in Nat /\ Len(R) \in Nat /\ DOMAIN R = 1 .. Len(R)
  BY <1>1, LenProperties, ElementOfSeq
<1>4. snap \in Snapshot
  <2>1. r.snap \in Snapshot
    BY <1>3 DEF Rev
  <2> QED
    BY <2>1 DEF Snapshot
<1> HIDE DEF snap
<1>5. rev \in Rev
  BY <1>3, <1>4 DEF Rev
<1> DEFINE Q == Append(R, rev)
<1>6. Q[Len(R) + 1] = rev
  BY <1>1, <1>5, OneMore
<1>7. rev.own = 0 /\ rev.parents = <<repo.trunk>>
  OBVIOUS
<1> HIDE DEF Q, rev
<1>8. RevFits(Q, Len(R) + 1)
  <2>1. \A i \in DOMAIN rev.parents : rev.parents[i] = repo.trunk
    BY <1>7
  <2>2. repo.trunk \in 1 .. (Len(R) + 1 - 1)
    BY <1>1, <1>3
  <2> QED
    BY <1>6, <1>7, <2>1, <2>2 DEF RevFits
<1>9. /\ DOMAIN repo' = Fields /\ repo'.revs = Append(R, rev) /\ repo'.atts = repo.atts
      /\ repo'.requests = repo.requests /\ repo'.std = repo.std /\ repo'.trunk = Len(R) + 1
      /\ repo'.cur = repo.cur
  BY <1>1, <1>2 DEF Good, Fields
<1>10. Good(repo') /\ Keeps(R, repo'.revs)
  BY <1>1, <1>5, <1>8, <1>9, MoreFits DEF Q
<1> QED
  BY <1>2, <1>10, CallsStay

LEMMA AttestVerbFits ==
  ASSUME IInv, NEW h \in HandMade[repo.std], AttestVerb(h) PROVE IInv' /\ Same(repo, repo')
<1> DEFINE a == [Attestation(h.kind, RevRef(repo.cur), {}, h.result, h.by, Nobody) EXCEPT !.conf = h.conf]
<1>1. repo' = Attest(repo, a) /\ UNCHANGED call
  BY DEF AttestVerb
<1>2. /\ a.kind = h.kind /\ a.subject = RevRef(repo.cur) /\ a.verifier = h.by /\ a.runner = Nobody
      /\ {"kind", "subject", "verifier", "runner"} \subseteq DOMAIN a
  BY DEF Attestation
<1> HIDE DEF a
<1>3. ByHandFits(a)
  <2>1. repo.cur \in Nat /\ repo.std \in Standards
    BY AuthorsFit DEF IInv, Good
  <2> QED
    BY <1>2, <2>1, ScriptAssumption DEF ByHandFits, RevRef
<1>4. Good(repo') /\ Same(repo, repo')
  BY <1>1, <1>2, <1>3, AttestFits DEF IInv
<1>5. Keeps(repo.revs, repo'.revs)
  BY <1>4 DEF Same, Keeps
<1> QED
  BY <1>1, <1>4, <1>5, CallsStay

LEMMA ApproveFits ==
  ASSUME IInv, NEW i \in DOMAIN repo.requests, NEW d \in BOOLEAN, Approve(i, d)
  PROVE  IInv' /\ Same(repo, repo')
<1> DEFINE a      == Attestation("approval.human", RevRef(repo.requests[i].rev), {}, d, Human, Nobody)
           rp     == Attest(repo, a)
           R      == repo.requests
           status == IF d THEN "resolved" ELSE "declined"
           asked  == [R EXCEPT ![i].status = status]
<1>1. Good(repo)
  BY DEF IInv
<1>2. R \in Seq(Request) /\ Len(R) \in Nat /\ DOMAIN R = 1 .. Len(R) /\ R[i] \in Request
  BY <1>1, LenProperties, ElementOfSeq DEF Good, RequestsFit
<1>3. /\ a.kind = "approval.human" /\ a.subject = RevRef(R[i].rev) /\ a.verifier = Human
      /\ a.runner = Nobody /\ {"kind", "subject", "verifier", "runner"} \subseteq DOMAIN a
  BY DEF Attestation
<1>4. repo' = [rp EXCEPT !.requests[i].status = status] /\ UNCHANGED call
  BY DEF Approve
<1> HIDE DEF a
<1>5. ByHandFits(a)
  BY <1>2, <1>3 DEF ByHandFits, RevRef, Request
<1>6. Good(rp) /\ Same(repo, rp) /\ rp.requests = R
  BY <1>1, <1>3, <1>5, AttestFits
<1> HIDE DEF rp
<1>7. /\ DOMAIN repo' = Fields /\ Same(rp, repo') /\ repo'.atts = rp.atts
      /\ repo'.requests = asked
  BY <1>4, <1>6 DEF Good, Fields, Same
<1>8. /\ asked \in Seq(Request) /\ DOMAIN asked = DOMAIN R /\ asked[i].status # "active"
      /\ \A j \in DOMAIN R \ {i} : asked[j] = R[j]
  <2>1. \A j \in DOMAIN R : R[j] \in Request
    BY <1>2, ElementOfSeq
  <2>2. /\ DOMAIN asked = DOMAIN R /\ asked[i] = [R[i] EXCEPT !.status = status]
        /\ \A j \in DOMAIN R \ {i} : asked[j] = R[j]
    BY <1>2
  <2>3. asked[i] \in Request /\ asked[i].status = status
    BY <1>2, <2>2 DEF Request
  <2>4. asked \in [1 .. Len(R) -> Request]
    BY <1>2, <2>1, <2>2, <2>3
  <2> HIDE DEF asked
  <2> QED
    BY <1>2, <2>2, <2>3, <2>4, SeqDef
<1> HIDE DEF asked
<1>9. RequestsFit(repo')
  <2>1. ASSUME NEW j \in DOMAIN asked, NEW l \in DOMAIN asked, asked[j] = asked[l], asked[j].status = "active"
        PROVE  j = l
    <3>1. j # i /\ l # i
      BY <1>8, <2>1
    <3>2. R[j] = R[l] /\ R[j].status = "active"
      BY <1>8, <2>1, <3>1
    <3> QED
      BY <1>1, <1>8, <3>2 DEF Good, RequestsFit
  <2> QED
    BY <1>7, <1>8, <2>1 DEF RequestsFit
<1>10. AttsFit(repo')
  BY <1>6, <1>7 DEF Good, AttsFit, Same
<1>11. Good(repo')
  BY <1>6, <1>7, <1>9, <1>10 DEF Good, Same
<1>12. Same(repo, repo') /\ Keeps(repo.revs, repo'.revs)
  BY <1>6, <1>7 DEF Same, Keeps
<1> QED
  BY <1>4, <1>11, <1>12, CallsStay

LEMMA StandardVerbFits == ASSUME IInv, NEW s \in Standards, StandardVerb(s) PROVE IInv'
<1>1. Good(repo) /\ repo' = [repo EXCEPT !.std = s, !.edits = @ + 1] /\ UNCHANGED call
  BY DEF IInv, StandardVerb
<1>2. /\ DOMAIN repo' = Fields /\ repo'.revs = repo.revs /\ repo'.atts = repo.atts
      /\ repo'.requests = repo.requests /\ repo'.std = s /\ repo'.trunk = repo.trunk
      /\ repo'.cur = repo.cur
  BY <1>1 DEF Good, Fields
<1>3. Good(repo') /\ Keeps(repo.revs, repo'.revs)
  BY <1>1, <1>2 DEF Good, AttsFit, RequestsFit, Keeps
<1> QED
  BY <1>1, <1>3, CallsStay

LEMMA StopFits == ASSUME IInv, Stop PROVE IInv'
<1>1. repo' = repo /\ DOMAIN call' = Caller /\ \A c \in Caller : call'[c] = Idle
  BY DEF Stop
<1> QED
  BY <1>1, IdleFits DEF IInv

\* What a landing leaves: a refused one keeps the line, and one that is not
\* leaves nothing of the standard unmet on the revision that it derived.
Landed(id, rev) ==
  /\ id = Len(repo.revs) + 1 /\ repo'.trunk = id /\ repo'.cur = id
  /\ repo'.revs = Append(repo.revs, rev) /\ repo'.revs[id] = rev
  /\ repo'.std = repo.std /\ Status(repo', id, rev) = {}

\* A landing by the runs that it made and those that were killed.
LandsWith(staged, id, rev, runs, killed) ==
  \E ran \in {RecordAll(staged, runs, [i \in DOMAIN runs |->
                  IF i \in killed THEN TimedOut(runs[i]) ELSE Finished(runs[i])])} :
  \E unmet \in {Status(ran, id, rev)} :
     /\ repo' = IF unmet = {}
                THEN CloseRequests([ran EXCEPT !.trunk = id, !.cur = id], repo.cur)
                ELSE [EnsureRequest(ran, AskAbout(repo, id), staged.revs[AskAbout(repo, id)],
                                    Context(ran, id, rev), unmet)
                        EXCEPT !.revs = repo.revs]
     /\ dirs' = Restrict(dirs, DOMAIN dirs \ Labels(runs))

LEMMA LandFits ==
  ASSUME IInv, Land
  PROVE  IInv' /\ (repo'.trunk = repo.trunk \/ Landed(Len(repo.revs) + 1, LandingOf(repo)))
<1> DEFINE R      == repo.revs
           r      == R[repo.cur]
           id     == Len(R) + 1
           rev    == LandingOf(repo)
           snap   == [r.snap EXCEPT !.other = R[repo.trunk].snap.other]
           staged == [repo EXCEPT !.revs = Append(@, rev)]
<1>1. PICK runs \in {IF Status(staged, id, rev) = {} THEN << >> ELSE PlanRuns(staged, id, rev, FALSE)} :
      \E killed \in SUBSET DOMAIN runs : LandsWith(staged, id, rev, runs, killed)
  <2>1. \E new \in {LandingOf(repo)} : \E more \in {[repo EXCEPT !.revs = Append(@, new)]} :
        \E runs \in {IF Status(more, Len(repo.revs) + 1, new) = {} THEN << >>
                      ELSE PlanRuns(more, Len(repo.revs) + 1, new, FALSE)} :
        \E killed \in SUBSET DOMAIN runs : LandsWith(more, Len(repo.revs) + 1, new, runs, killed)
    BY Zenon DEF Land, LandsWith
  <2>2. \E more \in {[repo EXCEPT !.revs = Append(@, rev)]} :
        \E runs \in {IF Status(more, id, rev) = {} THEN << >> ELSE PlanRuns(more, id, rev, FALSE)} :
        \E killed \in SUBSET DOMAIN runs : LandsWith(more, id, rev, runs, killed)
    BY <2>1
  <2> QED
    BY <2>2
<1>2. PICK killed \in SUBSET DOMAIN runs : LandsWith(staged, id, rev, runs, killed)
  BY <1>1
<1> DEFINE outs   == [i \in DOMAIN runs |-> IF i \in killed THEN TimedOut(runs[i]) ELSE Finished(runs[i])]
           ran    == RecordAll(staged, runs, outs)
           unmet  == Status(ran, id, rev)
           moved  == [ran EXCEPT !.trunk = id, !.cur = id]
           asked  == EnsureRequest(ran, AskAbout(repo, id), staged.revs[AskAbout(repo, id)],
                                   Context(ran, id, rev), unmet)
<1>3. repo' = IF unmet = {} THEN CloseRequests(moved, repo.cur) ELSE [asked EXCEPT !.revs = R]
  BY <1>2 DEF LandsWith
<1>4. call' = call
  BY DEF Land
<1> HIDE DEF r
<1>5. /\ Good(repo) /\ R \in Seq(Rev) /\ repo.cur \in DOMAIN R /\ repo.trunk \in DOMAIN R
      /\ r = R[repo.cur] /\ r.own # 0
  BY DEF IInv, Good, RevsFit, r
<1>6. /\ r \in Rev /\ repo.cur \in Nat /\ repo.trunk \in Nat /\ R[repo.trunk] \in Rev
      /\ Len(R) \in Nat /\ DOMAIN R = 1 .. Len(R) /\ id \in Nat
  BY <1>5, LenProperties, ElementOfSeq
<1>7. /\ DOMAIN rev = DOMAIN r
      /\ rev.snap = snap /\ rev.own = r.own /\ rev.prev = repo.cur /\ rev.parents = <<repo.trunk, repo.cur>>
      /\ DOMAIN r = {"snap", "own", "prev", "parents"}
  BY <1>5, <1>6 DEF LandingOf, Rev
<1>8. /\ snap \in Snapshot /\ snap.fn = r.snap.fn /\ snap.t = r.snap.t
      /\ snap.other = R[repo.trunk].snap.other
  <2>1. r.snap \in Snapshot /\ R[repo.trunk].snap \in Snapshot
    BY <1>6 DEF Rev
  <2> QED
    BY <2>1 DEF Snapshot
<1> HIDE DEF snap
<1>9. rev \in Rev
  <2>1. <<repo.trunk, repo.cur>> \in Seq(Nat) /\ r.own \in Nat
    BY <1>6 DEF Rev
  <2>2. rev = [r EXCEPT !.snap = snap, !.prev = repo.cur, !.parents = <<repo.trunk, repo.cur>>]
    BY <1>5 DEF LandingOf, snap
  <2> HIDE DEF rev
  <2> QED
    BY <1>6, <1>8, <2>1, <2>2 DEF Rev
<1> HIDE DEF rev, staged
<1> DEFINE Q == Append(R, rev)
<1>10. Q[id] = rev /\ \A i \in DOMAIN R : Q[i] = R[i]
  BY <1>5, <1>9, OneMore
<1> HIDE DEF Q
<1>11. RevFits(Q, id)
  <2>1. \A i \in DOMAIN rev.parents : rev.parents[i] \in {repo.trunk, repo.cur}
    BY <1>7
  <2>2. rev.parents # << >> /\ rev.parents[1] = repo.trunk
    BY <1>7
  <2>3. \A i \in {repo.trunk, repo.cur} : i \in 1 .. (id - 1)
    BY <1>5, <1>6
  <2>4. Q[rev.parents[1]].snap.other = rev.snap.other
    BY <1>5, <1>7, <1>8, <1>10, <2>2
  <2>5. Q[rev.prev].own = rev.own
    BY <1>5, <1>7, <1>10
  <2> QED
    BY <1>10, <2>1, <2>2, <2>3, <2>4, <2>5 DEF RevFits
<1>12. /\ DOMAIN staged = Fields /\ staged.revs = Q /\ staged.atts = repo.atts
       /\ staged.requests = repo.requests /\ staged.std = repo.std /\ staged.trunk = repo.trunk
       /\ staged.cur = repo.cur
  BY <1>5 DEF Good, Fields, staged, Q
<1>13. rev.own # 0
  BY <1>5, <1>7
<1>14. Good(staged) /\ Keeps(R, Q)
  BY <1>5, <1>9, <1>11, <1>12, <1>13, MoreFits DEF Q
<1>15. /\ RevsFit(Q) /\ Len(R) \in Nat /\ DOMAIN Q = 1 .. id
  BY <1>5, <1>9, <1>11, NewRevision DEF Q
<1>16. \A s : Held(Q, s) => Held(R, s)
  <2>1. SUFFICES ASSUME NEW s, NEW i \in DOMAIN Q, Q[i].snap.fn = s.fn, Q[i].snap.t = s.t
                 PROVE  Held(R, s)
    BY DEF Held
  <2>2. CASE i \in DOMAIN R
    BY <1>10, <2>1, <2>2 DEF Held
  <2>3. CASE i \notin DOMAIN R
    <3>1. i = id
      BY <1>6, <1>15, <2>3
    <3>2. r.snap.fn = s.fn /\ r.snap.t = s.t
      BY <1>7, <1>8, <1>10, <2>1, <3>1
    <3> QED
      BY <1>5, <3>2 DEF Held
  <2> QED
    BY <2>2, <2>3
<1>17. \A i \in DOMAIN runs : RunFits(Q, runs[i])
  <2>1. Held(Q, rev.snap)
    BY <1>6, <1>10, <1>15 DEF Held
  <2>2. ParentSnap(staged, rev).other = rev.snap.other
    BY <1>5, <1>7, <1>8, <1>10, <1>12 DEF ParentSnap
  <2>3. \A i \in DOMAIN PlanRuns(staged, id, rev, FALSE) :
           RunFits(Q, PlanRuns(staged, id, rev, FALSE)[i])
    BY <1>7, <1>8, <1>12, <2>1, <2>2, PlanFits
  <2>4. DOMAIN << >> = {}
    OBVIOUS
  <2> QED
    BY <1>1, <2>3, <2>4
<1>18. DOMAIN outs = DOMAIN runs /\ \A i \in DOMAIN outs : OutFits(runs[i], outs[i])
  BY ToolsFit
<1> HIDE DEF outs
<1>19. Good(ran) /\ Same(staged, ran)
  BY <1>12, <1>14, <1>17, <1>18, RecordFits
<1> HIDE DEF ran, unmet
<1>20. CASE unmet = {}
  <2>1. repo' = CloseRequests(moved, repo.cur)
    BY <1>3, <1>20
  <2>2. /\ DOMAIN moved = Fields /\ moved.revs = Q /\ moved.atts = ran.atts
        /\ moved.requests = ran.requests /\ moved.std = repo.std /\ moved.trunk = id /\ moved.cur = id
    BY <1>12, <1>19 DEF Good, Fields, Same
  <2> HIDE DEF moved
  <2>3. Good(moved)
    <3>1. AttsFit(moved) /\ RequestsFit(moved)
      BY <1>12, <1>19, <2>2 DEF Good, AttsFit, RequestsFit, Same
    <3>2. id \in DOMAIN moved.revs /\ moved.revs[id].own # 0
      BY <1>6, <1>10, <1>13, <1>15, <2>2
    <3> QED
      BY <1>5, <1>15, <2>2, <3>1, <3>2 DEF Good
  <2>4. Good(repo') /\ Same(moved, repo') /\ repo'.atts = moved.atts
    BY <2>1, <2>3, CloseFits
  <2>5. Keeps(R, repo'.revs)
    BY <1>14, <2>2, <2>4 DEF Same
  <2>6. IInv'
    BY <1>4, <2>4, <2>5, CallsStay
  <2>7. /\ repo'.revs = ran.revs /\ repo'.atts = ran.atts /\ repo'.std = ran.std
    BY <1>12, <1>19, <2>2, <2>4 DEF Same
  <2>8. Status(repo', id, rev) = unmet
    BY <2>7 DEF unmet, Status, Context, CollectFor, ParentSnap, Chain
  <2>9. Landed(id, rev)
    BY <1>10, <1>20, <2>2, <2>4, <2>8 DEF Landed, Same, Q
  <2> QED
    BY <2>6, <2>9 DEF rev
<1>21. CASE unmet # {}
  <2>1. repo' = [asked EXCEPT !.revs = R]
    BY <1>3, <1>21
  <2>2. Good(asked) /\ Same(ran, asked)
    BY <1>6, <1>19, RequestFits DEF AskAbout
  <2> HIDE DEF asked
  <2>3. /\ DOMAIN repo' = Fields /\ repo'.revs = R /\ repo'.atts = asked.atts
        /\ repo'.requests = asked.requests /\ repo'.std = repo.std /\ repo'.trunk = repo.trunk
        /\ repo'.cur = repo.cur
    BY <1>12, <1>19, <2>1, <2>2 DEF Good, Fields, Same
  <2>4. AttsFit(repo')
    <3>1. asked.revs = Q
      BY <1>12, <1>19, <2>2 DEF Same
    <3>2. \A a : SignedFits(Q, a) => SignedFits(R, a)
      BY <1>16 DEF SignedFits
    <3> QED
      BY <2>2, <2>3, <3>1, <3>2 DEF Good, AttsFit
  <2>5. Good(repo')
    BY <1>5, <2>2, <2>3, <2>4 DEF Good, RequestsFit
  <2>6. Keeps(R, repo'.revs)
    BY <2>3 DEF Keeps
  <2> QED
    BY <1>4, <2>3, <2>5, <2>6, CallsStay
<1> QED
  BY <1>20, <1>21

-----------------------------------------------------------------------------
LEMMA InitFits == ASSUME Init PROVE IInv
<1>1. PICK s \in Standards : repo =
         [revs |-> <<[snap |-> [fn |-> 1, other |-> 0, t |-> Start[s]], own |-> 0, prev |-> 0,
                      parents |-> << >>],
                     [snap |-> [fn |-> 2, other |-> 0, t |-> 1], own |-> 2, prev |-> 0,
                      parents |-> <<1>>]>>,
          trunk |-> 1, cur |-> 2, atts |-> {}, requests |-> << >>, std |-> s, edits |-> 0]
  BY DEF Init
<1> DEFINE first  == [snap |-> [fn |-> 1, other |-> 0, t |-> Start[s]], own |-> 0, prev |-> 0,
                      parents |-> << >>]
           second == [snap |-> [fn |-> 2, other |-> 0, t |-> 1], own |-> 2, prev |-> 0,
                      parents |-> <<1>>]
<1>2. /\ DOMAIN repo = Fields /\ repo.revs = <<first, second>> /\ repo.trunk = 1 /\ repo.cur = 2
      /\ repo.atts = {} /\ repo.requests = << >> /\ repo.std = s
  BY <1>1 DEF Fields
<1>3. first \in Rev /\ second \in Rev
  <2>1. Start[s] \in 0 .. 2
    BY ScriptAssumption
  <2>2. << >> \in Seq(Nat) /\ <<1>> \in Seq(Nat)
    OBVIOUS
  <2> QED
    BY <2>1, <2>2 DEF Rev, Snapshot
<1>4. /\ first.own = 0 /\ first.parents = << >> /\ first.snap.other = 0
      /\ second.own = 2 /\ second.parents = <<1>> /\ second.snap.other = 0 /\ second.prev = 0
  OBVIOUS
<1> HIDE DEF first, second
<1> DEFINE R == <<first, second>>
<1>5. R \in Seq(Rev) /\ DOMAIN R = 1 .. 2 /\ R[1] = first /\ R[2] = second
  BY <1>3
<1> HIDE DEF R
<1>6. RevFits(R, 1)
  <2>1. DOMAIN first.parents = {}
    BY <1>4
  <2> QED
    BY <1>4, <1>5, <2>1 DEF RevFits
<1>7. RevFits(R, 2)
  <2>1. /\ \A i \in DOMAIN second.parents : second.parents[i] = 1
        /\ second.parents[1] = 1 /\ second.parents # << >>
    BY <1>4
  <2>2. R[second.parents[1]].snap.other = second.snap.other /\ ~Inherits(second)
    BY <1>4, <1>5, <2>1 DEF Inherits
  <2> QED
    BY <1>5, <2>1, <2>2 DEF RevFits
<1>8. RevsFit(R)
  BY <1>5, <1>6, <1>7 DEF RevsFit
<1>9. Good(repo)
  <2>1. repo.requests \in Seq(Request) /\ DOMAIN repo.requests = {}
    BY <1>2
  <2> QED
    BY <1>2, <1>4, <1>5, <1>8, <2>1 DEF Good, AttsFit, RequestsFit, R
<1> QED
  BY <1>9, IdleFits DEF Init, IInv

LEMMA NextFits == ASSUME IInv, Next PROVE IInv'
<1>1. ASSUME NEW c \in Caller,
             VerifyNow(c) \/ VerifyPlan(c) \/ StartTool(c) \/ EndTool(c) \/ VerifyFinish(c)
      PROVE  IInv'
  BY <1>1, VerifyNowFits, VerifyPlanFits, StartToolFits, EndToolFits, VerifyFinishFits
<1> QED
  BY <1>1, ResnapshotFits, TrunkMovesFits, LandFits, AttestVerbFits, ApproveFits, StandardVerbFits,
     StopFits DEF Next, Verifying

LEMMA StutterFits == ASSUME IInv, UNCHANGED vars PROVE IInv'
  BY DEF IInv, vars

\* The invariant holds of every reachable state.
THEOREM Invariance == Spec => []IInv
<1>1. Init => IInv
  BY InitFits
<1>2. IInv /\ [Next]_vars => IInv'
  BY NextFits, StutterFits
<1> QED
  BY <1>1, <1>2, PTL DEF Spec

-----------------------------------------------------------------------------
(***************************************************************************)
(* What the invariant says of the record.                                  *)
(***************************************************************************)

\* What a run recorded is true of the snapshot or of the bodies that its
\* attestation names, however the author and the trunk have moved since its plan.
THEOREM RecordedRunsAreSo == Spec => []RecordedIsSo
<1>1. ASSUME IInv, NEW a \in repo.atts, a.kind = "tests.pass", a.runner = Owner, a.whole, a.result
      PROVE  /\ \A s \in Snapshot : a.subject = SnapRef(s) => TestPasses(s.t, s.fn)
             /\ \A t \in 0 .. 2, fn \in 1 .. 3 :
                   {<<"t", t>>, <<"fn", fn>>} \subseteq a.bodies => TestPasses(t, fn)
  <2>1. SignedFits(repo.revs, a)
    BY <1>1, PartiesAssumption DEF IInv, Good, AttsFit, ByHandFits
  <2>2. a.kind \notin NewKinds
    BY <1>1, PartiesAssumption DEF NewKinds
  <2>3. PICK s \in Snapshot :
           /\ a.subject \in {Nobody, SnapRef(s)} /\ a.bodies \subseteq Pair(s)
           /\ TestPasses(s.t, s.fn)
    BY <1>1, <2>1, <2>2 DEF SignedFits
  <2>4. ASSUME NEW u \in Snapshot, a.subject = SnapRef(u)
        PROVE  u = s
    <3>1. SnapRef(u) # Nobody
      BY SubjectsAssumption DEF SnapRef
    <3> QED
      BY <2>3, <2>4, <3>1 DEF SnapRef
  <2>5. ASSUME NEW t \in 0 .. 2, NEW fn \in 1 .. 3, {<<"t", t>>, <<"fn", fn>>} \subseteq a.bodies
        PROVE  t = s.t /\ fn = s.fn
    <3>1. <<"t", t>> \in Pair(s) /\ <<"fn", fn>> \in Pair(s)
      BY <2>3, <2>5
    <3> QED
      BY <3>1 DEF Pair
  <2> QED
    BY <2>3, <2>4, <2>5
<1>2. IInv => RecordedIsSo
  BY <1>1 DEF RecordedIsSo
<1> QED
  BY <1>2, Invariance, PTL

\* No two open requests are about one revision, whichever verifies, landings and
\* answers came in between.
THEOREM HumansAskedOnce == Spec => []AskedOnce
<1>1. IInv => AskedOnce
  BY DEF IInv, Good, RequestsFit, AskedOnce
<1> QED
  BY <1>1, Invariance, PTL

\* The revision that an approval counts on has the content that the human saw.
THEOREM ApprovalsAreOfContent == Spec => []ApprovedIsThisContent
<1>1. ASSUME IInv, NEW n \in DOMAIN Def, NEW r \in DOMAIN repo.revs, repo.revs[r].own # 0,
             HoldsApproved(Context(repo, r, repo.revs[r]), Def[n])
      PROVE  \E a \in repo.atts, q \in DOMAIN repo.revs :
                /\ a.kind = "approval.human" /\ a.result /\ a.verifier = Human
                /\ a.subject = RevRef(q) /\ repo.revs[q].own = repo.revs[r].own
  <2> DEFINE rev == repo.revs[r]
             c   == Context(repo, r, rev)
  <2>1. PICK a \in c.atts : a.kind = "approval.human" /\ Truthy(a) /\ OnSubject(c, a)
    BY <1>1 DEF HoldsApproved
  <2>2. a \in repo.atts /\ a.result
    BY <2>1 DEF Context, CollectFor, Truthy
  <2>3. ByHandFits(a)
    BY <1>1, <2>1, <2>2, PartiesAssumption DEF IInv, Good, AttsFit, SignedFits
  <2>4. a.verifier = Human /\ a.subject \in {"revision"} \X Nat
    BY <2>1, <2>3 DEF ByHandFits
  <2>5. a.subject = RevRef(r) \/ (Inherits(rev) /\ a.subject = RevRef(rev.prev))
    <3>1. a.subject # SnapRef(rev.snap)
      BY <2>4 DEF SnapRef
    <3> QED
      BY <2>1, <3>1, SubjectsAre
  <2>6. CASE a.subject = RevRef(r)
    BY <1>1, <2>1, <2>2, <2>4, <2>6
  <2>7. CASE Inherits(rev) /\ a.subject = RevRef(rev.prev)
    <3>1. rev \in Rev /\ RevFits(repo.revs, r) /\ r \in DOMAIN repo.revs /\ r \in Nat
          /\ DOMAIN repo.revs = 1 .. Len(repo.revs)
      BY <1>1, AuthorsFit, LenProperties DEF IInv, Good, RevsFit
    <3>2. rev.parents \in Seq(Nat)
      BY <3>1 DEF Rev
    <3>3. rev.prev \in 1 .. (r - 1)
      <4>1. 2 \in DOMAIN rev.parents /\ rev.prev = rev.parents[2]
        BY <2>7, <3>2, LenProperties DEF Inherits
      <4> QED
        BY <3>1, <4>1 DEF RevFits
    <3>4. rev.prev \in DOMAIN repo.revs
      <4>1. Len(repo.revs) \in Nat
        BY <1>1, LenProperties DEF IInv, Good, RevsFit
      <4> QED
        BY <3>1, <3>3, <4>1
    <3>5. repo.revs[rev.prev].own = rev.own
      BY <1>1, <2>7, <3>1 DEF RevFits
    <3> QED
      BY <2>1, <2>2, <2>4, <2>7, <3>4, <3>5
  <2> QED
    BY <2>5, <2>6, <2>7
<1>2. IInv => ApprovedIsThisContent
  BY <1>1 DEF ApprovedIsThisContent
<1> QED
  BY <1>2, Invariance, PTL

-----------------------------------------------------------------------------
(***************************************************************************)
(* What the standard makes of the record.                                  *)
(***************************************************************************)

\* What a predicate asks, given what those inside it came to.
Asks(h, c, n) ==
  LET p == Def[n]
  IN  \/ p.kind = "structural" /\ HoldsStructural(c, p.name)
      \/ p.kind = "attest"     /\ HoldsAttest(c, p)
      \/ p.kind = "approved"   /\ HoldsApproved(c, p)
      \/ p.kind = "judge"      /\ HoldsJudge(c, p)
      \/ p.kind = "observe"    /\ HoldsObserve(c, p)
      \/ p.kind = "all" /\ \A i \in DOMAIN p.preds : h[p.preds[i]]
      \/ p.kind = "any" /\ \E i \in DOMAIN p.preds : h[p.preds[i]]
      \/ p.kind = "not" /\ p.preds # << >> /\ ~h[p.preds[1]]

\* A predicate reads only those inside it.
LEMMA AsksInside ==
  ASSUME NEW g, NEW h, NEW c, NEW n \in DOMAIN Def,
         Def[n].kind \in {"all", "any", "not"} =>
            \A i \in DOMAIN Def[n].preds : g[Def[n].preds[i]] = h[Def[n].preds[i]]
  PROVE  Asks(g, c, n) = Asks(h, c, n)
<1> DEFINE p == Def[n]
<1>1. CASE p.kind \notin {"all", "any", "not"}
  BY <1>1 DEF Asks
<1>2. CASE p.kind \in {"all", "any", "not"}
  <2>1. p.preds \in Seq(DOMAIN Def)
    BY <1>2, DefAssumption
  <2>2. p.preds # << >> => 1 \in DOMAIN p.preds
    BY <2>1, LenProperties, EmptySeq
  <2>3. \A i \in DOMAIN p.preds : g[p.preds[i]] = h[p.preds[i]]
    BY <1>2
  <2>4. (\A i \in DOMAIN p.preds : g[p.preds[i]]) = (\A i \in DOMAIN p.preds : h[p.preds[i]])
    BY <2>3
  <2>5. (\E i \in DOMAIN p.preds : g[p.preds[i]]) = (\E i \in DOMAIN p.preds : h[p.preds[i]])
    BY <2>3
  <2>6. (p.preds # << >> /\ ~g[p.preds[1]]) = (p.preds # << >> /\ ~h[p.preds[1]])
    BY <2>2, <2>3
  <2> QED
    BY <1>2, <2>4, <2>5, <2>6 DEF Asks
<1> QED
  BY <1>1, <1>2

\* Predicates are finite, so every one of them comes to something.
LEMMA HoldsDefined ==
  ASSUME NEW c
  PROVE  \A n \in DOMAIN Def : Holds(c)[n] = Asks(Holds(c), c, n)
<1>1. PICK depth \in [DOMAIN Def -> 0 .. Cardinality(DOMAIN Def)] : \A n \in DOMAIN Def :
         Def[n].kind \in {"all", "any", "not"} =>
            \A i \in DOMAIN Def[n].preds : depth[Def[n].preds[i]] < depth[n]
  BY DefAssumption
<1>2. Cardinality(DOMAIN Def) \in Nat
  BY DefAssumption, FS_CardinalityType
<1> DEFINE D(k) == {n \in DOMAIN Def : depth[n] < k}
           T    == {k \in Nat : ~ \E h : h = [n \in D(k) |-> Asks(h, c, n)]}
<1>3. \A n \in DOMAIN Def : depth[n] \in Nat /\ depth[n] <= Cardinality(DOMAIN Def)
  BY <1>1, <1>2
<1>4. T = {}
  <2>1. SUFFICES ASSUME T # {} PROVE FALSE
    OBVIOUS
  <2>2. PICK k \in T : \A j \in T : k <= j
    BY <2>1, LeastNatural
  <2>3. k # 0
    <3>1. SUFFICES ASSUME k = 0 PROVE FALSE
      OBVIOUS
    <3>2. D(k) = {}
      BY <1>3, <3>1
    <3> DEFINE none == [n \in {} |-> TRUE]
    <3>3. none = [n \in D(k) |-> Asks(none, c, n)]
      BY <3>2
    <3> QED
      BY <2>2, <3>3
  <2>4. k - 1 \in Nat /\ k - 1 \notin T
    <3>1. T \subseteq Nat
      OBVIOUS
    <3> HIDE DEF T
    <3> QED
      BY <2>2, <2>3, <3>1
  <2>5. PICK h : h = [n \in D(k - 1) |-> Asks(h, c, n)]
    BY <2>4
  <2> DEFINE more == [n \in D(k) |-> Asks(h, c, n)]
  <2>6. \A m \in D(k - 1) : more[m] = h[m]
    <3>1. D(k - 1) \subseteq D(k)
      BY <1>3, <2>2, <2>4
    <3> QED
      BY <2>5, <3>1
  <2>7. ASSUME NEW n \in D(k)
        PROVE  Asks(more, c, n) = Asks(h, c, n)
    <3>1. ASSUME Def[n].kind \in {"all", "any", "not"}, NEW i \in DOMAIN Def[n].preds
          PROVE  more[Def[n].preds[i]] = h[Def[n].preds[i]]
      <4>1. Def[n].preds[i] \in DOMAIN Def
        BY <3>1, DefAssumption, ElementOfSeq, LenProperties
      <4>2. depth[Def[n].preds[i]] < depth[n] /\ depth[n] < k
        BY <1>1, <3>1
      <4>3. Def[n].preds[i] \in D(k - 1)
        BY <1>3, <2>2, <4>1, <4>2
      <4> QED
        BY <2>6, <4>3
    <3> HIDE DEF more
    <3> QED
      BY <3>1, AsksInside
  <2>8. more = [n \in D(k) |-> Asks(more, c, n)]
    BY <2>7
  <2> QED
    BY <2>2, <2>8
<1>5. PICK h : h = [n \in DOMAIN Def |-> Asks(h, c, n)]
  <2>1. Cardinality(DOMAIN Def) + 1 \in Nat
    BY <1>2
  <2>2. D(Cardinality(DOMAIN Def) + 1) = DOMAIN Def
    BY <1>2, <1>3
  <2> HIDE DEF D
  <2>3. \E h : h = [n \in D(Cardinality(DOMAIN Def) + 1) |-> Asks(h, c, n)]
    BY <1>4, <2>1
  <2> QED
    BY <2>2, <2>3
<1>6. Holds(c) = CHOOSE g : g = [n \in DOMAIN Def |-> Asks(g, c, n)]
  BY Zenon DEF Holds, Asks
<1>7. Holds(c) = [n \in DOMAIN Def |-> Asks(Holds(c), c, n)]
  BY <1>5, <1>6
<1> QED
  BY <1>7

-----------------------------------------------------------------------------
(***************************************************************************)
(* What lands.                                                             *)
(***************************************************************************)

\* Nothing but a landing moves trunk to what the author is on.
LEMMA OnlyLand ==
  ASSUME IInv, [Next]_vars, Landing
  PROVE  Landed(Len(repo.revs) + 1, LandingOf(repo)) /\ IInv'
<1>1. repo'.trunk # repo.trunk /\ repo'.cur = repo'.trunk
  BY DEF Landing
<1>2. Good(repo)
  BY DEF IInv
<1>3. ASSUME NEW c \in Caller, VerifyNow(c)
      PROVE  repo'.trunk = repo.trunk
  BY <1>2, <1>3, AuthorsFit, CompleteFits DEF VerifyNow, Good, Same
<1>4. ASSUME NEW c \in Caller, VerifyFinish(c)
      PROVE  repo'.trunk = repo.trunk
  <2> DEFINE rp == RecordAll(repo, call[c].runs, call[c].outs)
  <2>1. Good(rp) /\ Same(repo, rp) /\ call[c].rev \in Nat
    BY <1>2, RecordFits DEF IInv, CallFits
  <2>2. repo' \in {rp, Complete(rp, call[c].rev)}
    BY <1>4 DEF VerifyFinish
  <2> HIDE DEF rp
  <2>3. Same(rp, Complete(rp, call[c].rev))
    BY <2>1, CompleteFits
  <2> QED
    BY <2>1, <2>2, <2>3 DEF Same
<1>5. ASSUME NEW c \in Caller, VerifyPlan(c) \/ StartTool(c) \/ EndTool(c)
      PROVE  repo' = repo
  BY <1>5 DEF VerifyPlan, StartTool, EndTool
<1>6. ASSUME NEW s \in Contents[repo.std], Resnapshot(s)
      PROVE  repo'.trunk = repo.trunk
  BY <1>2, <1>6 DEF Resnapshot, Good, Fields
<1>7. ASSUME TrunkMoves
      PROVE  repo'.cur # repo'.trunk
  <2>1. repo.revs \in Seq(Rev) /\ repo.cur \in DOMAIN repo.revs
    BY <1>2 DEF Good, RevsFit
  <2>2. Len(repo.revs) \in Nat /\ DOMAIN repo.revs = 1 .. Len(repo.revs)
    BY <2>1, LenProperties
  <2>3. repo'.trunk = Len(repo.revs) + 1 /\ repo'.cur = repo.cur
    BY <1>2, <1>7 DEF TrunkMoves, Good, Fields
  <2> QED
    BY <2>1, <2>2, <2>3
<1>8. ASSUME NEW h \in HandMade[repo.std], AttestVerb(h)
      PROVE  repo'.trunk = repo.trunk
  BY <1>8, AttestVerbFits DEF Same
<1>9. ASSUME NEW i \in DOMAIN repo.requests, NEW d \in BOOLEAN, Approve(i, d)
      PROVE  repo'.trunk = repo.trunk
  BY <1>9, ApproveFits DEF Same
<1>10. ASSUME NEW s \in Standards, StandardVerb(s)
       PROVE  repo'.trunk = repo.trunk
  BY <1>2, <1>10 DEF StandardVerb, Good, Fields
<1>11. Stop \/ UNCHANGED vars => repo' = repo
  BY DEF Stop, vars
<1>12. Land
  BY <1>1, <1>3, <1>4, <1>5, <1>6, <1>7, <1>8, <1>9, <1>10, <1>11 DEF Next, Verifying
<1> QED
  BY <1>1, <1>12, LandFits

\* What a landing's standard requires holds of the revision that it derived.
LEMMA RequiredHolds ==
  ASSUME IInv, NEW id, NEW rev, Landed(id, rev), NEW n \in DOMAIN Def, AsksFor(n)
  PROVE  Asks(Holds(Context(repo', id, rev)), Context(repo', id, rev), n)
<1> DEFINE c     == Context(repo', id, rev)
           chain == Chain(repo)
<1>1. chain = Chain(repo')
  BY DEF Landed, Chain
<1>2. PICK i \in DOMAIN chain : \E k \in chain[i].clauses :
         k.op = "require" /\ k.pred = n /\ k.unless = Nobody
  BY DEF AsksFor
<1>3. PICK k \in chain[i].clauses : k.op = "require" /\ k.pred = n /\ k.unless = Nobody
  BY <1>2
<1> HIDE DEF chain, c
<1>4. Evaluate(c, chain) = {}
  BY <1>1 DEF Landed, Status, c
<1>5. ClauseMet(c, k)
  BY <1>4 DEF Evaluate
<1>6. Holds(c)[n]
  BY <1>3, <1>5 DEF ClauseMet
<1>7. Holds(c)[n] = Asks(Holds(c), c, n)
  BY HoldsDefined
<1>8. Asks(Holds(c), c, n)
  BY <1>6, <1>7
<1> QED
  BY <1>8 DEF c

\* What a landing makes.
LEMMA LandedIs ==
  ASSUME IInv, NEW id, NEW rev, rev = LandingOf(repo), id = Len(repo.revs) + 1, IInv', Landed(id, rev)
  PROVE  /\ Inherits(rev) /\ id \in DOMAIN repo'.revs /\ Good(repo') /\ repo'.revs[id] = rev
         /\ rev.snap \in Snapshot
<1>1. rev.prev = repo.cur /\ rev.parents = <<repo.trunk, repo.cur>> /\ repo.cur # 0
  <2>1. /\ repo.cur \in DOMAIN repo.revs /\ repo.revs \in Seq(Rev)
    BY DEF IInv, Good, RevsFit
  <2>2. repo.revs[repo.cur] \in Rev /\ repo.cur # 0
    BY <2>1, LenProperties, ElementOfSeq
  <2> QED
    BY <2>2 DEF LandingOf, Rev
<1>2. Inherits(rev)
  BY <1>1 DEF Inherits
<1>3. Good(repo') /\ repo'.trunk = id /\ id \in DOMAIN repo'.revs /\ repo'.revs[id] = rev
  BY DEF IInv, Good, Landed
<1>4. repo'.revs[id] \in Rev
  BY <1>3, AuthorsFit
<1> QED
  BY <1>2, <1>3, <1>4 DEF Rev

\* Nothing lands on the word of its author's own agent, nor over another agent's
\* confident no on the same content.
THEOREM NoJudgeOfItsOwn == Spec => JudgedByOthers
<1>1. ASSUME IInv, [Next]_vars, NEW n \in DOMAIN Def, Landing, Def[n].kind = "judge", AsksFor(n)
      PROVE  LET new == repo'.revs[repo'.trunk]
                 said(v) == {a \in repo'.atts : 
                               /\ a.kind = Def[n].name /\ a.result = v
                               /\ a.conf >= Def[n].minConfidence
                               /\ ParentOf[a.verifier] # ParentOf[Author]
                               /\ a.subject \in {RevRef(new.prev), RevRef(repo'.trunk)}}
             IN  said(TRUE) # {} /\ said(FALSE) = {}
  <2> DEFINE id  == Len(repo.revs) + 1
             rev == LandingOf(repo)
             c   == Context(repo', id, rev)
             p   == Def[n]
  <2>1. Landed(id, rev) /\ IInv'
    BY <1>1, OnlyLand
  <2> HIDE DEF id, rev
  <2>2. Inherits(rev) /\ Good(repo') /\ repo'.revs[id] = rev /\ repo'.trunk = id
    BY <1>1, <2>1, LandedIs DEF id, rev, Landed
  <2>3. Asks(Holds(c), c, n)
    BY <1>1, <2>1, RequiredHolds
  <2>4. HoldsJudge(c, p)
    BY <1>1, <2>3 DEF Asks
  <2>5. c.author = Author /\ c.atts = CollectFor(repo', id, rev)
    BY DEF Context
  <2>6. ASSUME NEW a \in repo'.atts, a.kind = p.name
        PROVE  a.runner = Nobody /\ Signer(a) = a.verifier /\ a.subject \in {"revision"} \X Nat
    <3>1. ByHandFits(a)
      BY <1>1, <2>2, <2>6, PartiesAssumption DEF Good, AttsFit, SignedFits
    <3> QED
      BY <3>1 DEF ByHandFits, Signer
  <2>7. ASSUME NEW a \in Verdicts(c, p)
        PROVE  /\ a \in repo'.atts /\ a.kind = p.name /\ a.conf >= p.minConfidence
               /\ ParentOf[a.verifier] # ParentOf[Author]
               /\ a.subject \in {RevRef(rev.prev), RevRef(id)}
    <3>1. /\ a \in c.atts /\ a.kind = p.name /\ OnSubject(c, a) /\ ~OwnJudge(c, a)
          /\ a.conf >= p.minConfidence
      BY <2>7 DEF Verdicts
    <3>2. a \in repo'.atts
      BY <2>5, <3>1 DEF CollectFor
    <3>3. ParentOf[a.verifier] # ParentOf[Author]
      BY <2>5, <2>6, <3>1, <3>2, PartiesAssumption DEF OwnJudge
    <3>4. a.subject # SnapRef(rev.snap)
      BY <2>6, <3>1, <3>2 DEF SnapRef
    <3>5. a.subject \in {RevRef(rev.prev), RevRef(id)}
      BY <3>1, <3>4, SubjectsAre
    <3> QED
      BY <3>1, <3>2, <3>3, <3>5
  <2>8. ASSUME NEW a \in repo'.atts, a.kind = p.name, a.conf >= p.minConfidence,
               ParentOf[a.verifier] # ParentOf[Author],
               a.subject \in {RevRef(rev.prev), RevRef(id)}
        PROVE  a \in Verdicts(c, p)
    <3>1. a \in c.atts
      BY <2>5, <2>8 DEF CollectFor
    <3>2. OnSubject(c, a)
      BY <2>2, <2>8, SubjectsAre
    <3>3. ~OwnJudge(c, a)
      BY <2>5, <2>6, <2>8 DEF OwnJudge
    <3> QED
      BY <2>8, <3>1, <3>2, <3>3 DEF Verdicts
  <2>9. \E a \in Verdicts(c, p) : Truthy(a)
    <3> DEFINE yes  == {a \in Verdicts(c, p) : Truthy(a)}
               keys == {JudgeKey(a) : a \in yes}
    <3>1. Cardinality(keys) >= (IF p.judges < 1 THEN 1 ELSE p.judges)
      BY <2>4 DEF HoldsJudge
    <3>2. p.judges \in Nat
      BY <1>1, DefAssumption
    <3>3. keys = {} => Cardinality(keys) = 0
      BY FS_EmptySet
    <3> HIDE DEF keys
    <3>4. keys # {}
      BY <3>1, <3>2, <3>3
    <3> QED
      BY <3>4 DEF keys
  <2>10. \A a \in Verdicts(c, p) : Truthy(a)
    BY <2>4 DEF HoldsJudge
  <2> HIDE DEF c, p
  <2> DEFINE said(v) == {a \in repo'.atts : 
                           /\ a.kind = p.name /\ a.result = v
                           /\ a.conf >= p.minConfidence
                           /\ ParentOf[a.verifier] # ParentOf[Author]
                           /\ a.subject \in {RevRef(rev.prev), RevRef(id)}}
  <2>11. said(TRUE) # {}
    BY <2>7, <2>9 DEF Truthy
  <2>12. said(FALSE) = {}
    BY <2>8, <2>10 DEF Truthy
  <2> QED
    BY <2>2, <2>11, <2>12 DEF p
<1>2. IInv /\ [Next]_vars =>
        \A n \in DOMAIN Def :
         Landing /\ Def[n].kind = "judge" /\ AsksFor(n) =>
           LET new == repo'.revs[repo'.trunk]
               said(v) == {a \in repo'.atts : 
                             /\ a.kind = Def[n].name /\ a.result = v
                             /\ a.conf >= Def[n].minConfidence
                             /\ ParentOf[a.verifier] # ParentOf[Author]
                             /\ a.subject \in {RevRef(new.prev), RevRef(repo'.trunk)}}
           IN  said(TRUE) # {} /\ said(FALSE) = {}
  BY <1>1
<1> QED
  BY <1>2, Invariance, PTL DEF Spec, JudgedByOthers

\* A passing suite on the snapshot, or on the bodies of every unit that changed,
\* was run on what some revision is.
LEMMA TestedSomewhere ==
  ASSUME NEW rp, Good(rp), NEW id \in DOMAIN rp.revs, NEW p,
         p.name = "tests.pass", p.for = "none", ~p.self,
         \A a \in rp.atts : a.kind = "tests.pass" =>
            (a.runner = Owner \/ KindOf[a.verifier] = "session") /\ a.whole,
         HoldsAttest(Context(rp, id, rp.revs[id]), p),
         NEW u \in ChangedUnits(Context(rp, id, rp.revs[id]))
  PROVE  \E r \in DOMAIN rp.revs :
           LET s == rp.revs[r].snap
           IN  u.body \in {v.body : v \in Units(s)} /\ TestPasses(s.t, s.fn)
<1> DEFINE rev == rp.revs[id]
           c   == Context(rp, id, rev)
<1>1. rev.snap \in Snapshot
  BY AuthorsFit DEF Rev
<1>2. u \in Units(rev.snap)
  BY DEF ChangedUnits, Context
<1>3. ASSUME NEW a \in c.atts, a.kind = "tests.pass", Truthy(a), Trusted(a, p.self)
      PROVE  \E s \in Snapshot :
               /\ Held(rp.revs, s) /\ a.subject \in {Nobody, SnapRef(s)} /\ a.bodies \subseteq Pair(s)
               /\ TestPasses(s.t, s.fn)
  <2>1. a \in rp.atts /\ a.result
    BY <1>3 DEF Context, CollectFor, Truthy
  <2>2. a.whole /\ (a.runner = Owner \/ KindOf[a.verifier] = "session")
    BY <1>3, <2>1
  <2>3. KindOf[Signer(a)] \in TrustedAttesters
    BY <1>3 DEF Trusted
  <2>4. SignedFits(rp.revs, a)
    <3>1. SUFFICES ASSUME ByHandFits(a) PROVE FALSE
      BY <2>1 DEF Good, AttsFit
    <3>2. a.runner = Nobody /\ a.runner # Owner
      BY <3>1, PartiesAssumption DEF ByHandFits
    <3>3. KindOf[Signer(a)] = "session"
      BY <2>2, <3>2 DEF Signer
    <3> QED
      BY <2>3, <3>3 DEF TrustedAttesters
  <2>5. a.kind \notin NewKinds
    BY <1>3, PartiesAssumption DEF NewKinds
  <2> QED
    BY <2>1, <2>2, <2>4, <2>5 DEF SignedFits
<1>4. CASE SubjectAttested(c, "tests.pass", p.self)
  <2>1. PICK a \in c.atts : a.kind = "tests.pass" /\ Truthy(a) /\ Trusted(a, p.self) /\ OnSubject(c, a)
    BY <1>4 DEF SubjectAttested
  <2>2. PICK s \in Snapshot : a.subject \in {Nobody, SnapRef(s)} /\ TestPasses(s.t, s.fn)
    BY <1>3, <2>1
  <2>3. a.subject \in {RevRef(id), SnapRef(rev.snap), RevRef(rev.prev)}
    BY <2>1, SubjectsAre
  <2>4. id \in Nat /\ rev.prev \in Nat
    BY AuthorsFit DEF Rev
  <2>5. RevRef(id) # Nobody /\ RevRef(rev.prev) # Nobody /\ SnapRef(rev.snap) # Nobody
    BY <1>1, <2>4, SubjectsAssumption DEF RevRef, SnapRef
  <2>6. rev.snap = s
    BY <2>2, <2>3, <2>5 DEF RevRef, SnapRef
  <2> QED
    BY <1>2, <2>2, <2>6
<1>5. CASE /\ {n \in ChangedUnits(c) : n.kind \notin Uncoverable \/ n.kind \in TestKinds} # {}
           /\ UncoveredByBodies(c, "tests.pass",
                 {n \in ChangedUnits(c) : n.kind \notin Uncoverable \/ n.kind \in TestKinds}, p.self) = {}
  <2>1. u.kind \notin Uncoverable \/ u.kind \in TestKinds
    BY <1>2, UnitsAre DEF Uncoverable, TestKinds
  <2>2. u.body \in CoveredBodies(c, "tests.pass", p.self)
    BY <1>5, <2>1 DEF UncoveredByBodies
  <2>3. PICK a \in c.atts : /\ a.kind = "tests.pass" /\ Truthy(a) /\ Trusted(a, p.self)
                            /\ u.body \in a.bodies
    BY <2>2 DEF CoveredBodies
  <2>4. PICK s \in Snapshot : Held(rp.revs, s) /\ a.bodies \subseteq Pair(s) /\ TestPasses(s.t, s.fn)
    BY <1>3, <2>3
  <2>5. PICK r \in DOMAIN rp.revs : rp.revs[r].snap.fn = s.fn /\ rp.revs[r].snap.t = s.t
    BY <2>4 DEF Held
  <2> DEFINE now == rp.revs[r].snap
  <2>6. u.body \in Pair(now) /\ TestPasses(now.t, now.fn)
    BY <2>3, <2>4, <2>5 DEF Pair
  <2>7. u.body \in {v.body : v \in Units(now)}
    <3>1. CASE u.body = <<"fn", now.fn>>
      <4>1. Unit("fn", "function", <<"fn", now.fn>>, {}) \in Units(now)
        BY DEF Units
      <4>2. Unit("fn", "function", <<"fn", now.fn>>, {}).body = <<"fn", now.fn>>
        BY DEF Unit
      <4> QED
        BY <3>1, <4>1, <4>2
    <3>2. CASE u.body = <<"t", now.t>>
      <4>1. now.t # 0
        BY <1>2, <3>2, UnitsAre
      <4>2. Unit("t", "test", <<"t", now.t>>, {"fn"}) \in Units(now)
        BY <4>1 DEF Units
      <4>3. Unit("t", "test", <<"t", now.t>>, {"fn"}).body = <<"t", now.t>>
        BY DEF Unit
      <4> QED
        BY <3>2, <4>2, <4>3
    <3> QED
      BY <2>6, <3>1, <3>2 DEF Pair
  <2> QED
    BY <2>6, <2>7
<1> HIDE DEF c
<1>6. \/ SubjectAttested(c, "tests.pass", p.self)
      \/ /\ {n \in ChangedUnits(c) : n.kind \notin Uncoverable \/ n.kind \in TestKinds} # {}
         /\ UncoveredByBodies(c, "tests.pass",
              {n \in ChangedUnits(c) : n.kind \notin Uncoverable \/ n.kind \in TestKinds}, p.self) = {}
  BY DEF HoldsAttest, c
<1> QED
  BY <1>4, <1>5, <1>6

\* No change lands with a unit that no passing run has executed.
THEOREM NothingLandsUntested == Spec => LandedUnitsWereTested
<1>1. ASSUME IInv, [Next]_vars, NEW n \in DOMAIN Def, Landing, Def[n].kind = "attest",
             Def[n].name = "tests.pass", AsksFor(n), Def[n].for = "none", ~Def[n].self,
             \A a \in repo'.atts : a.kind = "tests.pass" =>
                (a.runner = Owner \/ KindOf[a.verifier] = "session") /\ a.whole,
             NEW u \in ChangedUnits(Context(repo', repo'.trunk, repo'.revs[repo'.trunk]))
      PROVE  \E r \in DOMAIN repo'.revs :
               LET s == repo'.revs[r].snap
               IN  u.body \in {v.body : v \in Units(s)} /\ TestPasses(s.t, s.fn)
  <2> DEFINE id  == Len(repo.revs) + 1
             rev == LandingOf(repo)
             c   == Context(repo', id, rev)
  <2>1. Landed(id, rev) /\ IInv'
    BY <1>1, OnlyLand
  <2> HIDE DEF id, rev
  <2>2. Good(repo') /\ repo'.revs[id] = rev /\ repo'.trunk = id /\ id \in DOMAIN repo'.revs
    BY <1>1, <2>1, LandedIs DEF id, rev, Landed
  <2>3. Asks(Holds(c), c, n)
    BY <1>1, <2>1, RequiredHolds
  <2>4. HoldsAttest(c, Def[n])
    BY <1>1, <2>3 DEF Asks
  <2>5. u \in ChangedUnits(c)
    BY <2>2
  <2> HIDE DEF c
  <2> QED
    BY <1>1, <2>2, <2>4, <2>5, TestedSomewhere DEF c
<1>2. IInv /\ [Next]_vars =>
        \A n \in DOMAIN Def :
         /\ Landing /\ Def[n].kind = "attest" /\ Def[n].name = "tests.pass" /\ AsksFor(n)
         /\ Def[n].for = "none" /\ ~Def[n].self
         /\ \A a \in repo'.atts : a.kind = "tests.pass" =>
               (a.runner = Owner \/ KindOf[a.verifier] = "session") /\ a.whole
         => LET c == Context(repo', repo'.trunk, repo'.revs[repo'.trunk])
            IN  \A u \in ChangedUnits(c) : \E r \in DOMAIN repo'.revs :
                  LET s == repo'.revs[r].snap
                  IN  u.body \in {v.body : v \in Units(s)} /\ TestPasses(s.t, s.fn)
  BY <1>1
<1> QED
  BY <1>2, Invariance, PTL DEF Spec, LandedUnitsWereTested

===============================================================================
