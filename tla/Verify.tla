------------------------------- MODULE Verify -------------------------------
(***************************************************************************)
(* One daemon, its lock, and what a change needs to land: verify, the      *)
(* attestations, the approval requests and the standard (server.rs,        *)
(* verifiers.rs, the verbs verify, attest, approve, standard and the part  *)
(* of landing that asks the standard).                                     *)
(*                                                                         *)
(* repo is what the repository lock guards.  Every verb is one step under  *)
(* it, except a verify whose tools have to run: it plans with the lock     *)
(* (VerifyPlan), runs each tool without it (StartTool, EndTool) in a       *)
(* scratch directory named after the snapshot, and takes the lock again to *)
(* record and to answer (VerifyFinish).  Directories are shared by every   *)
(* verify of one snapshot.                                                 *)
(*                                                                         *)
(* The program under change has a function fn, a test t that calls it      *)
(* (0 is none), a unit other and its test t0, which the change leaves      *)
(* alone.  A snapshot gives each its body.  TestPasses is what the test    *)
(* runner would say of a body of t against a body of fn.                   *)
(***************************************************************************)
EXTENDS Standard, SequencesExt

CONSTANTS Caller,          \* connections that send verify
          Human, Owner,    \* a human, the daemon's owner
          Author,          \* the session whose change this is
          Order,           \* the attest predicates, in the order of the clauses
          Tools,           \* the kinds a local verifier proves
          Standards,       \* the standards the line may have
          Edits,           \* the changes of the standard the owner may make
          Start,           \* standard -> the body of t on trunk at first
          Base,            \* the standard that trunk's extends
          HandMade,        \* standard -> what is attested by hand: [by, kind, result, conf]
          Contents,        \* standard -> the snapshots the author may take
          Full,            \* the standards under which a verify asks for every verifier
          MaxRevs, MaxByHand, MaxEdits   \* bounds

ASSUME BoundsAssumption == {MaxRevs, MaxByHand, MaxEdits} \subseteq Nat

(* The author is a session of an agent.  A local verifier attests neither for a
   judge nor for a human, and that the suite passes is not asked of the parent,
   where the new tests are to fail. *)
ASSUME PartiesAssumption ==
    /\ Nobody \notin {Owner, ParentOf[Author]}
    /\ Order \in Seq(DOMAIN Def)
    /\ "approval.human" \notin Tools
    /\ \A n \in DOMAIN Def :
          /\ Def[n].kind = "judge" => Def[n].name \notin Tools
          /\ Def[n].kind = "attest" /\ Def[n].name = "tests.pass" => Def[n].for # "new_tests"

VARIABLES repo,     \* what the repository lock guards
          dirs,     \* scratch directories: label -> who materialized it last
          call      \* per connection, the verify it is in

vars == <<repo, dirs, call>>

TestPasses(t, fn) == t = 0 \/ t = 2 \/ (t = 1 /\ fn = 2)

Snapshot == [fn : 1 .. 3, other : 0 .. 1, t : 0 .. 2]

Unit(nid, kind, body, deps) ==
    [nid |-> nid, kind |-> kind, name |-> nid, ident |-> TRUE, body |-> body, deps |-> deps]

Units(s) ==
    {Unit("fn", "function", <<"fn", s.fn>>, {}),
     Unit("other", "function", <<"other", s.other>>, {}),
     Unit("t0", "test", <<"t0", 1>>, {"other"})}
    \cup (IF s.t = 0 THEN {} ELSE {Unit("t", "test", <<"t", s.t>>, {"fn"})})

(* The score of a change: its size, the units that depend on what changed, the
   changed code no test calls, the tests weakened and a change of a manifest.
   Secrets, scopes, sensitive paths and collisions are not in this program. *)
RiskScore(c, manifest) ==
    LET changed    == {n \in ChangedUnits(c) : n.kind \notin {"import", "chunk"}}
        ids        == {n.nid : n \in changed}
        code       == Coverable(changed)
        dependents == {n \in c.units :
                          n.nid \notin ids /\ n.kind # "test" /\ n.deps \cap ids # {}}
        untested   == {n \in code : n.ident /\ n.nid \notin Exercised(c)}
        points(S, each, most) == Min({Cardinality(S) * each, most})
    IN  Min({100,   (IF Cardinality(code) >= 4 THEN points(code, 3, 30) ELSE 0)
                  + points(dependents, 2, 25) + points(untested, 8, 30)
                  + points(StructuralUnits(c, "test.weakened"), 15, 30)
                  + (IF manifest THEN 15 ELSE 0)})

LevelOf(score) ==
    CASE score < 20 -> "low" [] score < 45 -> "medium" [] score < 75 -> "high"
      [] OTHER -> "critical"

(* A change of the function comes with a dependency in the manifest.  @@ makes
   a table of it, computed once. *)
RiskLevel ==
    [s, before \in Snapshot |->
        LevelOf(RiskScore([units |-> Units(s), before |-> Units(before)], s.fn # before.fn))] @@ << >>

RevRef(r) == <<"revision", r>>
SnapRef(s) == <<"snapshot", s>>

ASSUME SubjectsAssumption ==
    Nobody \notin ({"revision"} \X Nat) \cup ({"snapshot"} \X Snapshot)

(* An approval is taken by hand from the human only (attest_verb). *)
ASSUME ScriptAssumption ==
    \A s \in Standards :
        /\ Start[s] \in 0 .. 2 /\ Contents[s] \subseteq Snapshot
        /\ \A h \in HandMade[s] : h.kind = "approval.human" => h.by = Human

-----------------------------------------------------------------------------
(* The attestations that apply, and the verdict.                           *)

SubjectsOfAmended(id, rev) ==
    IF rev.prev # 0 THEN <<RevRef(id), RevRef(rev.prev), SnapRef(rev.snap)>>
    ELSE <<RevRef(id), SnapRef(rev.snap)>>

(* A revision inherits what was attested on the one it supersedes only when
   the system merged that one onto a new base, which its second parent says. *)
Inherits(rev) == rev.prev # 0 /\ Len(rev.parents) > 1 /\ rev.parents[2] = rev.prev

SubjectsOf(id, rev) ==
    IF Inherits(rev) THEN <<RevRef(id), RevRef(rev.prev), SnapRef(rev.snap)>>
    ELSE <<RevRef(id), SnapRef(rev.snap)>>

(* By subject on the revision, the one before it and the snapshot, and by
   body on every body of its units. *)
CollectFor(rp, id, rev) ==
    {a \in rp.atts :
        \/ a.subject \in {RevRef(id), RevRef(rev.prev), SnapRef(rev.snap)}
        \/ a.bodies \cap {n.body : n \in Units(rev.snap)} # {}}

ParentSnap(rp, rev) == rp.revs[rev.parents[1]].snap

Context(rp, id, rev) ==
    [subjects |-> SubjectsOf(id, rev), atts |-> CollectFor(rp, id, rev),
     units |-> Units(rev.snap), before |-> Units(ParentSnap(rp, rev)),
     flags |-> {}, intent |-> Nobody, author |-> Author]

Chain(rp) == <<Base, rp.std>>

Status(rp, id, rev) == UNION {Evaluate(c, Chain(rp)) : c \in {Context(rp, id, rev)}}

-----------------------------------------------------------------------------
(* What is written under the lock.                                         *)

Attestation(kind, subject, bodies, result, verifier, runner) ==
    [kind |-> kind, subject |-> subject, bodies |-> bodies, result |-> result,
     conf |-> 1000, value |-> 0, level |-> "low", whole |-> TRUE,
     verifier |-> verifier, runner |-> runner, time |-> 0]

(* A time is kept for the attestations whose order counts, those that no
   runner signed: their order within a kind. *)
Attest(rp, a) ==
    LET earlier == {b \in rp.atts : b.kind = a.kind /\ b.runner = Nobody}
    IN  [rp EXCEPT !.atts = @ \cup {[a EXCEPT !.time = Cardinality(earlier) + 1]}]

(* A risk is attested once on a revision. *)
EnsureRisk(rp, id, rev) ==
    IF \E a \in rp.atts : a.kind = "risk.change" /\ a.subject = RevRef(id) THEN rp
    ELSE Attest(rp, [Attestation("risk.change", RevRef(id), {}, FALSE, Owner, Nobody)
                        EXCEPT !.level = RiskLevel[rev.snap, ParentSnap(rp, rev)]])

(* An unmet clause that a human can meet: one that names an approval, or a
   judge's when a judge has said no. *)
Mentions(k, kind) ==
    \E n \in UNION {Inside(m) : m \in {k.pred, k.unless} \cap DOMAIN Def} : Def[n].kind = kind

JudgeSaidNo(c, k) ==
    \E n \in {k.pred} \cap DOMAIN Def : 
        Def[n].kind = "judge" /\ \E a \in Verdicts(c, Def[n]) : ~Truthy(a)

NeedsHuman(c, k) == Mentions(k, "approved") \/ (Mentions(k, "judge") /\ JudgeSaidNo(c, k))

NeverAsked(rp, id) == FALSE

AlreadyAsked(rp, id) ==
    \E i \in DOMAIN rp.requests : rp.requests[i] = [rev |-> id, status |-> "active"]

(* Ask the humans, once while the question is open. *)
EnsureRequest(rp, id, rev, c, unmet) ==
    IF \A k \in unmet : ~NeedsHuman(c, k) THEN rp
    ELSE LET risked == EnsureRisk(rp, id, rev)
         IN  IF AlreadyAsked(rp, id) THEN risked
             ELSE [risked EXCEPT !.requests = Append(@, [rev |-> id, status |-> "active"])]

CloseRequests(rp, id) ==
    [rp EXCEPT !.requests = [i \in DOMAIN @ |->
        IF @[i].rev = id /\ @[i].status = "active" THEN [@[i] EXCEPT !.status = "resolved"]
        ELSE @[i]]]

-----------------------------------------------------------------------------
(* Plan, run, record.                                                      *)

Tests(s) == {n \in Units(s) : n.kind = "test"}
Covering(s, u) == {t \in Tests(s) : u.nid \in t.deps}

(* The tests that cover what changed, when every changed unit has one and
   they are fewer than the suite; none otherwise. *)
Selected(s, before, full) ==
    LET changed == ChangedUnits([units |-> Units(s), before |-> Units(before)])
        picked  == UNION {IF u.kind = "test" THEN {u} ELSE Covering(s, u) : u \in changed}
        covered == changed # {} /\ \A u \in changed : u.kind = "test" \/ Covering(s, u) # {}
    IN  IF ~full /\ covered /\ Cardinality(picked) < Cardinality(Tests(s))
        THEN [tests |-> picked, bodies |-> {u.body : u \in picked \cup changed}]
        ELSE [tests |-> {}, bodies |-> {}]

Needed(unmet, n, full) ==
    full \/ \E k \in unmet :
                \E q \in UNION {Inside(m) : m \in {k.pred, k.unless} \cap DOMAIN Def} :
                    Def[q].kind = "attest" /\ Def[q].name = Def[n].name

(* One planned run: what it proves, where, and what it will attest. *)
RunOf(n, rev, before, full) ==
    LET s   == rev.snap
        sel == Selected(s, before, full)
    IN  IF Def[n].for = "new_tests"
        THEN [kind |-> Def[n].name, how |-> "new", label |-> <<"parent", s>>,
              fn |-> before.fn, t |-> s.t, subject |-> Nobody, bodies |-> {<<"t", s.t>>}]
        ELSE [kind |-> Def[n].name, how |-> "suite", label |-> <<"snap", s>>,
              fn |-> s.fn, t |-> s.t,
              subject |-> IF sel.tests = {} THEN SnapRef(s) ELSE Nobody,
              bodies |-> sel.bodies]

(* The runs of a plan, each at its place in the order. *)
PlanRuns(rp, id, rev, full) ==
    LET before == ParentSnap(rp, rev)
        c      == Context(rp, id, rev)
        unmet  == Status(rp, id, rev)
        wanted == {n \in RequiredAttestations(Chain(rp)) :
                     /\ Needed(unmet, n, full)
                     /\ Def[n].name \in Tools
                     /\ Def[n].for = "new_tests" => NewTests(c) # {}}
    IN  [i \in {j \in DOMAIN Order : Order[j] \in wanted} |-> RunOf(Order[i], rev, before, full)]

Labels(runs) == {runs[i].label : i \in DOMAIN runs}

(* What a tool left alone reports: the suite passes, or the new test fails on
   the parent.  One that is killed at its timeout reports nothing, which is a
   failure of the suite and taken as a failure on the parent. *)
Truth(run) == IF run.how = "new" THEN ~TestPasses(run.t, run.fn) ELSE TestPasses(run.t, run.fn)

Outcome(ok, whole, err) == [ok |-> ok, whole |-> whole, err |-> err]
Finished(run) == Outcome(Truth(run), TRUE, FALSE)
TimedOut(run) == Outcome(run.how = "new", TRUE, FALSE)
Torn == Outcome(TRUE, FALSE, FALSE)
SpawnFailed == Outcome(FALSE, TRUE, TRUE)

(* What a run attests. *)
Recorded(run, out) ==
    [Attestation(run.kind, run.subject, run.bodies, out.ok, Owner, Owner) EXCEPT !.whole = out.whole]

(* The runs before the first that could not be started. *)
Started(outs) == {i \in DOMAIN outs : \A j \in DOMAIN outs : j <= i => ~outs[j].err}

(* Faulty variant of RecordAll: of the author's content as it is by now. *)
RecordAllCurrent(rp, runs, outs) ==
    LET s     == rp.revs[rp.cur].snap
        now(i) == [runs[i] EXCEPT !.subject = Nobody, !.bodies = {<<"t", s.t>>, <<"fn", s.fn>>}]
    IN  [rp EXCEPT !.atts = @ \cup {Recorded(now(i), outs[i]) : i \in Started(outs)}]

(* Record the runs up to the first that could not be started. *)
RecordAll(rp, runs, outs) ==
    [rp EXCEPT !.atts = @ \cup {Recorded(runs[i], outs[i]) : i \in Started(outs)}]

(* The second half of a verify, once its runs are recorded. *)
Complete(rp, id) ==
    LET rev    == rp.revs[id]
        risked == EnsureRisk(rp, id, rev)
    IN  EnsureRequest(risked, id, rev, Context(risked, id, rev), Status(risked, id, rev))

Idle == [pc |-> "idle", rev |-> 0, runs |-> << >>, outs |-> << >>, saw |-> Nobody]

-----------------------------------------------------------------------------
(* Verify.                                                                 *)

(* A verify with nothing to run is one step. *)
VerifyNow(c) ==
    /\ call[c].pc = "idle"
    /\ DOMAIN PlanRuns(repo, repo.cur, repo.revs[repo.cur], repo.std \in Full) = {}
    /\ repo' = Complete(repo, repo.cur)
    /\ UNCHANGED <<dirs, call>>

VerifyPlan(c) ==
    /\ call[c].pc = "idle"
    /\ \E runs \in {PlanRuns(repo, repo.cur, repo.revs[repo.cur], repo.std \in Full)} :
        /\ DOMAIN runs # {}
        /\ call' = [call EXCEPT ![c] = [Idle EXCEPT !.pc = "ready", !.rev = repo.cur, !.runs = runs]]
        /\ dirs' = [l \in Labels(runs) |-> c] @@ dirs
        /\ UNCHANGED repo

(* The next run of a verify, and what became of it. *)
Place(c) == Min(DOMAIN call[c].runs \ DOMAIN call[c].outs)
Run(c) == call[c].runs[Place(c)]

AddOutcome(c, out) ==
    LET places == DOMAIN call[c].outs \cup {Place(c)}
        outs   == [i \in places |-> IF i = Place(c) THEN out ELSE call[c].outs[i]]
    IN  call' = [call EXCEPT ![c].outs = outs, ![c].saw = Nobody,
                   ![c].pc = IF places = DOMAIN call[c].runs THEN "done" ELSE "ready"]

StartToolWaits(c) ==
    /\ call[c].pc = "ready"
    /\ Run(c).label \in DOMAIN dirs
    /\ call' = [call EXCEPT ![c].pc = "tool", ![c].saw = dirs[Run(c).label]]
    /\ UNCHANGED <<repo, dirs>>

(* A tool cannot start in a directory that another verify has removed. *)
StartTool(c) ==
    /\ call[c].pc = "ready"
    /\ IF Run(c).label \in DOMAIN dirs
       THEN call' = [call EXCEPT ![c].pc = "tool", ![c].saw = dirs[Run(c).label]]
       ELSE AddOutcome(c, SpawnFailed)
    /\ UNCHANGED <<repo, dirs>>

(* A tool left alone reports what is so, or is killed.  One whose directory was
   removed or written again under it fails like one that is killed, or passes
   on the part of the tree it found. *)
EndTool(c) ==
    /\ call[c].pc = "tool"
    /\ LET run   == Run(c)
           alone == run.label \in DOMAIN dirs /\ dirs[run.label] = call[c].saw
       IN  \E out \in {Finished(run), TimedOut(run)} \cup
                      (IF alone THEN {} ELSE {Torn}) :
               AddOutcome(c, out)
    /\ UNCHANGED <<repo, dirs>>

VerifyFinish(c) ==
    /\ call[c].pc = "done"
    /\ \E rp \in {RecordAll(repo, call[c].runs, call[c].outs)} :
         repo' = IF \E i \in DOMAIN call[c].outs : call[c].outs[i].err THEN rp
                 ELSE Complete(rp, call[c].rev)
    /\ dirs' = Restrict(dirs, DOMAIN dirs \ Labels(call[c].runs))
    /\ call' = [call EXCEPT ![c] = Idle]

-----------------------------------------------------------------------------
(* The other verbs, each one step under the lock.                          *)

ByHand(rp) == Cardinality({a \in rp.atts : a.runner = Nobody /\ a.kind # "risk.change"})

LandedRevs(rp) ==
    LET up[n \in 1 .. Len(rp.revs)] ==
          {n} \cup (IF rp.revs[n].parents = << >> THEN {} ELSE up[rp.revs[n].parents[1]])
    IN  up[rp.trunk]

(* The author's next content: an amendment of the change, or the first
   revision of another once it has landed. *)
Resnapshot(s) ==
    LET r      == repo.revs[repo.cur]
        landed == repo.cur \in LandedRevs(repo)
    IN  /\ Len(repo.revs) < MaxRevs
        /\ [s EXCEPT !.other = r.snap.other] # r.snap
        /\ repo' = [repo EXCEPT
                      !.revs = Append(@, [snap |-> [s EXCEPT !.other = r.snap.other], own |-> Len(@) + 1,
                                 prev |-> IF landed THEN 0 ELSE repo.cur,
                                 parents |-> IF landed THEN <<repo.cur>> ELSE r.parents]),
                      !.cur = Len(repo.revs) + 1]
        /\ UNCHANGED <<dirs, call>>

(* Another change lands: the other unit changes under this one. *)
TrunkMoves ==
    /\ Len(repo.revs) < MaxRevs
    /\ repo.revs[repo.trunk].snap.other = 0
    /\ repo.trunk # repo.cur
    /\ repo' = [repo EXCEPT
                  !.revs = Append(@, [snap |-> [@[repo.trunk].snap EXCEPT !.other = 1],
                             own |-> 0, prev |-> 0, parents |-> <<repo.trunk>>]),
                  !.trunk = Len(repo.revs) + 1]
    /\ UNCHANGED <<dirs, call>>

LandingOf(rp) ==
    LET r == rp.revs[rp.cur]
    IN  [r EXCEPT !.snap = [@ EXCEPT !.other = rp.revs[rp.trunk].snap.other],
                  !.prev = rp.cur, !.parents = <<rp.trunk, rp.cur>>]

(* A refused landing is asked about on the change's own revision, the one a
   human sees, not on the merged one, which is not kept. *)
AskAbout(rp, id) == rp.cur

(* Landing asks the standard of the merged revision, runs what is missing
   there with the lock held, and asks again. *)
Land ==
    /\ repo.cur \notin LandedRevs(repo)
    /\ Len(repo.revs) < MaxRevs
    /\ LET id == Len(repo.revs) + 1
       IN  \E rev \in {LandingOf(repo)} :
           \E staged \in {[repo EXCEPT !.revs = Append(@, rev)]} :
           \E runs \in {IF Status(staged, id, rev) = {} THEN << >>
                         ELSE PlanRuns(staged, id, rev, FALSE)} :
           \E killed \in SUBSET DOMAIN runs :
           \E ran \in {RecordAll(staged, runs, [i \in DOMAIN runs |->
                           IF i \in killed THEN TimedOut(runs[i]) ELSE Finished(runs[i])])} :
           \E unmet \in {Status(ran, id, rev)} :
             /\ repo' = IF unmet = {}
                        THEN CloseRequests([ran EXCEPT !.trunk = id, !.cur = id], repo.cur)
                        ELSE [EnsureRequest(ran, AskAbout(repo, id), staged.revs[AskAbout(repo, id)],
                                            Context(ran, id, rev), unmet)
                                EXCEPT !.revs = repo.revs]
             /\ dirs' = Restrict(dirs, DOMAIN dirs \ Labels(runs))
    /\ UNCHANGED call

(* An attestation under the caller's own principal; approvals only by humans,
   through approve. *)
AttestVerb(h) ==
    /\ ByHand(repo) < MaxByHand
    /\ repo' = Attest(repo, [Attestation(h.kind, RevRef(repo.cur), {}, h.result, h.by, Nobody)
                               EXCEPT !.conf = h.conf])
    /\ UNCHANGED <<dirs, call>>

(* A human answers a request, an open one or one already answered. *)
Approve(i, decision) ==
    /\ ByHand(repo) < MaxByHand
    /\ repo' = [Attest(repo, Attestation("approval.human", RevRef(repo.requests[i].rev), {},
                                         decision, Human, Nobody))
                  EXCEPT !.requests[i].status = IF decision THEN "resolved" ELSE "declined"]
    /\ UNCHANGED <<dirs, call>>

(* The owner edits the standard. *)
StandardVerb(s) ==
    /\ repo.edits < MaxEdits /\ <<repo.std, s>> \in Edits
    /\ repo' = [repo EXCEPT !.std = s, !.edits = @ + 1]
    /\ UNCHANGED <<dirs, call>>

(* The daemon stops, asked to or idle for long enough since the last request
   began, and takes the verifies under way with it; the next command starts
   another.  A stop between verifies loses nothing and is left out. *)
Stop ==
    /\ \E c \in Caller : call[c].pc # "idle"
    /\ call' = [c \in Caller |-> Idle]
    /\ UNCHANGED <<repo, dirs>>

-----------------------------------------------------------------------------
Init ==
    /\ \E s \in Standards : repo =
         [revs |-> <<[snap |-> [fn |-> 1, other |-> 0, t |-> Start[s]], own |-> 0, prev |-> 0,
                      parents |-> << >>],
                     [snap |-> [fn |-> 2, other |-> 0, t |-> 1], own |-> 2, prev |-> 0,
                      parents |-> <<1>>]>>,
          trunk |-> 1, cur |-> 2, atts |-> {}, requests |-> << >>, std |-> s, edits |-> 0]
    /\ dirs = << >>
    /\ call = [c \in Caller |-> Idle]

Verifying == \E c \in Caller : VerifyNow(c) \/ VerifyPlan(c)
                               \/ StartTool(c) \/ EndTool(c) \/ VerifyFinish(c)

Next ==
    \/ Verifying
    \/ \E s \in Contents[repo.std] : Resnapshot(s)
    \/ TrunkMoves
    \/ Land
    \/ \E h \in HandMade[repo.std] : AttestVerb(h)
    \/ \E i \in DOMAIN repo.requests, d \in BOOLEAN : Approve(i, d)
    \/ \E s \in Standards : StandardVerb(s)
    \/ Stop

(* A tool ends on its own or is killed at its timeout, and a thread that waits
   for the lock gets it, because no other step keeps it. *)
Fairness == \A c \in Caller : WF_vars(StartTool(c)) /\ WF_vars(EndTool(c)) /\ WF_vars(VerifyFinish(c))

Spec == Init /\ [][Next]_vars /\ Fairness

-----------------------------------------------------------------------------
(* What a run recorded is true of what it names: the tests pass on the
   snapshot, or on the bodies of the function and the test, that the
   attestation carries.  Between the plan and the record the author may have
   gone on to other content and trunk may have moved.  Runs whose directory
   another verify took from under them are set apart. *)
RecordedIsSo ==
    \A a \in repo.atts :
        (a.kind = "tests.pass" /\ a.runner = Owner /\ a.whole /\ a.result) =>
            /\ \A s \in Snapshot : a.subject = SnapRef(s) => TestPasses(s.t, s.fn)
            /\ \A t \in 0 .. 2, fn \in 1 .. 3 :
                  {<<"t", t>>, <<"fn", fn>>} \subseteq a.bodies => TestPasses(t, fn)

Landing == repo'.trunk # repo.trunk /\ repo'.cur = repo'.trunk

AsksFor(n) == \E i \in DOMAIN Chain(repo) : \E k \in Chain(repo)[i].clauses :
                  k.op = "require" /\ k.pred = n /\ k.unless = Nobody

(* No change lands with a unit that no passing run has executed: under a
   standard that requires tests.pass of another than the author, each unit the
   landing changes has the body it had in some revision on which the suite
   passes.  External results, which come from elsewhere, and torn runs are set
   apart. *)
LandedUnitsWereTested ==
    [][\A n \in DOMAIN Def :
         /\ Landing /\ Def[n].kind = "attest" /\ Def[n].name = "tests.pass" /\ AsksFor(n)
         /\ Def[n].for = "none" /\ ~Def[n].self
         /\ \A a \in repo'.atts : a.kind = "tests.pass" =>
               (a.runner = Owner \/ KindOf[a.verifier] = "session") /\ a.whole
         => LET c == Context(repo', repo'.trunk, repo'.revs[repo'.trunk])
            IN  \A u \in ChangedUnits(c) : \E r \in DOMAIN repo'.revs :
                  LET s == repo'.revs[r].snap
                  IN  u.body \in {v.body : v \in Units(s)} /\ TestPasses(s.t, s.fn)]_vars

(* An approval is of the content the human was asked about: no revision, the
   author's or the one a landing derives, counts as approved unless a human
   said yes to a revision with the same content of the author.  The request
   may be answered after the author has gone on. *)
ApprovedIsThisContent ==
    \A n \in DOMAIN Def, r \in DOMAIN repo.revs :
        /\ Def[n].kind = "approved" /\ repo.revs[r].own # 0
        /\ HoldsApproved(Context(repo, r, repo.revs[r]), Def[n])
        => \E a \in repo.atts, q \in DOMAIN repo.revs :
              /\ a.kind = "approval.human" /\ a.result /\ a.verifier = Human
              /\ a.subject = RevRef(q) /\ repo.revs[q].own = repo.revs[r].own

(* Nothing lands on the word of its author's own agent, nor over another
   agent's confident no on the same content. *)
JudgedByOthers ==
    [][\A n \in DOMAIN Def :
         Landing /\ Def[n].kind = "judge" /\ AsksFor(n) =>
           LET new == repo'.revs[repo'.trunk]
               said(v) == {a \in repo'.atts : 
                             /\ a.kind = Def[n].name /\ a.result = v
                             /\ a.conf >= Def[n].minConfidence
                             /\ ParentOf[a.verifier] # ParentOf[Author]
                             /\ a.subject \in {RevRef(new.prev), RevRef(repo'.trunk)}}
           IN  said(TRUE) # {} /\ said(FALSE) = {}]_vars

(* Two verifies of one revision at the same time ask the humans once. *)
AskedOnce ==
    \A i, j \in DOMAIN repo.requests :
        (repo.requests[i] = repo.requests[j] /\ repo.requests[i].status = "active") => i = j

(* A verify is answered: its tools end or are killed, a directory that is gone
   is an error and not a wait, and no other verb keeps the lock. *)
VerifyAnswered == \A c \in Caller : call[c].pc # "idle" ~> call[c].pc = "idle"

=============================================================================
