------------------------------ MODULE MCVerify ------------------------------
(***************************************************************************)
(* Verify with two connections, an author's session s1 of agent a1, a      *)
(* second session s2 of the same agent, a session s3 of agent a2, a human  *)
(* and the daemon's owner.                                                 *)
(***************************************************************************)
EXTENDS Verify

CONSTANTS s1, s2, s3, human, owner, a1, a2

MCKindOf == [p \in {s1, s2, s3, human, owner} |->
    CASE p \in {s1, s2, s3} -> "session"
      [] p = human -> "human" [] OTHER -> "daemon"]
MCParentOf == [p \in {s1, s2, s3, human, owner} |->
    CASE p \in {s1, s2} -> a1 [] p = s3 -> a2 [] OTHER -> Nobody]
MCModelOf == [p \in {s1, s2, s3, human, owner} |-> IF p = s3 THEN "m2" ELSE "m1"]

MCDef ==
  ("clean" :> [kind |-> "structural", name |-> "flags.none"]) @@
  ("weak"  :> [kind |-> "structural", name |-> "test.weakened"]) @@
  ("tests" :> [kind |-> "attest", name |-> "tests.pass", for |-> "none", self |-> FALSE]) @@
  ("proof" :> [kind |-> "attest", name |-> "tests.fail_on_parent", for |-> "new_tests", self |-> FALSE]) @@
  ("human" :> [kind |-> "approved", name |-> "human", keysigned |-> TRUE]) @@
  ("judge" :> [kind |-> "judge", name |-> "judge.quality", judges |-> 1,
               minConfidence |-> 500, distinct |-> TRUE]) @@
  ("proved" :> [kind |-> "all", preds |-> <<"clean", "proof">>])

Req(n) == [op |-> "require", pred |-> n, unless |-> Nobody]

Tested == [clauses |-> {Req("tests")}, when |-> {}]
Proved == [clauses |-> {Req("proved")}, when |-> {}]
Guarded == [clauses |-> {[op |-> "forbid", pred |-> "weak", unless |-> "human"]}, when |-> {}]
Judged == [clauses |-> {Req("judge")},
           when |-> {[level |-> "medium", clauses |-> {Req("human")}]}]

MCBase == [clauses |-> {Req("clean")}, when |-> {}]
MCOrder == <<"tests", "proof">>

Says(p, kind, result, conf) == [by |-> p, kind |-> kind, result |-> result, conf |-> conf]
MCHandMade ==
  (Tested  :> {Says(s1, "tests.pass", TRUE, 1000)}) @@
  (Guarded :> {}) @@ (Proved :> {}) @@
  (Judged  :> {Says(s2, "judge.quality", TRUE, 1000), Says(s3, "judge.quality", TRUE, 100),
               Says(s3, "judge.quality", TRUE, 1000), Says(s3, "judge.quality", FALSE, 1000)})
MCStart == (Tested :> 0) @@ (Proved :> 0) @@ (Guarded :> 2) @@ (Judged :> 0)
Broken == [fn |-> 1, other |-> 0, t |-> 1]
Wrong == [fn |-> 3, other |-> 0, t |-> 1]
Untested == [fn |-> 2, other |-> 0, t |-> 0]
MCContents == (Tested :> {Wrong}) @@ (Proved :> {Untested}) @@ (Guarded :> {Broken, Untested})
                @@ (Judged :> {Untested})
MCEdits == {<<Judged, Guarded>>, <<Guarded, Judged>>}
MCFull == {Proved}
MCTools == {"tests.pass", "tests.fail_on_parent"}
MCStandards == {Tested, Proved, Guarded, Judged}
=============================================================================
