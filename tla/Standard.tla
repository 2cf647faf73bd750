------------------------------ MODULE Standard ------------------------------
(***************************************************************************)
(* The standard of a line: clauses over the attestations that apply to a   *)
(* revision (tessra-oplog, standard.rs).                                   *)
(*                                                                         *)
(* A predicate is a name that Def gives a record: its kind ("structural",  *)
(* "attest", "approved", "judge", "observe", "all", "any", "not", ...) and *)
(* what that kind reads.  The predicates inside an "all", "any" or "not"   *)
(* are names too, so a predicate is a tree without a recursive type.       *)
(* A context is what evaluate gathers for one revision: the subjects an    *)
(* attestation may name, the attestations collected, the units of the      *)
(* revision and of its first parent, its flags, its intent, its author.    *)
(* Both indexes are there: the daemon builds the missing ones first.       *)
(* Wording of reasons is left out, and so is "reputation", which never     *)
(* holds.  Every comparison of names is by value.                          *)
(***************************************************************************)
EXTENDS Integers, Sequences, FiniteSets

CONSTANTS Def,       \* predicate name -> its record
          KindOf,    \* principal -> its kind
          ParentOf,  \* principal -> the agent it is a session of, or Nobody
          ModelOf,   \* principal -> the model it runs
          Nobody     \* no principal, no subject

(* A predicate is finite: those inside it are of a lesser depth. *)
ASSUME DefAssumption ==
    /\ IsFiniteSet(DOMAIN Def)
    /\ \A n \in DOMAIN Def :
          /\ Def[n].kind = "judge" => Def[n].judges \in Nat
          /\ Def[n].kind \in {"all", "any", "not"} => Def[n].preds \in Seq(DOMAIN Def)
    /\ \E depth \in [DOMAIN Def -> 0 .. Cardinality(DOMAIN Def)] : \A n \in DOMAIN Def :
          Def[n].kind \in {"all", "any", "not"} =>
              \A i \in DOMAIN Def[n].preds : depth[Def[n].preds[i]] < depth[n]

TrustedAttesters ==
    {"verifier", "daemon", "hook", "external", "human", "observer", "deployer"}

Uncoverable ==
    {"import", "chunk", "test", "test.skipped", "impl", "module", "variant", "field"}

TestKinds == {"test", "test.skipped"}

LevelRank(level) ==
    CASE level = "medium" -> 1 [] level = "high" -> 2 [] level = "critical" -> 3
      [] OTHER -> 0

(* The principal an attestation is signed by: the runner when there is one. *)
Signer(a) == IF a.runner = Nobody THEN a.verifier ELSE a.runner

TrustedAnyone(a, allowSelf) == TRUE

Trusted(a, allowSelf) == allowSelf \/ KindOf[Signer(a)] \in TrustedAttesters

Truthy(a) == a.result

(* Where an attestation's subject stands among those of the revision: the
   revision first, then the one it supersedes, then its snapshot. *)
Ranks(c, a) == {i \in DOMAIN c.subjects : c.subjects[i] = a.subject}

OnSubject(c, a) == Ranks(c, a) # {}

(***************************************************************************)
(* Units: what changed against the first parent, by identity.              *)
(***************************************************************************)
ChangedUnits(c) ==
    {n \in c.units : \A p \in c.before :
        p.nid = n.nid => p.body # n.body \/ p.name # n.name}

DeletedUnits(c) == {p \in c.before : \A n \in c.units : n.nid # p.nid}

NewTests(c) ==
    {n \in ChangedUnits(c) : /\ n.kind \in TestKinds
                             /\ \A p \in c.before : p.nid # n.nid /\ p.body # n.body}

Coverable(units) == {n \in units : n.kind \notin Uncoverable}

(* The bodies that a true attestation of this kind names. *)
CoveredBodies(c, kind, allowSelf) ==
    UNION {a.bodies : a \in {b \in c.atts :
        b.kind = kind /\ Truthy(b) /\ Trusted(b, allowSelf)}}

UncoveredByBodies(c, kind, units, allowSelf) ==
    {n \in units : n.body \notin CoveredBodies(c, kind, allowSelf)}

SubjectAttested(c, kind, allowSelf) ==
    \E a \in c.atts : /\ a.kind = kind /\ Truthy(a)
                      /\ Trusted(a, allowSelf) /\ OnSubject(c, a)

(* The latest of some attestations; no two have the same time here. *)
LatestOf(S) == CHOOSE a \in S : \A b \in S : b.time <= a.time

RisksOn(c) ==
    {a \in c.atts : a.kind = "risk.change" /\ Trusted(a, FALSE) /\ OnSubject(c, a)}

(***************************************************************************)
(* What each kind of predicate asks.                                       *)
(***************************************************************************)
TestsModified(c) ==
    {n \in ChangedUnits(c) : n.kind \in TestKinds /\ \E p \in c.before : p.nid = n.nid}

TestsDeleted(c) == {n \in DeletedUnits(c) : n.kind \in TestKinds}

StructuralUnits(c, name) ==
    CASE name = "test.modified" -> TestsModified(c)
      [] name = "test.deleted"  -> TestsDeleted(c)
      [] name = "test.weakened" -> TestsModified(c) \cup TestsDeleted(c)
      [] name = "test.skipped"  -> {n \in ChangedUnits(c) : n.kind = "test.skipped"}
      [] OTHER -> {}

(* The units that some test of the revision calls. *)
Exercised(c) == UNION {t.deps : t \in {n \in c.units : n.kind = "test"}}

HoldsStructural(c, name) ==
    CASE name = "flags.none"      -> c.flags = {}
      [] name = "intent.linked"   -> c.intent # Nobody
      [] name = "changed.covered" ->
            \A n \in Coverable(ChangedUnits(c)) : n.ident => n.nid \in Exercised(c)
      [] OTHER -> StructuralUnits(c, name) # {}

(* A run on the snapshot counts, and so does one that named every unit that
   changed and can be tested. *)
HoldsAttest(c, p) ==
    CASE p.for = "none" ->
            \/ SubjectAttested(c, p.name, p.self)
            \/ LET units == {n \in ChangedUnits(c) :
                                n.kind \notin Uncoverable \/ n.kind \in TestKinds}
               IN  units # {} /\ UncoveredByBodies(c, p.name, units, p.self) = {}
      [] p.for = "new_tests" ->
            UncoveredByBodies(c, p.name, NewTests(c), p.self) = {}
      [] p.for = "changed_nodes" ->
            UncoveredByBodies(c, p.name, Coverable(ChangedUnits(c)), p.self) = {}
      [] OTHER -> FALSE

(* A human's approval of the revision; key-signed when the clause says so,
   which is an attestation that no runner signed for the human. *)
HoldsApproved(c, p) ==
    /\ p.name = "human"
    /\ \E a \in c.atts : /\ a.kind = "approval.human" /\ Truthy(a)
                         /\ KindOf[Signer(a)] = "human"
                         /\ p.keysigned => a.runner = Nobody
                         /\ OnSubject(c, a)

(***************************************************************************)
(* Judges are sessions of agents other than the author's.  One no at the   *)
(* confidence asked for settles it; a yes counts once for each agent, and  *)
(* with distinct models once for each model as well.  The model kept for   *)
(* an agent is that of its first yes: by subject, then by time.            *)
(***************************************************************************)
NoOwnJudge(c, a) == FALSE

OwnJudge(c, a) ==
    ParentOf[Signer(a)] # Nobody /\ ParentOf[Signer(a)] = ParentOf[c.author]

JudgeKey(a) == IF ParentOf[Signer(a)] = Nobody THEN a.verifier ELSE ParentOf[Signer(a)]

Earlier(c, a, b) ==
    \E i \in Ranks(c, a), j \in Ranks(c, b) : i < j \/ (i = j /\ a.time < b.time)

Verdicts(c, p) ==
    {a \in c.atts : /\ a.kind = p.name /\ OnSubject(c, a)
                    /\ ~OwnJudge(c, a) /\ a.conf >= p.minConfidence}

HoldsJudge(c, p) ==
    LET yes    == {a \in Verdicts(c, p) : Truthy(a)}
        keys   == {JudgeKey(a) : a \in yes}
        first(k) == CHOOSE a \in {b \in yes : JudgeKey(b) = k} :
                        \A b \in yes \ {a} : JudgeKey(b) = k => Earlier(c, a, b)
        models == {ModelOf[Signer(first(k))] : k \in keys}
        needed == IF p.judges < 1 THEN 1 ELSE p.judges
    IN  /\ \A a \in Verdicts(c, p) : Truthy(a)
        /\ Cardinality(keys) >= needed
        /\ p.distinct => Cardinality(models) >= needed

(* The latest trusted observation of a signal, against its bounds. *)
HoldsObserve(c, p) ==
    LET seen == {a \in c.atts : a.kind = p.name /\ OnSubject(c, a) /\ Trusted(a, FALSE)}
    IN  seen # {} /\ LatestOf(seen).value \in p.min .. p.max

Holds(c) ==
    LET h[n \in DOMAIN Def] ==
          LET p == Def[n]
          IN  \/ p.kind = "structural" /\ HoldsStructural(c, p.name)
              \/ p.kind = "attest"     /\ HoldsAttest(c, p)
              \/ p.kind = "approved"   /\ HoldsApproved(c, p)
              \/ p.kind = "judge"      /\ HoldsJudge(c, p)
              \/ p.kind = "observe"    /\ HoldsObserve(c, p)
              \/ p.kind = "all" /\ \A i \in DOMAIN p.preds : h[p.preds[i]]
              \/ p.kind = "any" /\ \E i \in DOMAIN p.preds : h[p.preds[i]]
              \/ p.kind = "not" /\ p.preds # << >> /\ ~h[p.preds[1]]
    IN  h

(***************************************************************************)
(* A clause is [op, pred, unless]; unless is a predicate or Nobody.        *)
(***************************************************************************)
ClauseMet(c, k) ==
    \/ k.unless # Nobody /\ Holds(c)[k.unless]
    \/ k.op = "require" /\ Holds(c)[k.pred]
    \/ k.op = "forbid" /\ ~Holds(c)[k.pred]

(* A block of clauses that applies from a level of risk up.  Without a risk on
   the revision the block itself is unmet. *)
BlockUnmet(c, w) ==
    IF RisksOn(c) = {} THEN {[op |-> "when", pred |-> w.level, unless |-> Nobody]}
    ELSE {k \in w.clauses : /\ LevelRank(LatestOf(RisksOn(c)).level) >= LevelRank(w.level)
                            /\ ~ClauseMet(c, k)}

(* The clauses of a chain of standards that a revision leaves unmet. *)
Evaluate(c, chain) ==
    UNION {   {k \in chain[i].clauses : ~ClauseMet(c, k)}
         \cup UNION {BlockUnmet(c, w) : w \in chain[i].when}  : i \in DOMAIN chain}

(* The predicates inside a predicate, itself included. *)
Inside(n) ==
    LET in[m \in DOMAIN Def] ==
          {m} \cup (IF Def[m].kind \in {"all", "any", "not"}
                    THEN UNION {in[Def[m].preds[i]] : i \in DOMAIN Def[m].preds}
                    ELSE {})
    IN  in[n]

(* Every attest predicate a chain asks for; the clauses of a risk block are
   not looked into. *)
RequiredAttestations(chain) ==
    LET clauses == UNION {chain[i].clauses : i \in DOMAIN chain}
        named   == {k.pred : k \in clauses} \cup ({k.unless : k \in clauses} \ {Nobody})
    IN  {n \in UNION {Inside(m) : m \in named} : Def[n].kind = "attest"}
=============================================================================
