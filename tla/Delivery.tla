------------------------------ MODULE Delivery ------------------------------
(***************************************************************************)
(* Delivery (delivery.rs): targets with a standard of their own, releases  *)
(* of trunk, deployments to a slice of a target, observation, and the      *)
(* rollback when an observed signal trips the target's standard.           *)
(*                                                                         *)
(* view is the op log's: trunk, the targets, the deployments each target   *)
(* has had, the latest signal observed on a revision.  listed is the index *)
(* of releases in the store's metadata.  running is what the deployer's    *)
(* adapter has put in place, outside the repository.                       *)
(*                                                                         *)
(* A call is one step, under the repository lock; how says where it ends:  *)
(* "done", "failed" (the adapter fails and leaves the slice as it was),    *)
(* "torn" (it fails half way), "cut" (the daemon stops once the adapter is *)
(* through), "untold" (it stops before the task of a rollback is opened).  *)
(* Revisions of trunk are numbered from 1; Draft is a session's revision   *)
(* that has not landed.                                                    *)
(***************************************************************************)
EXTENDS Integers, Sequences, FiniteSets, SequencesExt

CONSTANTS Target, Owner,
          Session,                \* a session, which calls promote and observe
          Gap, Walk,              \* how far changelogs and rollbacks look back
          MaxTrunk,               \* bound
          Limits                  \* how many deployments and releases a behaviour has

ASSUME BoundsAssumption == {Gap, Walk, MaxTrunk} \subseteq Nat
ASSUME LimitsAssumption == Limits \subseteq [deploys : Nat, releases : Nat]

VARIABLES view, listed, running

vars == <<view, listed, running>>

Draft == MaxTrunk + 1
Slice == {"canary", "all"}
Nothing == [rev |-> 0, named |-> TRUE]
Torn == -1

-----------------------------------------------------------------------------
(* Deployments.                                                            *)

Deployed(v, t) == v.deployed[t]

(* The target's own clauses gate everyone, a canary is gated by what they
   extend: trunk's standard, which what landed has met. *)
MeetsTrunk(v, r) == r <= v.trunk \/ (r = Draft /\ v.draftMet)

Trips(v, t, r) == v.observes[t] /\ v.signal[r] # "good"

Gated(v, t, r, slice) ==
    /\ MeetsTrunk(v, r)
    /\ slice = "canary" \/ ~Trips(v, t, r)

(* The adapter replaces what the slice runs; named tells whether the op that
   says so follows. *)
RunAdapter(run, t, r, slice, how, named) ==
    IF how = "failed" THEN run
    ELSE [run EXCEPT ![t][slice] = [rev |-> IF how = "torn" THEN Torn ELSE r, named |-> named]]

(* The op is accepted of the owner or of a capability with the verb. *)
Accepted(v, actor) == actor = Owner \/ v.granted

Deployment(v, t, r, slice, kind) ==
    [target |-> t, rev |-> r, previous |-> Deployed(v, t), slice |-> slice, kind |-> kind]

Named(v, d) ==
    [v EXCEPT !.deployments = Append(@, d), !.deployed[d.target] = Len(v.deployments) + 1]

Through(how) == how \in {"done", "untold"}

(* The op first, and the adapter after it. *)
DeployNamedFirst(v, run, actor, t, r, slice, kind, how) ==
    IF ~Accepted(v, actor) THEN [view |-> v, running |-> run]
    ELSE [view    |-> Named(v, Deployment(v, t, r, slice, kind)),
          running |-> RunAdapter(run, t, r, slice, how, Through(how))]

(* The adapter runs, and then the deployment is an op. *)
Deploy(v, run, actor, t, r, slice, kind, how) ==
    LET named == Through(how) /\ Accepted(v, actor)
    IN  [view    |-> IF named THEN Named(v, Deployment(v, t, r, slice, kind)) ELSE v,
         running |-> RunAdapter(run, t, r, slice, how, named)]

-----------------------------------------------------------------------------
(* Rollback.                                                               *)

(* The deployments behind this one, the latest first, so far back as it is
   looked. *)
Before(v, d) ==
    LET behind[i \in 0 .. Len(v.deployments)] ==
            IF i = 0 THEN << >> ELSE <<i>> \o behind[v.deployments[i].previous]
        all == behind[v.deployments[d].previous]
    IN  IF Len(all) > Walk THEN SubSeq(all, 1, Walk) ELSE all

(* Those of another revision: a canary of the same revision is not a place to
   go back to. *)
Place(v, d) == SelectSeq(Before(v, d), LAMBDA i : v.deployments[i].rev # v.deployments[d].rev)

(* Roll back to the previous deployment of another revision, for everyone and
   past the standard, and open a task. *)
RollbackTo(v, run, actor, t, how) ==
    LET d      == Deployed(v, t)
        places == Place(v, d)
    IN  IF places = << >> THEN [view |-> v, running |-> run]
        ELSE LET to   == v.deployments[Head(places)].rev
                 done == Deploy(v, run, actor, t, to, "all", "rollback", how)
                 opened == [done.view EXCEPT !.tasks = @ \cup {<<t, v.deployments[d].rev>>}]
             IN  [done EXCEPT !.view = IF @ = v \/ how = "untold" THEN @ ELSE opened]

-----------------------------------------------------------------------------
(* The verbs.                                                              *)

Keep(out) == view' = out.view /\ running' = out.running /\ UNCHANGED listed

Outcomes == {"done", "failed", "torn", "cut", "untold"}

(* Bound: a target is deployed to while there are numbers left. *)
MayDeploy(t) == t \in view.targets /\ Len(view.deployments) < view.limit.deploys

(* The owner deploys the head of trunk, a session what its workspace is at. *)
PromoteToTarget(actor, t, slice, how) ==
    /\ MayDeploy(t) /\ how # "untold"
    /\ \E r \in {IF actor = Owner THEN view.trunk ELSE Draft} :
         /\ Gated(view, t, r, slice)
         /\ Keep(Deploy(view, running, actor, t, r, slice, "deploy", how))

(* The observers report a signal, or none; it is attested on the revision,
   and when a clause trips the target is rolled back. *)
Observe(actor, t, reported, how) ==
    /\ MayDeploy(t) /\ Deployed(view, t) # 0
    /\ \E r \in {view.deployments[Deployed(view, t)].rev} :
       \E seen \in {[view EXCEPT !.signal[r] = IF reported = "none" THEN @ ELSE reported]} :
         IF Trips(seen, t, r) /\ view.auto
         THEN Keep(RollbackTo(seen, running, actor, t, how))
         ELSE how = "done" /\ Keep([view |-> seen, running |-> running])

RollbackVerb(t, how) ==
    /\ MayDeploy(t) /\ Deployed(view, t) # 0
    /\ Keep(RollbackTo(view, running, Owner, t, how))

CreateTarget(t) ==
    /\ t \notin view.targets
    /\ Keep([view |-> [view EXCEPT !.targets = @ \cup {t}], running |-> running])

(* The owner requires an observed signal of a target. *)
StandardVerb(t) ==
    /\ t \in view.targets /\ ~view.observes[t]
    /\ Keep([view |-> [view EXCEPT !.observes[t] = TRUE], running |-> running])

AutoRevert ==
    Keep([view |-> [view EXCEPT !.auto = ~@], running |-> running])

Land ==
    /\ view.trunk < MaxTrunk
    /\ Keep([view |-> [view EXCEPT !.trunk = @ + 1], running |-> running])

-----------------------------------------------------------------------------
(* Releases.                                                               *)

SinceFirst(rels) == IF rels = << >> THEN 0 ELSE Head(rels).rev

Since(rels) == IF rels = << >> THEN 0 ELSE Last(rels).rev

(* The titles from the head back to the revision of the previous release. *)
Changelog(head, since) ==
    LET oldest == IF head - since > Gap THEN head - Gap ELSE since
    IN  (oldest + 1) .. head

Release == [rev |-> view.trunk, since |-> Since(listed), log |-> Changelog(view.trunk, Since(listed))]

(* The release is an op, and then it is listed. *)
CutRelease(how) ==
    /\ Len(view.releases) < view.limit.releases
    /\ view' = [view EXCEPT !.releases = Append(@, Release)]
    /\ listed' = IF how = "cut" THEN listed ELSE Append(listed, Release)
    /\ UNCHANGED running

-----------------------------------------------------------------------------
Init ==
    /\ view \in {[trunk |-> 1, targets |-> {}, observes |-> [t \in Target |-> FALSE],
                  deployments |-> << >>, deployed |-> [t \in Target |-> 0],
                  signal |-> [r \in 1 .. Draft |-> "none"], auto |-> TRUE,
                  draftMet |-> met, granted |-> grant, tasks |-> {}, releases |-> << >>, limit |-> limit] :
                 met \in BOOLEAN, grant \in BOOLEAN, limit \in Limits}
    /\ listed = << >>
    /\ running = [t \in Target |-> [s \in Slice |-> Nothing]]

Next ==
    \/ \E t \in Target : CreateTarget(t) \/ StandardVerb(t)
    \/ \E a \in {Owner, Session}, t \in Target, s \in Slice, h \in Outcomes : PromoteToTarget(a, t, s, h)
    \/ \E a \in {Owner, Session}, t \in Target, g \in {"good", "bad", "none"}, h \in Outcomes :
          Observe(a, t, g, h)
    \/ \E t \in Target, h \in Outcomes : RollbackVerb(t, h)
    \/ AutoRevert \/ Land
    \/ \E h \in {"done", "cut"} : CutRelease(h)

Spec == Init /\ [][Next]_vars

-----------------------------------------------------------------------------
(* Properties.                                                             *)

DeploymentsOn(t, s) ==
    {i \in 1 .. Len(view.deployments) : view.deployments[i].target = t /\ view.deployments[i].slice = s}

(* The view names what runs: on each slice of each target, unless the last
   call that touched the slice broke off or was refused after its adapter,
   runs the revision of the latest deployment to that slice, whatever
   canaries, rollbacks and failures came in between (deploy, rollback). *)
RunsWhatIsNamed ==
    \A t \in Target, s \in Slice :
        running[t][s].named =>
            running[t][s].rev = IF DeploymentsOn(t, s) = {} THEN 0
                                ELSE view.deployments[CHOOSE i \in DeploymentsOn(t, s) :
                                                        \A j \in DeploymentsOn(t, s) : j <= i].rev

(* Every revision of trunk up to the last listed release is in the changelog
   of one listed release, and of one only, also when a release was cut and
   the daemon stopped before it was listed (cut_release, releases). *)
ChangelogsCover ==
    /\ \A i, j \in DOMAIN listed : i # j => listed[i].log \cap listed[j].log = {}
    /\ UNION {listed[i].log : i \in DOMAIN listed} = 1 .. Since(listed)

=============================================================================
