--------------------------- MODULE DeliveryProofs ---------------------------
(***************************************************************************)
(* What deliveries owe to the view, proved for any targets, any number of  *)
(* deployments, releases and revisions, whatever the adapter does and      *)
(* wherever a rollback's walk ends.                                        *)
(***************************************************************************)
EXTENDS Delivery, Groundwork, TLAPS

Fields == {"trunk", "targets", "observes", "deployments", "deployed", "signal", "auto",
           "draftMet", "granted", "tasks", "releases", "limit"}

\* What a slice runs, as far as the op log says so: nothing until the first
\* deployment to it, then the revision of the latest.
IsLatest(deployments, i, t, s) ==
  /\ i \in 1 .. Len(deployments)
  /\ deployments[i].target = t /\ deployments[i].slice = s
  /\ \A j \in 1 .. Len(deployments) :
       deployments[j].target = t /\ deployments[j].slice = s => j <= i

RunsLatest(deployments, run, t, s) ==
  \/ /\ run.rev = 0
     /\ \A j \in 1 .. Len(deployments) : ~(deployments[j].target = t /\ deployments[j].slice = s)
  \/ \E i \in 1 .. Len(deployments) :
       IsLatest(deployments, i, t, s) /\ run.rev = deployments[i].rev

\* A view and what runs that fit, before and after every call.
Fits(v, run) ==
  /\ DOMAIN v = Fields /\ IsList(v.deployments)
  /\ DOMAIN v.deployed = Target
  /\ DOMAIN run = Target
  /\ \A t \in Target : DOMAIN run[t] = Slice
  /\ \A t \in Target, s \in Slice : run[t][s].named => RunsLatest(v.deployments, run[t][s], t, s)

-----------------------------------------------------------------------------
\* A deployment that is named is the latest of its slice, and no slice but its
\* own sees it.
LEMMA NamingFits ==
  ASSUME NEW old, IsList(old), NEW d, NEW run, NEW t \in Target, NEW s \in Slice,
         NEW u \in Target, NEW z \in Slice, d.target = t, d.slice = s
  PROVE  /\ ~(u = t /\ z = s) /\ RunsLatest(old, run, u, z)
              => RunsLatest(Append(old, d), run, u, z)
         /\ run.rev = d.rev => RunsLatest(Append(old, d), run, t, s)
<1>. DEFINE new == Append(old, d)
<1>1. /\ Len(old) \in Nat /\ Len(new) = Len(old) + 1
      /\ \A i \in 1 .. Len(old) : new[i] = old[i]
      /\ new[Len(old) + 1] = d
  BY AppendToList
<1>. HIDE DEF new
<1>2. \A i \in 1 .. Len(new) : i \in 1 .. Len(old) \/ i = Len(old) + 1
  BY <1>1
<1>3. \A i \in 1 .. Len(old) : i \in 1 .. Len(new)
  BY <1>1
<1>4. ASSUME ~(u = t /\ z = s), RunsLatest(old, run, u, z)
      PROVE  RunsLatest(new, run, u, z)
  BY <1>1, <1>2, <1>3, <1>4 DEF RunsLatest, IsLatest
<1>5. ASSUME run.rev = d.rev
      PROVE  RunsLatest(new, run, t, s)
  <2>1. Len(new) \in 1 .. Len(new) /\ \A j \in 1 .. Len(new) : j <= Len(new)
    BY <1>1
  <2>. QED BY <1>1, <1>5, <2>1 DEF RunsLatest, IsLatest
<1>. QED BY <1>4, <1>5 DEF new

\* Whatever becomes of a deployment, the view says what runs or says nothing of
\* the slice (deploy).
LEMMA DeployFits ==
  ASSUME NEW v, NEW run, Fits(v, run), NEW actor, NEW t \in Target, NEW r, NEW s \in Slice,
         NEW kind, NEW how
  PROVE  LET out == Deploy(v, run, actor, t, r, s, kind, how)
         IN Fits(out.view, out.running) /\ out.view.trunk = v.trunk
<1>. DEFINE named == Through(how) /\ Accepted(v, actor)
            d == Deployment(v, t, r, s, kind)
            new == RunAdapter(run, t, r, s, how, named)
            w == IF named THEN Named(v, d) ELSE v
<1>1. /\ Deploy(v, run, actor, t, r, s, kind, how).view = w
      /\ Deploy(v, run, actor, t, r, s, kind, how).running = new
  BY DEF Deploy
<1>2. d.target = t /\ d.slice = s /\ d.rev = r
  BY DEF Deployment
<1>. HIDE DEF d
<1>3. /\ DOMAIN w = Fields /\ DOMAIN w.deployed = Target
      /\ w.deployments = IF named THEN Append(v.deployments, d) ELSE v.deployments
      /\ w.trunk = v.trunk
  BY <1>2 DEF Fits, Named, Fields
<1>4. IsList(w.deployments)
  BY <1>3, AppendToList DEF Fits
<1>5. /\ DOMAIN new = Target /\ \A u \in Target : DOMAIN new[u] = Slice
      /\ \A u \in Target, z \in Slice : ~(u = t /\ z = s) => new[u][z] = run[u][z]
      /\ new[t][s].named => (named /\ new[t][s].rev = r) \/ (how = "failed" /\ new = run)
  <2>1. CASE how = "failed"
    BY <2>1 DEF Fits, RunAdapter
  <2>2. CASE how # "failed"
    <3>1. new = [run EXCEPT ![t][s] = [rev |-> IF how = "torn" THEN Torn ELSE r,
                                       named |-> named]]
      BY <2>2 DEF RunAdapter
    <3>2. named => how # "torn"
      BY DEF Through
    <3>. HIDE DEF named, new
    <3>3. new[t][s].named = named /\ (named => new[t][s].rev = r)
      BY <3>1, <3>2 DEF Fits
    <3>. QED BY <3>1, <3>3 DEF Fits
  <2>. QED BY <2>1, <2>2
<1>6. how = "failed" => ~named
  BY DEF Through
<1>. HIDE DEF w, new, named
<1>7. ASSUME NEW u \in Target, NEW z \in Slice, new[u][z].named
      PROVE  RunsLatest(w.deployments, new[u][z], u, z)
  <2>1. CASE ~(u = t /\ z = s)
    <3>1. new[u][z] = run[u][z] /\ RunsLatest(v.deployments, run[u][z], u, z)
      BY <1>5, <1>7, <2>1 DEF Fits
    <3>. QED BY <1>2, <1>3, <2>1, <3>1, NamingFits DEF Fits
  <2>2. CASE u = t /\ z = s /\ named
    <3>1. new[t][s].rev = d.rev
      BY <1>2, <1>5, <1>6, <1>7, <2>2
    <3>. QED BY <1>2, <1>3, <2>2, <3>1, NamingFits DEF Fits
  <2>3. CASE u = t /\ z = s /\ ~named
    BY <1>3, <1>5, <1>7, <2>3 DEF Fits
  <2>. QED BY <2>1, <2>2, <2>3
<1>. QED BY <1>1, <1>3, <1>4, <1>5, <1>7 DEF Fits

\* What a view says besides its deployments does not matter.
LEMMA OtherFieldsFit ==
  ASSUME NEW v, NEW w, NEW run, Fits(v, run), DOMAIN w = Fields,
         w.deployments = v.deployments, w.deployed = v.deployed
  PROVE  Fits(w, run)
BY DEF Fits

\* A rollback is a deployment for everyone, to wherever its walk ended.
LEMMA RollbackFits ==
  ASSUME NEW v, NEW run, Fits(v, run), NEW actor, NEW t \in Target, NEW how
  PROVE  LET out == RollbackTo(v, run, actor, t, how)
         IN Fits(out.view, out.running) /\ out.view.trunk = v.trunk
<1>. DEFINE d == Deployed(v, t)
            places == Place(v, d)
            to == v.deployments[Head(places)].rev
            done == Deploy(v, run, actor, t, to, "all", "rollback", how)
            opened == [done.view EXCEPT !.tasks = @ \cup {<<t, v.deployments[d].rev>>}]
            out == RollbackTo(v, run, actor, t, how)
<1>. HIDE DEF to, d
<1>1. Fits(done.view, done.running) /\ done.view.trunk = v.trunk
  BY DeployFits DEF Slice
<1>2. CASE places = << >>
  BY <1>2 DEF RollbackTo, d
<1>3. CASE places # << >>
  <2>1. done = [view |-> done.view, running |-> done.running]
    BY DEF Deploy
  <2>. HIDE DEF done
  <2>2. out = [done EXCEPT !.view = IF done.view = v \/ how = "untold" THEN done.view ELSE opened]
    BY <1>3 DEF RollbackTo, d, to, done
  <2>3. out.running = done.running /\ (out.view = done.view \/ out.view = opened)
    <3>. HIDE DEF out, opened
    <3>. QED BY <2>1, <2>2
  <2>. HIDE DEF out
  <2>4. CASE out.view = opened
    <3>1. DOMAIN out.view = Fields /\ out.view.deployments = done.view.deployments
          /\ out.view.deployed = done.view.deployed /\ out.view.trunk = done.view.trunk
      BY <1>1, <2>4 DEF Fits, Fields
    <3>. QED BY <1>1, <2>3, <3>1, OtherFieldsFit DEF out
  <2>. QED BY <1>1, <2>3, <2>4 DEF out
<1>. QED BY <1>2, <1>3

-----------------------------------------------------------------------------
IInv == Fits(view, running)

\* Nothing is deployed and nothing runs.
LEMMA InitFits == Init => IInv
<1>. SUFFICES ASSUME Init PROVE IInv
  OBVIOUS
<1>1. DOMAIN view = Fields /\ view.deployments = << >> /\ DOMAIN view.deployed = Target
  BY DEF Init, Fields
<1>2. IsList(view.deployments) /\ Len(view.deployments) = 0
  BY <1>1 DEF IsList
<1>3. /\ DOMAIN running = Target /\ \A t \in Target : DOMAIN running[t] = Slice
      /\ \A t \in Target, s \in Slice : running[t][s].rev = 0
  BY DEF Init, Nothing
<1>. QED BY <1>1, <1>2, <1>3 DEF IInv, Fits, RunsLatest

\* Every verb leaves the view and what runs fitting, landings and releases too.
LEMMA StepFits == IInv /\ [Next]_vars => IInv'
<1>. SUFFICES ASSUME IInv, [Next]_vars PROVE IInv'
  OBVIOUS
<1>. USE DEF IInv
<1>1. ASSUME view'.deployments = view.deployments, view'.deployed = view.deployed,
             DOMAIN view' = Fields, running' = running
      PROVE  IInv'
  BY <1>1, OtherFieldsFit
<1>2. ASSUME NEW t \in Target, CreateTarget(t) \/ StandardVerb(t)
      PROVE  IInv'
  BY <1>1, <1>2 DEF CreateTarget, StandardVerb, Keep, Fits, Fields
<1>3. CASE AutoRevert \/ Land
  BY <1>1, <1>3 DEF AutoRevert, Land, Keep, Fits, Fields
<1>4. ASSUME NEW h \in {"done", "cut"}, CutRelease(h)
      PROVE  IInv'
  BY <1>1, <1>4 DEF CutRelease, Fits, Fields
<1>5. ASSUME NEW a \in {Owner, Session}, NEW t \in Target, NEW s \in Slice, NEW h \in Outcomes,
             PromoteToTarget(a, t, s, h)
      PROVE  IInv'
  BY <1>5, DeployFits DEF PromoteToTarget, Keep
<1>6. ASSUME NEW a \in {Owner, Session}, NEW t \in Target, NEW g \in {"good", "bad", "none"},
             NEW h \in Outcomes, Observe(a, t, g, h)
      PROVE  IInv'
  <2>1. PICK seen : /\ \E r : seen = [view EXCEPT !.signal[r] = IF g = "none" THEN @ ELSE g]
                    /\ \/ Keep(RollbackTo(seen, running, a, t, h))
                       \/ Keep([view |-> seen, running |-> running])
    BY <1>6 DEF Observe
  <2>2. Fits(seen, running)
    <3>1. DOMAIN seen = Fields /\ seen.deployments = view.deployments
          /\ seen.deployed = view.deployed
      BY <2>1 DEF Fits, Fields
    <3>. QED BY <3>1, OtherFieldsFit
  <2>. QED BY <2>1, <2>2, RollbackFits DEF Keep
<1>7. ASSUME NEW t \in Target, NEW h \in Outcomes, RollbackVerb(t, h)
      PROVE  IInv'
  BY <1>7, RollbackFits DEF RollbackVerb, Keep
<1>8. CASE UNCHANGED vars
  BY <1>8 DEF vars
<1>. QED BY <1>2, <1>3, <1>4, <1>5, <1>6, <1>7, <1>8 DEF Next

\* What the view names runs, through canaries, failed adapters, stops of the
\* daemon and rollbacks, wherever their walk ends (deploy, rollback).
THEOREM NamedRuns == Spec => []RunsWhatIsNamed
<1>1. IInv => RunsWhatIsNamed
  <2>. SUFFICES ASSUME IInv, NEW t \in Target, NEW s \in Slice, running[t][s].named
                PROVE  running[t][s].rev
                         = IF DeploymentsOn(t, s) = {} THEN 0
                           ELSE view.deployments[CHOOSE i \in DeploymentsOn(t, s) :
                                                   \A j \in DeploymentsOn(t, s) : j <= i].rev
    BY DEF RunsWhatIsNamed
  <2>1. RunsLatest(view.deployments, running[t][s], t, s) /\ Len(view.deployments) \in Nat
    BY LenProperties DEF IInv, Fits, IsList
  <2>2. CASE DeploymentsOn(t, s) = {}
    BY <2>1, <2>2 DEF RunsLatest, IsLatest, DeploymentsOn
  <2>3. CASE DeploymentsOn(t, s) # {}
    <3>1. PICK i \in DeploymentsOn(t, s) :
            /\ \A j \in DeploymentsOn(t, s) : j <= i
            /\ running[t][s].rev = view.deployments[i].rev
      BY <2>1, <2>3 DEF RunsLatest, IsLatest, DeploymentsOn
    <3>2. \A k \in DeploymentsOn(t, s) : (\A j \in DeploymentsOn(t, s) : j <= k) => k = i
      BY <2>1, <3>1 DEF DeploymentsOn
    <3>3. i = CHOOSE k \in DeploymentsOn(t, s) : \A j \in DeploymentsOn(t, s) : j <= k
      BY <3>1, <3>2
    <3>. QED BY <2>3, <3>1, <3>3
  <2>. QED BY <2>2, <2>3
<1>. QED BY InitFits, StepFits, <1>1, PTL DEF Spec

-----------------------------------------------------------------------------
\* Releases: what is listed goes up to the last, and nothing twice.
ReleaseSet == [rev : Nat, since : Nat, log : SUBSET Nat]

Covered ==
  /\ listed \in Seq(ReleaseSet)
  /\ view.trunk \in Nat /\ 1 <= view.trunk
  /\ Since(listed) <= view.trunk
  /\ ChangelogsCover

\* A changelog starts after a revision, or after none.
LEMMA SinceNatural ==
  ASSUME listed \in Seq(ReleaseSet)
  PROVE  Since(listed) \in Nat
<1>1. CASE listed = << >>
  BY <1>1 DEF Since
<1>2. CASE listed # << >>
  <2>1. Len(listed) \in 1 .. Len(listed) /\ listed[Len(listed)] \in ReleaseSet
    BY <1>2, LenProperties, EmptySeq, ElementOfSeq
  <2>. QED BY <1>2, <2>1 DEF Since, Last, ReleaseSet
<1>. QED BY <1>1, <1>2

\* A release lists the revisions since the one before, and the one before is
\* the last that was listed.
LEMMA ReleaseCovers ==
  ASSUME Covered, DOMAIN view = Fields, NEW h \in {"done", "cut"}, CutRelease(h),
         view.trunk <= Gap, Gap \in Nat
  PROVE  Covered'
<1>. DEFINE rel == Release
            n == Len(listed)
            since == Since(listed)
<1>1. listed \in Seq(ReleaseSet) /\ n \in Nat
  BY LenProperties DEF Covered
<1>2. since \in Nat
  BY <1>1, SinceNatural
<1>3. rel = [rev |-> view.trunk, since |-> since, log |-> (since + 1) .. view.trunk]
  <2>1. ~(view.trunk - since > Gap)
    BY <1>2 DEF Covered
  <2>. QED BY <2>1 DEF Release, Changelog
<1>. HIDE DEF rel, since
<1>4. rel \in ReleaseSet
  <2>1. (since + 1) .. view.trunk \subseteq Nat
    BY <1>2 DEF Covered
  <2>. QED BY <1>2, <1>3, <2>1 DEF ReleaseSet, Covered
<1>5. view'.trunk = view.trunk
  BY DEF CutRelease, Fields
<1>6. CASE listed' = listed
  BY <1>5, <1>6 DEF Covered, ChangelogsCover, Since
<1>7. CASE listed' = Append(listed, rel)
  <2>1. /\ listed' \in Seq(ReleaseSet) /\ Len(listed') = n + 1
        /\ \A i \in 1 .. n : listed'[i] = listed[i]
        /\ listed'[n + 1] = rel
    BY <1>1, <1>4, <1>7, AppendProperties
  <2>2. Since(listed)' = view.trunk
    BY <1>1, <1>3, <1>5, <2>1 DEF Since, Last
  <2>3. DOMAIN listed = 1 .. n /\ DOMAIN listed' = 1 .. (n + 1)
    BY <1>1, <2>1, LenProperties
  <2>4. \A i \in 1 .. n : listed[i].log \subseteq 1 .. since
    BY <2>3 DEF Covered, ChangelogsCover, since
  <2>5. \A i, j \in DOMAIN listed' : i # j => listed'[i].log \cap listed'[j].log = {}
    <3>. SUFFICES ASSUME NEW i \in 1 .. (n + 1), NEW j \in 1 .. (n + 1), i # j
                  PROVE  listed'[i].log \cap listed'[j].log = {}
      BY <2>3
    <3>1. \A k \in 1 .. n : listed[k].log \cap rel.log = {}
      BY <1>2, <1>3, <2>4
    <3>2. CASE i \in 1 .. n /\ j \in 1 .. n
      BY <2>1, <2>3, <3>2 DEF Covered, ChangelogsCover
    <3>3. CASE i = n + 1 /\ j \in 1 .. n
      BY <2>1, <3>1, <3>3
    <3>4. CASE j = n + 1 /\ i \in 1 .. n
      BY <2>1, <3>1, <3>4
    <3>. QED BY <1>1, <3>2, <3>3, <3>4
  <2>6. UNION {listed'[i].log : i \in DOMAIN listed'} = 1 .. view.trunk
    <3>1. UNION {listed[i].log : i \in 1 .. n} = 1 .. since
      BY <2>3 DEF Covered, ChangelogsCover, since
    <3>2. UNION {listed'[i].log : i \in 1 .. (n + 1)}
            = (UNION {listed[i].log : i \in 1 .. n}) \cup rel.log
      <4>1. \A i : i \in 1 .. (n + 1) <=> i \in 1 .. n \/ i = n + 1
        BY <1>1
      <4>2. \A i \in 1 .. n : listed'[i].log = listed[i].log
        BY <2>1
      <4>3. listed'[n + 1].log = rel.log
        BY <2>1
      <4>. SUFFICES ASSUME NEW x
                    PROVE  x \in UNION {listed'[i].log : i \in 1 .. (n + 1)}
                             <=> x \in (UNION {listed[i].log : i \in 1 .. n}) \cup rel.log
        OBVIOUS
      <4>4. x \in UNION {listed'[i].log : i \in 1 .. (n + 1)}
              <=> \E i \in 1 .. (n + 1) : x \in listed'[i].log
        OBVIOUS
      <4>5. x \in UNION {listed[i].log : i \in 1 .. n} <=> \E i \in 1 .. n : x \in listed[i].log
        OBVIOUS
      <4>. QED BY <4>1, <4>2, <4>3, <4>4, <4>5, Zenon
    <3>3. 1 .. since \cup (since + 1) .. view.trunk = 1 .. view.trunk
      <4>1. since <= view.trunk /\ view.trunk \in Nat
        BY DEF Covered, since
      <4>. QED BY <1>2, <4>1
    <3>4. rel.log = (since + 1) .. view.trunk
      BY <1>3
    <3>5. UNION {listed'[i].log : i \in DOMAIN listed'}
            = UNION {listed'[i].log : i \in 1 .. (n + 1)}
      BY <2>3
    <3>6. (UNION {listed[i].log : i \in 1 .. n}) \cup rel.log = 1 .. view.trunk
      BY <3>1, <3>3, <3>4
    <3>. QED BY <3>2, <3>5, <3>6
  <2>. QED BY <1>5, <2>1, <2>2, <2>5, <2>6 DEF Covered, ChangelogsCover
<1>. QED BY <1>6, <1>7 DEF CutRelease, rel

\* While no more revisions land than a changelog looks back (500 in the code),
\* every revision up to the last listed release is in one changelog and no
\* other, also when the daemon stops between a release and its listing.
THEOREM ChangelogsPartition ==
  MaxTrunk \in 1 .. Gap => (Spec => []ChangelogsCover)
<1>. SUFFICES ASSUME MaxTrunk \in 1 .. Gap PROVE Spec => []ChangelogsCover
  OBVIOUS
<1>. DEFINE Bounded == Covered /\ view.trunk <= MaxTrunk
<1>0. MaxTrunk \in Nat /\ Gap \in Nat /\ 1 <= MaxTrunk /\ MaxTrunk <= Gap
  BY BoundsAssumption
<1>1. Init => Bounded
  <2>. SUFFICES ASSUME Init PROVE Bounded
    OBVIOUS
  <2>1. listed = << >> /\ view.trunk = 1
    BY DEF Init
  <2>. QED BY <1>0, <2>1 DEF Covered, ChangelogsCover, Since
<1>2. IInv /\ Bounded /\ [Next]_vars => Bounded'
  <2>. SUFFICES ASSUME IInv, Bounded, [Next]_vars PROVE Bounded'
    OBVIOUS
  <2>1. DOMAIN view = Fields
    BY DEF IInv, Fits
  <2>2. ASSUME NEW h \in {"done", "cut"}, CutRelease(h)
        PROVE  Bounded'
    <3>1. view.trunk <= Gap
      BY <1>0 DEF Covered
    <3>2. view'.trunk = view.trunk
      BY <2>1, <2>2 DEF CutRelease, Fields
    <3>. QED BY <1>0, <2>1, <2>2, <3>1, <3>2, ReleaseCovers
  <2>3. ASSUME listed' = listed, view'.trunk = view.trunk
        PROVE  Bounded'
    BY <2>3 DEF Covered, ChangelogsCover, Since
  <2>4. CASE Land
    <3>1. listed' = listed /\ view'.trunk = view.trunk + 1 /\ view.trunk < MaxTrunk
      BY <2>1, <2>4 DEF Land, Keep, Fields
    <3>2. Since(listed) \in Nat
      BY SinceNatural DEF Covered
    <3>. QED BY <1>0, <3>1, <3>2 DEF Covered, ChangelogsCover, Since
  <2>5. ASSUME NEW t \in Target, CreateTarget(t) \/ StandardVerb(t)
        PROVE  listed' = listed /\ view'.trunk = view.trunk
    BY <2>1, <2>5 DEF CreateTarget, StandardVerb, Keep, Fields
  <2>6. CASE AutoRevert
    BY <2>1, <2>3, <2>6 DEF AutoRevert, Keep, Fields
  <2>7. ASSUME NEW a \in {Owner, Session}, NEW t \in Target, NEW s \in Slice, NEW h \in Outcomes,
               PromoteToTarget(a, t, s, h)
        PROVE  listed' = listed /\ view'.trunk = view.trunk
    BY <2>7, DeployFits DEF PromoteToTarget, Keep, IInv
  <2>8. ASSUME NEW a \in {Owner, Session}, NEW t \in Target, NEW g \in {"good", "bad", "none"},
               NEW h \in Outcomes, Observe(a, t, g, h)
        PROVE  listed' = listed /\ view'.trunk = view.trunk
    <3>1. PICK seen : /\ \E r : seen = [view EXCEPT !.signal[r] = IF g = "none" THEN @ ELSE g]
                      /\ \/ Keep(RollbackTo(seen, running, a, t, h))
                         \/ Keep([view |-> seen, running |-> running])
      BY <2>8 DEF Observe
    <3>2. DOMAIN seen = Fields /\ seen.deployments = view.deployments
          /\ seen.deployed = view.deployed /\ seen.trunk = view.trunk
      BY <2>1, <3>1 DEF Fields
    <3>3. Fits(seen, running)
      BY <3>2, OtherFieldsFit DEF IInv
    <3>4. \/ view' = seen /\ listed' = listed
          \/ view' = RollbackTo(seen, running, a, t, h).view /\ listed' = listed
      BY <3>1 DEF Keep
    <3>5. RollbackTo(seen, running, a, t, h).view.trunk = seen.trunk
      BY <3>3, RollbackFits
    <3>. QED BY <3>2, <3>4, <3>5
  <2>9. ASSUME NEW t \in Target, NEW h \in Outcomes, RollbackVerb(t, h)
        PROVE  listed' = listed /\ view'.trunk = view.trunk
    BY <2>9, RollbackFits DEF RollbackVerb, Keep, IInv
  <2>. QED BY <2>2, <2>3, <2>4, <2>5, <2>6, <2>7, <2>8, <2>9 DEF Next, vars
<1>3. Bounded => ChangelogsCover
  BY DEF Covered
<1>. QED BY InitFits, StepFits, <1>1, <1>2, <1>3, PTL DEF Spec

=============================================================================
