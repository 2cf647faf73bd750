------------------------------- MODULE Agents -------------------------------
(***************************************************************************)
(* Agents and their sessions on one daemon: opening a session, the table   *)
(* requests are answered from, capabilities and their delegation,          *)
(* workspaces and the adopted checkout, claims, memories, plans, hooks,    *)
(* the anomaly monitor and the revocation of an agent (principals.rs,      *)
(* swarm.rs, anomaly.rs, hooks.rs, the dispatch of server.rs).             *)
(*                                                                         *)
(* repo is what survives the daemon: the view of the op log, the files     *)
(* beside the keys and the workspaces.  table is the daemon's memory.  A   *)
(* request is one step, under the repository lock; an agent's request      *)
(* finds or opens its session first (Request).  Each verb is an operator   *)
(* that takes the state and the actor to the state and the workspace the   *)
(* actor is left with.                                                     *)
(*                                                                         *)
(* A scope is a set of paths, Paths being "**".  An edit of the path Test  *)
(* weakens a test, which the standard refuses to land.  Times are what is  *)
(* left of them, and Tick lets them run down.                              *)
(***************************************************************************)
EXTENDS Integers, Sequences, FiniteSets

CONSTANTS Agent, Owner, None,
          Planner, Worker,        \* the agent that may plan, and whom it assigns
          Paths, Test,            \* the files, and the one that is a test
          Assigned,               \* the scope a plan gives
          Casts,                  \* the calls the actors of a behaviour make
          ThrottleAt, RevokeAt,   \* points at which an agent waits, and is out
          Cooldown, Life,         \* of a throttle, of a session
          MaxRevs, MaxSpaces      \* bounds; a cast bounds the sessions of an agent

ASSUME LimitsAssumption == 0 < ThrottleAt /\ ThrottleAt < RevokeAt
ASSUME AgentsAssumption == {Planner, Worker} \subseteq Agent /\ Test \in Paths

(* Principals are told apart: an agent is no session, the owner is neither. *)
ASSUME PrincipalsAssumption ==
  Agent \cap (Agent \X Nat) = {} /\ Owner \notin Agent \cup (Agent \X Nat)

Verbs == {"create", "drop", "adopt", "release", "edit", "snapshot", "propose", "claim", "unclaim",
          "remember", "plan"}

(* Casts are of these verbs and paths. *)
ASSUME CastsAssumption ==
  /\ Assigned \subseteq Paths
  /\ \A c \in Casts :
       /\ \A a \in Agent : c.does[a] \subseteq Verbs
       /\ c.edits \subseteq Paths
       /\ \A g \in c.grants : g.scope \subseteq Paths

VARIABLES repo, table, cast

vars == <<repo, table, cast>>

Root == <<Owner, 0>>
AgentOf(s) == s[1]

(* A function with a value put in at a key. *)
Put(f, key, value) == [x \in DOMAIN f \cup {key} |-> IF x = key THEN value ELSE f[x]]

-----------------------------------------------------------------------------
(* Capabilities.                                                           *)

DefaultVerbs == {"edit", "promote", "remember"}
Ungated == {"snapshot", "claim", "workspace"}

(* Whose word a capability is: the owner's, or that of the session whose
   capability it was cut from. *)
IssuerOf(cap) == IF cap.parent = None THEN Owner ELSE cap.parent.subject

ContainedIn(child, parent) == child.verbs \subseteq parent.verbs /\ child.scope \subseteq parent.scope

CheckChainByCapability(st, cap) ==
    cap.parent = None \/ (cap.parent \in st.caps /\ cap.parent.delegable /\ ContainedIn(cap, cap.parent))

CheckChain(st, cap) ==
    /\ IssuerOf(cap) \notin st.revoked
    /\ cap.parent = None \/ (/\ cap.parent \in st.caps
                             /\ cap.parent.delegable
                             /\ ContainedIn(cap, cap.parent))

CheckAuthorizes(cap, kind) == kind \in Ungated \cup cap.verbs

CheckWriteScope(cap, paths) == paths \subseteq cap.scope

(* An op of a session is accepted: its author, its capability, the verb, and
   the paths of what it proposes. *)
Accepted(st, actor, kind, paths) ==
    /\ actor.session \notin st.revoked
    /\ actor.cap \in st.caps
    /\ CheckChain(st, actor.cap)
    /\ CheckAuthorizes(actor.cap, kind)
    /\ CheckWriteScope(actor.cap, paths)

-----------------------------------------------------------------------------
(* Sessions.                                                               *)

Sessions(st, a) == {<<a, k>> : k \in 1 .. st.sessions[a]}

(* The scope of a session: the planner's assignment, else the owner's grant,
   else what the caller asked for, which is everything. *)
EffectiveWritePaths(st, a) ==
    CASE st.assign[a] # None -> st.assign[a].scope
      [] st.assign[a] = None /\ st.grant[a] # None -> st.grant[a].scope
      [] OTHER -> Paths

DefaultCapability(st, a, scope) ==
    LET g == st.grant[a]
    IN  [subject |-> <<a, st.sessions[a] + 1>>, scope |-> scope, parent |-> None,
         verbs |-> DefaultVerbs \cup (IF g = None THEN {} ELSE g.verbs),
         delegable |-> g # None /\ g.delegable]

ActorOf(f, scope, ws) == [session |-> f.session, cap |-> f.cap, scope |-> scope, ws |-> ws]

(* The session kept for this agent and scope, or a new one. *)
OpenSession(st, a, scope) ==
    LET f == st.files[a][scope]
    IN  IF f # None /\ st.life[f.session] > 0 /\ f.session \notin st.revoked
        THEN [st |-> st,
              actor |-> ActorOf(f, scope, IF f.ws \in DOMAIN st.spaces THEN f.ws ELSE None)]
        ELSE LET cap  == DefaultCapability(st, a, scope)
                 new  == [session |-> cap.subject, cap |-> cap, ws |-> None]
             IN  [st |-> [st EXCEPT !.sessions[a] = @ + 1, !.caps = @ \cup {cap},
                                    !.life = Put(@, cap.subject, Life),
                                    !.files[a][scope] = new],
                  actor |-> ActorOf(new, scope, None)]

CanOpen(st, a, scope) ==
    /\ a \notin st.revoked
    /\ \/ st.sessions[a] < cast.sessions[a]
       \/ LET f == st.files[a][scope]
          IN  f # None /\ st.life[f.session] > 0 /\ f.session \notin st.revoked

(* The workspace a session is using is kept beside its key. *)
RememberSessionWorkspace(st, actor, ws) ==
    LET a == AgentOf(actor.session)
    IN  IF ws = None \/ st.files[a][actor.scope] = None THEN st
        ELSE [st EXCEPT !.files[a][actor.scope].ws = ws]

-----------------------------------------------------------------------------
(* Revocation and the anomaly monitor.                                     *)

MineAgentOnly(st, a) == {a}

(* The agent and the sessions it has. *)
Mine(st, a) == {a} \cup Sessions(st, a)

OwnSpaces(st, a) == {w \in DOMAIN st.spaces : st.spaces[w].by \in Mine(st, a)}

UnwoundNothing(st, a) == {}

(* What is unwound: the unlanded revisions its sessions wrote that its own
   workspaces are at. *)
Unwound(st, a) ==
    {r \in {st.spaces[w].cur : w \in OwnSpaces(st, a)} \ (st.landed \cup {0}) :
        st.revs[r].by \in Mine(st, a)}

RevokeOp(st, a) ==
    [st EXCEPT !.revoked = @ \cup Mine(st, a),
               !.proposed = @ \ Unwound(st, a), !.pointed = @ \ Unwound(st, a),
               !.claims = {c \in @ : c.by \notin Mine(st, a)},
               !.memories = @ \ Mine(st, a)]

DropSpaces(st, ids) ==
    [st EXCEPT !.spaces = [w \in DOMAIN @ \ ids |-> @[w]]]

(* The workspaces and the assignment go after the op. *)
RevokeAgent(st, a) ==
    [DropSpaces(RevokeOp(st, a), OwnSpaces(st, a)) EXCEPT !.assign[a] = None]

Score(st, a) == st.anomaly[a].weak + st.anomaly[a].other

Throttled(st, a) == st.anomaly[a].left > 0

(* Assign an agent as a hook does, on the paths of the event. *)
SpawnAgent(st, h, paths) ==
    [st EXCEPT !.intents = TRUE,
               !.assign[h.agent] = [scope |-> IF paths = {} THEN Paths ELSE paths, planned |-> TRUE]]

Hooked(st, event, act) == st.hook # None /\ st.hook.on = event /\ st.hook.act = act

(* Points for the agent behind a session: past one limit it waits, past the
   next it is revoked.  The hooks on anomalies run afterwards. *)
RecordWithoutPoints(st, s, points, field) ==
    LET a == AgentOf(s)
    IN  IF Score(st, a) >= ThrottleAt THEN [st EXCEPT !.anomaly[a].left = Cooldown]
        ELSE LET t == [st EXCEPT !.anomaly[a][field] = @ + points]
             IN  IF Score(t, a) >= ThrottleAt THEN [t EXCEPT !.anomaly[a].left = Cooldown] ELSE t

Record(st, s, points, field) ==
    LET a       == AgentOf(s)
        charged == [st EXCEPT !.anomaly[a][field] = @ + points]
        done    == CASE Score(charged, a) >= RevokeAt   -> RevokeAgent(charged, a)
                     [] Score(charged, a) < ThrottleAt  -> charged
                     [] OTHER -> [charged EXCEPT !.anomaly[a].left = Cooldown]
    IN  IF Score(charged, a) >= ThrottleAt /\ Hooked(st, "anomaly", "agent")
        THEN SpawnAgent(done, st.hook, {}) ELSE done

RecordEveryTime(st, s, points, r) == Record(st, s, points, "weak")

(* A cause that comes up again and again counts once. *)
RecordOnce(st, s, points, r) ==
    LET a == AgentOf(s)
    IN  IF r \in st.anomaly[a].charged THEN st
        ELSE Record([st EXCEPT !.anomaly[a].charged = @ \cup {r}], s, points, "weak")

-----------------------------------------------------------------------------
(* Landing, as the coordinator, a revision some workspace is at.  One that *)
(* weakens a test or was flagged is refused.                               *)

Lands(st, r) == st.revs[r].flags = {} /\ Test \notin st.revs[r].paths

HeldSomewhere(st, r) == \E w \in DOMAIN st.spaces : st.spaces[w].cur = r

LandRevision(st, r) ==
    IF Lands(st, r) THEN [st EXCEPT !.landed = @ \cup {r}, !.proposed = @ \ {r}]
    ELSE IF Test \in st.revs[r].paths /\ st.revs[r].by # Owner
    THEN RecordOnce(st, st.revs[r].by, 2, r)
    ELSE st

(* The hook on a proposal: land it now, or assign an agent to its paths. *)
FireProposed(st, r) ==
    CASE Hooked(st, "proposed", "land") /\ HeldSomewhere(st, r) -> LandRevision(st, r)
      [] Hooked(st, "proposed", "agent") -> SpawnAgent(st, st.hook, st.revs[r].paths)
      [] OTHER -> st

-----------------------------------------------------------------------------
(* The verbs of a session: the state and the actor's workspace afterwards. *)

Left(st, ws) == [st |-> st, ws |-> ws]

(* The workspace of a call: the one the session remembers, if it is still
   there; the checkout its agent adopted; one of its own. *)
ActorWorkspace(st, actor) ==
    IF actor.ws # None THEN (IF actor.ws \in DOMAIN st.spaces THEN actor.ws ELSE None)
    ELSE IF st.spaces[Root].holder = AgentOf(actor.session) THEN Root
    ELSE LET own == {w \in DOMAIN st.spaces : st.spaces[w].by = actor.session}
         IN  IF own = {} THEN None ELSE CHOOSE w \in own : TRUE

NewSpace(by, cur) == [by |-> by, holder |-> None, cur |-> cur, dirty |-> {}]

Create(st, actor) ==
    LET id == <<AgentOf(actor.session), st.made + 1>>
    IN  IF st.made = MaxSpaces THEN Left(st, actor.ws)
        ELSE Left([st EXCEPT !.spaces = Put(@, id, NewSpace(actor.session, 0)), !.made = @ + 1], id)

Drop(st, actor) ==
    IF actor.ws \in DOMAIN st.spaces \ {Root} /\ st.spaces[actor.ws].by = actor.session
    THEN Left(DropSpaces(st, {actor.ws}), None) ELSE Left(st, actor.ws)

(* The checkout is taken when nobody else holds it and no unlanded change of
   anyone else's is in it. *)
Adopt(st, actor) ==
    LET me     == AgentOf(actor.session)
        cur    == st.spaces[Root].cur
        theirs == /\ cur \notin st.landed \cup {0}
                  /\ st.revs[cur].by = Owner \/ AgentOf(st.revs[cur].by) # me
    IN  IF st.spaces[Root].holder \in {None, me} /\ ~theirs
        THEN Left([st EXCEPT !.spaces[Root].holder = me], Root) ELSE Left(st, actor.ws)

Release(st, actor) ==
    IF st.spaces[Root].holder # AgentOf(actor.session) THEN Left(st, actor.ws)
    ELSE Left([st EXCEPT !.spaces[Root].holder = None],
              IF actor.ws = Root THEN None ELSE actor.ws)

Claimed(st, actor) == {c.path : c \in {d \in st.claims : d.by = actor.session}}

Edit(st, actor, p) ==
    LET w    == ActorWorkspace(st, actor)
        done == [st EXCEPT !.spaces[w].dirty = @ \cup {p}]
    IN  CASE w = None -> Left(st, actor.ws)
          [] w # None /\ p \notin actor.scope -> Left(Record(done, actor.session, 2, "other"), actor.ws)
          [] w # None /\ p \in actor.scope /\ Claimed(st, actor) # {} /\ p \notin Claimed(st, actor)
                -> Left(Record(done, actor.session, 1, "other"), actor.ws)
          [] OTHER -> Left(done, actor.ws)

(* The revision a snapshot writes, on the change its workspace is at. *)
Revision(st, by, w, scope) ==
    LET cur  == st.spaces[w].cur
        prev == IF cur \in st.landed \cup {0} THEN 0 ELSE cur
        paths == st.spaces[w].dirty \cup (IF prev = 0 THEN {} ELSE st.revs[prev].paths)
    IN  [by |-> by, prev |-> prev, paths |-> paths, flags |-> paths \ scope, space |-> w]

Recorded(st, w, rev) ==
    LET r == Len(st.revs) + 1
    IN  [st EXCEPT !.revs = Append(@, rev), !.pointed = (@ \ {rev.prev}) \cup {r},
                   !.spaces[w].cur = r, !.spaces[w].dirty = {}]

(* A snapshot outside the write scope is charged before its op is built: an
   agent revoked there has its op refused. *)
Snapshot(st, actor) ==
    LET w == ActorWorkspace(st, actor)
    IN  IF w = None \/ Len(st.revs) = MaxRevs THEN Left(st, actor.ws)
        ELSE LET rev  == Revision(st, actor.session, w, actor.scope)
                 was  == IF rev.prev = 0 THEN {} ELSE st.revs[rev.prev].flags
                 next == IF rev.flags \notin {{}, was}
                         THEN Record(st, actor.session, 2, "other") ELSE st
                 same == st.spaces[w].dirty = {} /\ rev.flags = was
             IN  IF ~same /\ Accepted(next, actor, "snapshot", {})
                 THEN Left(Recorded(next, w, rev), actor.ws) ELSE Left(next, actor.ws)

Propose(st, actor) ==
    LET w == ActorWorkspace(st, actor)
        r == IF w = None THEN 0 ELSE st.spaces[w].cur
    IN  IF r \in {0} \cup st.landed \cup st.proposed
           \/ ~Accepted(st, actor, "promote", st.revs[r].paths)
        THEN Left(st, actor.ws)
        ELSE Left(FireProposed([st EXCEPT !.proposed = @ \cup {r},
                                          !.under = Put(@, r, actor.cap)], r), actor.ws)

Claim(st, actor, p) ==
    IF Accepted(st, actor, "claim", {})
    THEN Left([st EXCEPT !.claims = @ \cup {[by |-> actor.session, path |-> p]}], actor.ws)
    ELSE Left(st, actor.ws)

Unclaim(st, actor) ==
    IF Accepted(st, actor, "claim", {})
    THEN Left([st EXCEPT !.claims = {c \in @ : c.by # actor.session}], actor.ws)
    ELSE Left(st, actor.ws)

Remember(st, actor) ==
    IF Accepted(st, actor, "remember", {})
    THEN Left([st EXCEPT !.memories = @ \cup {actor.session}], actor.ws)
    ELSE Left(st, actor.ws)

(* A plan writes the assignment, opens the worker's session and points its
   file at the capability it cuts from its own, and then asks for the op.  A
   refused op takes none of the rest back. *)
Child(st, actor, session) ==
    [subject |-> session, scope |-> Assigned, parent |-> actor.cap,
     verbs |-> actor.cap.verbs \ {"plan"}, delegable |-> FALSE]

Plan(st, actor) ==
    LET accepted == Accepted(st, actor, "plan", {})
        assigned == [st EXCEPT !.assign[Worker] = [scope |-> Assigned, planned |-> accepted],
                               !.intents = @ \/ accepted]
    IN  IF ~actor.cap.delegable THEN Left(assigned, actor.ws)
        ELSE IF ~CanOpen(assigned, Worker, Assigned) THEN Left([assigned EXCEPT !.intents = st.intents,
                                                   !.assign[Worker].planned = FALSE], actor.ws)
        ELSE LET o     == OpenSession(assigned, Worker, Assigned)
                 child == Child(st, actor, o.actor.session)
             IN  Left([o.st EXCEPT !.files[Worker][Assigned].cap = child,
                                   !.caps = IF accepted THEN @ \cup {child} ELSE @], actor.ws)

-----------------------------------------------------------------------------
(* A request of an agent.                                                  *)

ForgetSession(a) ==
    /\ table[a] # None /\ table[a].session \in repo.revoked
    /\ table' = [table EXCEPT ![a] = None]
    /\ UNCHANGED <<repo, cast>>

(* What a verb is called with: the path edited or claimed. *)
Args(verb) == CASE verb = "edit" -> cast.edits [] verb = "claim" -> cast.claims [] OTHER -> {None}

Call(verb, arg, st, actor) ==
    CASE verb = "create"   -> Create(st, actor)
      [] verb = "drop"     -> Drop(st, actor)
      [] verb = "adopt"    -> Adopt(st, actor)
      [] verb = "release"  -> Release(st, actor)
      [] verb = "edit"     -> Edit(st, actor, arg)
      [] verb = "snapshot" -> Snapshot(st, actor)
      [] verb = "propose"  -> Propose(st, actor)
      [] verb = "claim"    -> Claim(st, actor, arg)
      [] verb = "unclaim"  -> Unclaim(st, actor)
      [] verb = "remember" -> Remember(st, actor)
      [] verb = "plan"     -> Plan(st, actor)

(* Find or open the session, refuse a throttled one at the price of a point,
   run the verb, keep the workspace it leaves. *)
Request(a, verb, arg) ==
    /\ IF table[a] # None THEN table[a].session \notin repo.revoked
       ELSE CanOpen(repo, a, EffectiveWritePaths(repo, a))
    /\ \E o \in {IF table[a] # None THEN [st |-> repo, actor |-> table[a]]
                 ELSE OpenSession(repo, a, EffectiveWritePaths(repo, a))} :
       \E done \in {IF Throttled(o.st, a)
                    THEN Left(Record(o.st, o.actor.session, 1, "other"), o.actor.ws)
                    ELSE Call(verb, arg, o.st, o.actor)} :
         /\ repo' = RememberSessionWorkspace(done.st, o.actor, done.ws)
         /\ table' = [table EXCEPT ![a] = IF done.ws = None THEN o.actor
                                          ELSE [o.actor EXCEPT !.ws = done.ws]]
    /\ UNCHANGED cast

-----------------------------------------------------------------------------
(* The owner, the daemon and time.                                         *)

Keep(st) == repo' = st /\ UNCHANGED <<table, cast>>

GrantTo(a, g) == repo.grant[a] # g /\ Keep([repo EXCEPT !.grant[a] = g])

SetHook(h) == repo.hook = None /\ Keep([repo EXCEPT !.hook = h])

RevokeVerb(a) == a \notin repo.revoked /\ Keep(RevokeAgent(repo, a))

(* The daemon stops after the op of a revocation: the workspaces and the
   assignment stay. *)
RevokeCut(a) ==
    /\ a \notin repo.revoked
    /\ repo' = RevokeOp(repo, a)
    /\ table' = [b \in Agent |-> None]
    /\ UNCHANGED cast

OwnerReleases == repo.spaces[Root].holder # None /\ Keep([repo EXCEPT !.spaces[Root].holder = None])

(* The owner's own change in the checkout, while nobody holds it. *)
OwnerSnapshot ==
    /\ repo.spaces[Root].holder = None /\ repo.spaces[Root].dirty # {} /\ Len(repo.revs) < MaxRevs
    /\ Keep(Recorded(repo, Root, Revision(repo, Owner, Root, Paths)))

Land(r) == HeldSomewhere(repo, r) /\ Keep(LandRevision(repo, r))

Restart ==
    /\ \E a \in Agent : table[a] # None
    /\ table' = [a \in Agent |-> None]
    /\ UNCHANGED <<repo, cast>>

Sooner(left) == IF left > 0 THEN left - 1 ELSE 0

Tick ==
    /\ (\E a \in Agent : Throttled(repo, a)) \/ \E s \in DOMAIN repo.life : repo.life[s] > 0
    /\ Keep([repo EXCEPT
               !.anomaly = [a \in Agent |-> [repo.anomaly[a] EXCEPT !.left = Sooner(@)]],
               !.life = [s \in DOMAIN repo.life |-> Sooner(repo.life[s])]])

Init ==
    /\ repo = [revoked |-> {}, caps |-> {}, sessions |-> [a \in Agent |-> 0], life |-> << >>,
               revs |-> << >>, pointed |-> {}, proposed |-> {}, landed |-> {}, under |-> << >>,
               claims |-> {}, memories |-> {}, intents |-> FALSE, hook |-> None,
               files |-> [a \in Agent |-> [s \in SUBSET Paths |-> None]],
               assign |-> [a \in Agent |-> None], grant |-> [a \in Agent |-> None],
               anomaly |-> [a \in Agent |-> [weak |-> 0, other |-> 0, left |-> 0, charged |-> {}]],
               spaces |-> [w \in {Root} |-> NewSpace(Owner, 0)], made |-> 0]
    /\ table = [a \in Agent |-> None]
    /\ cast \in Casts

Next ==
    \/ \E a \in Agent : \E verb \in cast.does[a] : \E arg \in Args(verb) : Request(a, verb, arg)
    \/ \E a \in Agent : ForgetSession(a)
    \/ \E a \in Agent, g \in cast.grants : GrantTo(a, g)
    \/ \E h \in cast.hooks : SetHook(h)
    \/ \E a \in Agent : RevokeVerb(a) \/ RevokeCut(a)
    \/ OwnerReleases \/ OwnerSnapshot
    \/ \E r \in repo.proposed : Land(r)
    \/ Restart \/ Tick

(* Time passes. *)
Spec == Init /\ [][Next]_vars /\ WF_vars(Tick)

-----------------------------------------------------------------------------
(* Properties.                                                             *)

IsOf(by, a) == by # Owner /\ AgentOf(by) = a

(* A revoked agent has no more say: whichever of its sessions is still in
   the table, was planned for it or is kept in a file, no step that finds or
   leaves it revoked records a revision, a claim, a memory or a capability of
   it (server.rs dispatch, verify_op, revoke_agent). *)
NoWordAfterRevoke ==
    [][\A a \in Agent \cap repo'.revoked :
          /\ \A r \in DOMAIN repo'.revs \ DOMAIN repo.revs : ~IsOf(repo'.revs[r].by, a)
          /\ \A c \in repo'.claims : ~IsOf(c.by, a)
          /\ \A s \in repo'.memories : ~IsOf(s, a)
          /\ a \in repo.revoked => \A c \in repo'.caps \ repo.caps : ~IsOf(c.subject, a)]_vars

(* The coordinator lands nothing a revoked agent left in a workspace of its
   own, even when the daemon stopped before the workspaces were dropped
   (revoke_agent, land_one).  What it left in the checkout is another
   matter: revoke_agent does not look there. *)
LandsNothingOfRevoked ==
    [][\A r \in repo'.landed \ repo.landed :
          \A a \in Agent \cap repo.revoked :
             IsOf(repo.revs[r].by, a) => repo.revs[r].space = Root]_vars

(* Work handed out by a planner ends with it: once a planner is revoked no
   proposal is accepted under a capability it cut from its own, although the
   worker was not revoked and its session goes on (check_chain). *)
DelegatedDiesWithPlanner ==
    [][\A r \in repo'.proposed \ repo.proposed : IssuerOf(repo'.under[r]) \notin repo.revoked]_vars

(* An author is charged for a weakened test once a revision, however often
   the frontier takes the revision up, across restarts and sessions
   (record_once). *)
ChargedOnce ==
    \A a \in Agent :
        repo.anomaly[a].weak <=
            2 * Cardinality({r \in DOMAIN repo.revs : IsOf(repo.revs[r].by, a) /\ Test \in repo.revs[r].paths})

(* An agent that is throttled is not so for ever: however it insists, it is
   let in again or it is revoked (check, record). *)
ThrottleEnds ==
    \A a \in Agent : Throttled(repo, a) ~> (~Throttled(repo, a) \/ a \in repo.revoked)

=============================================================================
