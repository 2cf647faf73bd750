----------------------------- MODULE AgentsProofs -----------------------------
(***************************************************************************)
(* Theorems about Agents, for any agents, paths, casts, limits and bounds. *)
(*                                                                         *)
(* A request is a chain of operators on the state.  Each is shown to keep  *)
(* the invariant of the state (Good) and to do no more than its caller may *)
(* (Quiet for what runs without a session, Legit for a verb).              *)
(***************************************************************************)
EXTENDS Agents, Groundwork, FiniteSetTheorems, TLAPS

Fields == {"revoked", "caps", "sessions", "life", "revs", "pointed", "proposed", "landed", "under",
           "claims", "memories", "intents", "hook", "files", "assign", "grant", "anomaly",
           "spaces", "made"}

\* A session that was opened.
IsSession(st, s) == s \in Agent \X Nat /\ s \in Sessions(st, AgentOf(s))

\* The workspaces an agent can be in: one it made, or the checkout.
Spots(a) == {None, Root} \cup ({a} \X (Nat \ {0}))

\* A revoked agent has no session that is not revoked.
RevokedOut(st) == \A a \in Agent \cap st.revoked : Sessions(st, a) \subseteq st.revoked

\* A session file is of the agent it is kept for.
FileOf(st, a, f) ==
  f # None => /\ DOMAIN f = {"session", "cap", "ws"}
              /\ f.session \in Sessions(st, a) /\ f.ws \in Spots(a)

FilesFit(st) ==
  /\ DOMAIN st.files = Agent
  /\ \A a \in Agent : /\ DOMAIN st.files[a] = SUBSET Paths
                      /\ \A s \in SUBSET Paths : FileOf(st, a, st.files[a][s])

\* A scope is a set of paths.
ScopesFit(st) ==
  /\ DOMAIN st.assign = Agent /\ DOMAIN st.grant = Agent
  /\ \A a \in Agent : /\ st.assign[a] # None => st.assign[a].scope \subseteq Paths
                      /\ st.grant[a] # None => st.grant[a].scope \subseteq Paths

\* What is on disk and in the log is by the owner or by a session, and what a
\* session writes outside the checkout is in a workspace of its own agent.
ByOwner(by, w) == w = Root /\ by = Owner
BySession(st, by, w) ==
  IsSession(st, by) /\ (w = Root \/ (w \in Agent \X (Nat \ {0}) /\ AgentOf(w) = AgentOf(by)))

RevsFit(st) ==
  /\ IsList(st.revs)
  /\ \A r \in 1 .. Len(st.revs) :
       /\ ByOwner(st.revs[r].by, st.revs[r].space) \/ BySession(st, st.revs[r].by, st.revs[r].space)
       /\ st.revs[r].paths \subseteq Paths

SpacesFit(st) ==
  /\ Root \in DOMAIN st.spaces
  /\ \A w \in DOMAIN st.spaces :
       /\ DOMAIN st.spaces[w] = {"by", "holder", "cur", "dirty"}
       /\ \/ ByOwner(st.spaces[w].by, w)
          \/ w # Root /\ BySession(st, st.spaces[w].by, w)
       /\ st.spaces[w].dirty \subseteq Paths
       /\ \/ st.spaces[w].cur = 0
          \/ st.spaces[w].cur \in 1 .. Len(st.revs) /\ st.revs[st.spaces[w].cur].space = w
  /\ st.made \in Nat

\* A revoked agent has no claim and no memory.
SayingsFit(st) ==
  /\ \A c \in st.claims : IsSession(st, c.by) /\ AgentOf(c.by) \notin st.revoked
  /\ \A s \in st.memories : IsSession(st, s) /\ AgentOf(s) \notin st.revoked

\* What a revoked agent proposed from a workspace of its own is at no workspace.
ProposalsFit(st) ==
  /\ st.proposed \subseteq 1 .. Len(st.revs)
  /\ \A r \in st.proposed \ st.landed : \A a \in Agent \cap st.revoked :
       IsOf(st.revs[r].by, a) => st.revs[r].space = Root \/ ~HeldSomewhere(st, r)

\* An agent is charged for revisions of its own that weaken a test, two points each.
ChargesFit(st) ==
  /\ DOMAIN st.anomaly = Agent
  /\ \A a \in Agent :
       LET n == st.anomaly[a] IN
       /\ DOMAIN n = {"weak", "other", "left", "charged"}
       /\ n.charged \subseteq
            {r \in 1 .. Len(st.revs) : IsOf(st.revs[r].by, a) /\ Test \in st.revs[r].paths}
       /\ n.weak = 2 * Cardinality(n.charged)

Good(st) ==
  /\ DOMAIN st = Fields /\ st.sessions \in [Agent -> Nat]
  /\ RevokedOut(st) /\ FilesFit(st) /\ ScopesFit(st) /\ RevsFit(st) /\ SpacesFit(st)
  /\ SayingsFit(st) /\ ProposalsFit(st) /\ ChargesFit(st)

\* Who a request acts as.
ActorFits(st, a, actor) ==
  /\ DOMAIN actor = {"session", "cap", "scope", "ws"}
  /\ actor.session \in Sessions(st, a) /\ actor.scope \subseteq Paths /\ actor.ws \in Spots(a)

TableFits == DOMAIN table = Agent /\ \A a \in Agent : table[a] # None => ActorFits(repo, a, table[a])

IInv == cast \in Casts /\ Good(repo) /\ TableFits

-----------------------------------------------------------------------------
(***************************************************************************)
(* What a step may do.                                                     *)
(***************************************************************************)

\* Nothing lands that a revoked agent left in a workspace of its own.
LandsFit(st, t) ==
  \A r \in t.landed \ st.landed : \A a \in Agent \cap st.revoked :
     IsOf(st.revs[r].by, a) => st.revs[r].space = Root

\* The daemon's own doing: charges, revocations, assignments and landings.
Quiet(st, t) ==
  /\ t.revs = st.revs /\ t.caps = st.caps /\ t.sessions = st.sessions /\ t.files = st.files
  /\ t.under = st.under /\ t.grant = st.grant /\ t.made = st.made
  /\ st.revoked \subseteq t.revoked /\ t.proposed \subseteq st.proposed
  /\ st.landed \subseteq t.landed /\ LandsFit(st, t)
  /\ DOMAIN t.spaces \subseteq DOMAIN st.spaces
  /\ \A w \in DOMAIN t.spaces : t.spaces[w] = st.spaces[w]

SameBut(st, t, parts) ==
  DOMAIN st = Fields /\ DOMAIN t = Fields /\ \A f \in Fields \ parts : t[f] = st[f]

\* What runs one after the other is quiet if each is.
LEMMA QuietChain ==
  ASSUME NEW st, NEW t, NEW u, Quiet(st, t), Quiet(t, u)
  PROVE  Quiet(st, u)
<1>1. LandsFit(st, u)
  BY DEF Quiet, LandsFit
<1> QED
  BY <1>1 DEF Quiet

\* Who is a session does not depend on the rest of the state.
LEMMA NamesKept ==
  ASSUME NEW st, NEW t, t.sessions = st.sessions
  PROVE  /\ \A a : Sessions(t, a) = Sessions(st, a)
         /\ \A s : IsSession(t, s) = IsSession(st, s)
         /\ \A by, w : BySession(t, by, w) = BySession(st, by, w)
         /\ \A a, f : FileOf(t, a, f) = FileOf(st, a, f)
<1>1. \A a : Sessions(t, a) = Sessions(st, a)
  BY DEF Sessions
<1>2. \A s : IsSession(t, s) = IsSession(st, s)
  BY <1>1 DEF IsSession
<1>3. \A by, w : BySession(t, by, w) = BySession(st, by, w)
  BY <1>2 DEF BySession
<1>4. \A a, f : FileOf(t, a, f) = FileOf(st, a, f)
  BY <1>1 DEF FileOf
<1> QED
  BY <1>1, <1>2, <1>3, <1>4

\* Workspaces that lose nothing but files to write, or gain a few.
LEMMA SpacesKept ==
  ASSUME NEW st, NEW t, SpacesFit(st), t.sessions = st.sessions, t.revs = st.revs,
         t.made = st.made, Root \in DOMAIN t.spaces, DOMAIN t.spaces \subseteq DOMAIN st.spaces,
         \A v \in DOMAIN t.spaces :
           /\ DOMAIN t.spaces[v] = DOMAIN st.spaces[v] /\ t.spaces[v].by = st.spaces[v].by
           /\ t.spaces[v].cur = st.spaces[v].cur
           /\ t.spaces[v].dirty \subseteq st.spaces[v].dirty \cup Paths
  PROVE  SpacesFit(t)
<1>1. \A by, v : BySession(t, by, v) = BySession(st, by, v)
  BY NamesKept
<1>2. ASSUME NEW v \in DOMAIN t.spaces
      PROVE  /\ DOMAIN t.spaces[v] = {"by", "holder", "cur", "dirty"}
             /\ \/ ByOwner(t.spaces[v].by, v)
                \/ v # Root /\ BySession(t, t.spaces[v].by, v)
             /\ t.spaces[v].dirty \subseteq Paths
             /\ \/ t.spaces[v].cur = 0
                \/ t.spaces[v].cur \in 1 .. Len(t.revs) /\ t.revs[t.spaces[v].cur].space = v
  <2>1. /\ v \in DOMAIN st.spaces
        /\ DOMAIN t.spaces[v] = DOMAIN st.spaces[v] /\ t.spaces[v].by = st.spaces[v].by
        /\ t.spaces[v].cur = st.spaces[v].cur
        /\ t.spaces[v].dirty \subseteq st.spaces[v].dirty \cup Paths
    BY <1>2
  <2>2. /\ DOMAIN st.spaces[v] = {"by", "holder", "cur", "dirty"}
        /\ \/ ByOwner(st.spaces[v].by, v)
           \/ v # Root /\ BySession(st, st.spaces[v].by, v)
        /\ st.spaces[v].dirty \subseteq Paths
        /\ \/ st.spaces[v].cur = 0
           \/ st.spaces[v].cur \in 1 .. Len(st.revs) /\ st.revs[st.spaces[v].cur].space = v
    BY <2>1 DEF SpacesFit
  <2> QED
    BY <1>1, <2>1, <2>2
<1> QED
  BY <1>2 DEF SpacesFit

\* One session file is written.
Writes(st, t, a, z, f) ==
  /\ DOMAIN t.files = Agent /\ \A b \in Agent : DOMAIN t.files[b] = SUBSET Paths
  /\ \A b \in Agent : \A y \in SUBSET Paths :
       t.files[b][y] = IF b = a /\ y = z THEN f ELSE st.files[b][y]

LEMMA FilesKept ==
  ASSUME NEW st, NEW t, FilesFit(st), \A b \in Agent : Sessions(st, b) \subseteq Sessions(t, b),
         NEW a \in Agent, NEW z, NEW f, FileOf(t, a, f), Writes(st, t, a, z, f)
  PROVE  FilesFit(t)
<1>1. ASSUME NEW b \in Agent, NEW y \in SUBSET Paths
      PROVE  FileOf(t, b, t.files[b][y])
  <2>1. CASE b = a /\ y = z
    BY <2>1 DEF Writes
  <2>2. CASE ~(b = a /\ y = z)
    <3>1. FileOf(st, b, st.files[b][y])
      BY DEF FilesFit
    <3>2. t.files[b][y] = st.files[b][y]
      BY <2>2 DEF Writes
    <3>3. FileOf(t, b, st.files[b][y])
      BY <3>1 DEF FileOf
    <3> QED
      BY <3>2, <3>3
  <2> QED
    BY <2>1, <2>2
<1> QED
  BY <1>1 DEF FilesFit, Writes

\* Each part of the invariant looks at a few fields.
LEMMA PartsKept ==
  ASSUME NEW st, NEW t, t.sessions = st.sessions, t.revs = st.revs
  PROVE  /\ t.revoked = st.revoked /\ RevokedOut(st) => RevokedOut(t)
         /\ t.files = st.files /\ FilesFit(st) => FilesFit(t)
         /\ t.assign = st.assign /\ t.grant = st.grant /\ ScopesFit(st) => ScopesFit(t)
         /\ RevsFit(st) => RevsFit(t)
         /\ t.spaces = st.spaces /\ t.made = st.made /\ SpacesFit(st) => SpacesFit(t)
         /\ /\ t.claims = st.claims /\ t.memories = st.memories /\ t.revoked = st.revoked
            /\ SayingsFit(st)
            => SayingsFit(t)
         /\ /\ t.proposed = st.proposed /\ t.landed = st.landed /\ t.revoked = st.revoked
            /\ t.spaces = st.spaces /\ ProposalsFit(st)
            => ProposalsFit(t)
         /\ t.anomaly = st.anomaly /\ ChargesFit(st) => ChargesFit(t)
<1>1. \A a : Sessions(t, a) = Sessions(st, a)
  BY NamesKept
<1>2. \A s : IsSession(t, s) = IsSession(st, s)
  BY NamesKept
<1>3. \A by, w : BySession(t, by, w) = BySession(st, by, w)
  BY NamesKept
<1>4. \A a, f : FileOf(t, a, f) = FileOf(st, a, f)
  BY NamesKept
<1>5. t.revoked = st.revoked /\ RevokedOut(st) => RevokedOut(t)
  BY <1>1 DEF RevokedOut
<1>6. t.files = st.files /\ FilesFit(st) => FilesFit(t)
  BY <1>4 DEF FilesFit
<1>7. t.assign = st.assign /\ t.grant = st.grant /\ ScopesFit(st) => ScopesFit(t)
  BY DEF ScopesFit
<1>8. RevsFit(st) => RevsFit(t)
  BY <1>3 DEF RevsFit
<1>9. t.spaces = st.spaces /\ t.made = st.made /\ SpacesFit(st) => SpacesFit(t)
  BY <1>3 DEF SpacesFit
<1>10. t.claims = st.claims /\ t.memories = st.memories /\ t.revoked = st.revoked /\ SayingsFit(st)
         => SayingsFit(t)
  BY <1>2 DEF SayingsFit
<1>11. /\ t.proposed = st.proposed /\ t.landed = st.landed /\ t.revoked = st.revoked
       /\ t.spaces = st.spaces /\ ProposalsFit(st)
       => ProposalsFit(t)
  BY DEF ProposalsFit, HeldSomewhere
<1>12. t.anomaly = st.anomaly /\ ChargesFit(st) => ChargesFit(t)
  BY DEF ChargesFit
<1> QED
  BY <1>5, <1>6, <1>7, <1>8, <1>9, <1>10, <1>11, <1>12

\* A session names its agent, and is neither an agent nor the owner.
LEMMA SessionsNamed ==
  ASSUME NEW st, st.sessions \in [Agent -> Nat]
  PROVE  /\ \A a \in Agent : \A s \in Sessions(st, a) :
              /\ IsSession(st, s) /\ AgentOf(s) = a /\ s \in Agent \X Nat
              /\ s # Owner /\ s \notin Agent
         /\ \A s : IsSession(st, s) =>
              /\ AgentOf(s) \in Agent /\ s \in Sessions(st, AgentOf(s))
              /\ s # Owner /\ s \notin Agent
<1>1. ASSUME NEW a \in Agent, NEW s \in Sessions(st, a)
      PROVE  /\ IsSession(st, s) /\ AgentOf(s) = a /\ s \in Agent \X Nat
             /\ s # Owner /\ s \notin Agent
  <2>1. st.sessions[a] \in Nat
    OBVIOUS
  <2>2. PICK k \in 1 .. st.sessions[a] : s = <<a, k>>
    BY DEF Sessions
  <2>3. s \in Agent \X Nat /\ AgentOf(s) = a
    BY <2>1, <2>2 DEF AgentOf
  <2> QED
    BY <2>3, PrincipalsAssumption DEF IsSession
<1>2. ASSUME NEW s, IsSession(st, s)
      PROVE  AgentOf(s) \in Agent /\ s \in Sessions(st, AgentOf(s)) /\ s # Owner /\ s \notin Agent
  BY <1>2, PrincipalsAssumption DEF IsSession, AgentOf
<1> QED
  BY <1>1, <1>2

-----------------------------------------------------------------------------
(***************************************************************************)
(* Charges, assignments and revocations.                                   *)
(***************************************************************************)

\* A change of the monitor's scores only.
LEMMA ScoreFits ==
  ASSUME NEW st, NEW t, Good(st), SameBut(st, t, {"anomaly"}), ChargesFit(t)
  PROVE  Good(t) /\ Quiet(st, t)
<1>1. /\ DOMAIN t = Fields /\ t.sessions = st.sessions /\ t.revs = st.revs
      /\ t.revoked = st.revoked /\ t.files = st.files /\ t.assign = st.assign
      /\ t.grant = st.grant /\ t.spaces = st.spaces /\ t.made = st.made /\ t.claims = st.claims
      /\ t.memories = st.memories /\ t.proposed = st.proposed /\ t.landed = st.landed
      /\ t.caps = st.caps /\ t.under = st.under
  BY DEF SameBut, Fields
<1>2. Good(t)
  BY <1>1, PartsKept DEF Good
<1>3. Quiet(st, t)
  BY <1>1 DEF Quiet, LandsFit
<1> QED
  BY <1>2, <1>3

\* A hook that assigns an agent writes the assignment.
LEMMA SpawnFits ==
  ASSUME NEW st, Good(st), NEW h, NEW paths, paths \subseteq Paths
  PROVE  Good(SpawnAgent(st, h, paths)) /\ Quiet(st, SpawnAgent(st, h, paths))
<1> DEFINE t == SpawnAgent(st, h, paths)
<1>1. /\ DOMAIN t = Fields /\ t.sessions = st.sessions /\ t.revs = st.revs
      /\ t.revoked = st.revoked /\ t.files = st.files
      /\ t.grant = st.grant /\ t.spaces = st.spaces /\ t.made = st.made /\ t.claims = st.claims
      /\ t.memories = st.memories /\ t.proposed = st.proposed /\ t.landed = st.landed
      /\ t.caps = st.caps /\ t.under = st.under /\ t.anomaly = st.anomaly
  BY DEF SpawnAgent, Good, Fields
<1>2. t.assign = [st.assign EXCEPT
                    ![h.agent] = [scope |-> IF paths = {} THEN Paths ELSE paths, planned |-> TRUE]]
  BY DEF SpawnAgent, Good, Fields
<1> HIDE DEF t
<1>3. ScopesFit(t)
  BY <1>1, <1>2 DEF Good, ScopesFit
<1>4. Good(t)
  BY <1>1, <1>3, PartsKept DEF Good
<1>5. Quiet(st, t)
  BY <1>1 DEF Quiet, LandsFit
<1> QED
  BY <1>4, <1>5 DEF t

\* The op of a revocation takes the word of the agent and of all its sessions.
LEMMA RevokeOpFits ==
  ASSUME NEW st, Good(st), NEW a \in Agent
  PROVE  Good(RevokeOp(st, a)) /\ Quiet(st, RevokeOp(st, a)) /\ a \in RevokeOp(st, a).revoked
<1> DEFINE t == RevokeOp(st, a)
<1>1. /\ DOMAIN t = Fields /\ t.sessions = st.sessions /\ t.revs = st.revs
      /\ t.files = st.files /\ t.assign = st.assign
      /\ t.grant = st.grant /\ t.spaces = st.spaces /\ t.made = st.made
      /\ t.landed = st.landed /\ t.caps = st.caps /\ t.under = st.under
      /\ t.anomaly = st.anomaly
  BY DEF RevokeOp, Good, Fields
<1>2. /\ t.revoked = st.revoked \cup Mine(st, a)
      /\ t.proposed = st.proposed \ Unwound(st, a)
      /\ t.claims = {c \in st.claims : c.by \notin Mine(st, a)}
      /\ t.memories = st.memories \ Mine(st, a)
  BY DEF RevokeOp, Good, Fields
<1> HIDE DEF t
<1>3. st.sessions \in [Agent -> Nat]
  BY DEF Good
<1>4. \A b \in Agent : b \in t.revoked => b \in st.revoked \/ b = a
  BY <1>2, <1>3, SessionsNamed DEF Mine
<1>5. RevokedOut(t)
  BY <1>1, <1>2, <1>4 DEF RevokedOut, Good, Mine, Sessions
<1>6. SayingsFit(t)
  <2>1. ASSUME NEW s, IsSession(st, s), AgentOf(s) \notin st.revoked, s \notin Mine(st, a)
        PROVE  IsSession(t, s) /\ AgentOf(s) \notin t.revoked
    BY <1>1, <1>3, <1>4, <2>1, SessionsNamed DEF Mine, IsSession, Sessions
  <2> QED
    BY <1>2, <2>1 DEF SayingsFit, Good
<1>7. ProposalsFit(t)
  <2>1. t.proposed \subseteq 1 .. Len(t.revs)
    BY <1>1, <1>2 DEF ProposalsFit, Good
  <2>2. ASSUME NEW r \in t.proposed \ t.landed, NEW b \in Agent \cap t.revoked,
               IsOf(t.revs[r].by, b), t.revs[r].space # Root, HeldSomewhere(t, r)
        PROVE  FALSE
    <3>1. r \in st.proposed \ st.landed /\ IsOf(st.revs[r].by, b) /\ st.revs[r].space # Root
          /\ HeldSomewhere(st, r) /\ r \in 1 .. Len(st.revs)
      BY <1>1, <1>2, <2>1, <2>2 DEF HeldSomewhere
    <3>2. b = a
      BY <1>4, <2>2, <3>1 DEF ProposalsFit, Good
    <3>3. PICK w \in DOMAIN st.spaces : st.spaces[w].cur = r
      BY <3>1 DEF HeldSomewhere
    <3>4. r # 0 /\ st.revs[r].space = w /\ w # Root
      BY <3>1, <3>3 DEF Good, SpacesFit
    <3>5. BySession(st, st.spaces[w].by, w) /\ BySession(st, st.revs[r].by, w)
      BY <3>1, <3>4 DEF Good, SpacesFit, RevsFit, ByOwner
    <3>6. AgentOf(st.revs[r].by) = a /\ AgentOf(w) = a
      BY <3>1, <3>2, <3>4, <3>5 DEF IsOf, BySession
    <3>7. st.spaces[w].by \in Mine(st, a) /\ st.revs[r].by \in Mine(st, a)
      BY <1>3, <3>4, <3>5, <3>6, SessionsNamed DEF BySession, Mine
    <3>8. r \in Unwound(st, a)
      BY <3>1, <3>3, <3>4, <3>7 DEF Unwound, OwnSpaces
    <3> QED
      BY <1>2, <2>2, <3>8
  <2> QED
    BY <2>1, <2>2 DEF ProposalsFit
<1>8. Good(t)
  BY <1>1, <1>3, <1>5, <1>6, <1>7, PartsKept DEF Good
<1>9. Quiet(st, t) /\ a \in t.revoked
  BY <1>1, <1>2 DEF Quiet, LandsFit, Mine
<1> QED
  BY <1>8, <1>9 DEF t

\* A workspace that is dropped holds nothing.
LEMMA DropFits ==
  ASSUME NEW st, Good(st), NEW ids, Root \notin ids
  PROVE  Good(DropSpaces(st, ids)) /\ Quiet(st, DropSpaces(st, ids))
<1> DEFINE t == DropSpaces(st, ids)
<1>1. /\ DOMAIN t = Fields /\ t.sessions = st.sessions /\ t.revs = st.revs
      /\ t.revoked = st.revoked /\ t.files = st.files /\ t.assign = st.assign
      /\ t.grant = st.grant /\ t.made = st.made /\ t.claims = st.claims
      /\ t.memories = st.memories /\ t.proposed = st.proposed /\ t.landed = st.landed
      /\ t.caps = st.caps /\ t.under = st.under /\ t.anomaly = st.anomaly
  BY DEF DropSpaces, Good, Fields
<1>2. t.spaces = [w \in DOMAIN st.spaces \ ids |-> st.spaces[w]]
  BY DEF DropSpaces, Good, Fields
<1> HIDE DEF t
<1>3. SpacesFit(t)
  <2>1. Root \in DOMAIN t.spaces /\ SpacesFit(st)
    BY <1>2 DEF Good, SpacesFit
  <2> QED
    BY <1>1, <1>2, <2>1, SpacesKept
<1>4. ProposalsFit(t)
  BY <1>1, <1>2 DEF Good, ProposalsFit, HeldSomewhere
<1>5. Good(t)
  BY <1>1, <1>3, <1>4, PartsKept DEF Good
<1>6. Quiet(st, t)
  BY <1>1, <1>2 DEF Quiet, LandsFit
<1> QED
  BY <1>5, <1>6 DEF t

\* The whole of a revocation: the op, the workspaces, the assignment.
LEMMA RevokeFits ==
  ASSUME NEW st, Good(st), NEW a \in Agent
  PROVE  Good(RevokeAgent(st, a)) /\ Quiet(st, RevokeAgent(st, a)) /\ a \in RevokeAgent(st, a).revoked
<1> DEFINE u == RevokeOp(st, a)
           v == DropSpaces(u, OwnSpaces(st, a))
           t == RevokeAgent(st, a)
<1>1. Good(u) /\ Quiet(st, u) /\ a \in u.revoked
  BY RevokeOpFits
<1>2. Root \notin OwnSpaces(st, a)
  <2>1. st.spaces[Root].by = Owner
    BY DEF Good, SpacesFit, ByOwner
  <2>2. Owner \notin Mine(st, a)
    BY PrincipalsAssumption, SessionsNamed DEF Good, Mine
  <2> QED
    BY <2>1, <2>2 DEF OwnSpaces
<1>3. t = [v EXCEPT !.assign[a] = None]
  BY DEF RevokeAgent
<1> HIDE DEF u, v
<1>4. Good(v) /\ Quiet(u, v)
  BY <1>1, <1>2, DropFits DEF v
<1>5. /\ DOMAIN t = Fields /\ t.sessions = v.sessions /\ t.revs = v.revs
      /\ t.revoked = v.revoked /\ t.files = v.files /\ t.spaces = v.spaces
      /\ t.grant = v.grant /\ t.made = v.made /\ t.claims = v.claims
      /\ t.memories = v.memories /\ t.proposed = v.proposed /\ t.landed = v.landed
      /\ t.caps = v.caps /\ t.under = v.under /\ t.anomaly = v.anomaly
      /\ t.assign = [v.assign EXCEPT ![a] = None]
  BY <1>3, <1>4 DEF Good, Fields
<1> HIDE DEF t
<1>6. ScopesFit(t)
  BY <1>4, <1>5 DEF Good, ScopesFit
<1>7. Good(t)
  BY <1>4, <1>5, <1>6, PartsKept DEF Good
<1>8. Quiet(v, t)
  BY <1>5 DEF Quiet, LandsFit
<1>9. Quiet(st, t)
  BY <1>1, <1>4, <1>8, QuietChain
<1>10. a \in t.revoked
  BY <1>1, <1>4, <1>5 DEF Quiet
<1> QED
  BY <1>7, <1>9, <1>10 DEF t

\* What follows a charge: nothing, a throttle, or a revocation, and the hook.
LEMMA RecordFits ==
  ASSUME NEW old, NEW st, NEW s, AgentOf(s) \in Agent, NEW points, NEW field,
         LET charged == [st EXCEPT !.anomaly[AgentOf(s)][field] = @ + points]
         IN  Good(charged) /\ Quiet(old, charged)
  PROVE  Good(Record(st, s, points, field)) /\ Quiet(old, Record(st, s, points, field))
<1> DEFINE a == AgentOf(s)
           charged == [st EXCEPT !.anomaly[a][field] = @ + points]
           waits == [charged EXCEPT !.anomaly[a].left = Cooldown]
           done == CASE Score(charged, a) >= RevokeAt   -> RevokeAgent(charged, a)
                     [] Score(charged, a) < ThrottleAt  -> charged
                     [] OTHER -> waits
           hooked == Score(charged, a) >= ThrottleAt /\ Hooked(st, "anomaly", "agent")
<1>1. Record(st, s, points, field) = IF hooked THEN SpawnAgent(done, st.hook, {}) ELSE done
  BY DEF Record
<1>2. a \in Agent /\ Good(charged) /\ Quiet(old, charged)
  OBVIOUS
<1> HIDE DEF a, charged, hooked
<1>3. Good(waits) /\ Quiet(charged, waits)
  <2>1. SameBut(charged, waits, {"anomaly"})
    BY <1>2 DEF SameBut, Good, Fields
  <2>2. waits.revs = charged.revs
    BY <2>1 DEF SameBut, Fields
  <2>3. waits.anomaly = [charged.anomaly EXCEPT ![a] = [@ EXCEPT !.left = Cooldown]]
    BY <1>2 DEF Good, Fields
  <2> HIDE DEF waits
  <2>4. ChargesFit(waits)
    <3>1. /\ DOMAIN waits.anomaly = Agent
          /\ \A b \in Agent : /\ DOMAIN waits.anomaly[b] = DOMAIN charged.anomaly[b]
                             /\ waits.anomaly[b].charged = charged.anomaly[b].charged
                             /\ waits.anomaly[b].weak = charged.anomaly[b].weak
      <4>1. /\ DOMAIN charged.anomaly = Agent
            /\ \A b \in Agent : DOMAIN charged.anomaly[b] = {"weak", "other", "left", "charged"}
        BY <1>2 DEF Good, ChargesFit
      <4> QED
        BY <1>2, <2>3, <4>1
    <3> QED
      BY <1>2, <2>2, <3>1 DEF Good, ChargesFit
  <2> QED
    BY <1>2, <2>1, <2>4, ScoreFits
<1> HIDE DEF waits
<1>4. Good(RevokeAgent(charged, a)) /\ Quiet(charged, RevokeAgent(charged, a))
  BY <1>2, RevokeFits
<1>5. done \in {RevokeAgent(charged, a), charged, waits}
  OBVIOUS
<1> HIDE DEF done
<1>6. Good(done) /\ Quiet(old, done)
  BY <1>2, <1>3, <1>4, <1>5, QuietChain
<1>7. Good(SpawnAgent(done, st.hook, {})) /\ Quiet(old, SpawnAgent(done, st.hook, {}))
  BY <1>6, SpawnFits, QuietChain
<1> QED
  BY <1>1, <1>6, <1>7

\* A charge that is no weakened test.
LEMMA ChargeFits ==
  ASSUME NEW st, Good(st), NEW s, AgentOf(s) \in Agent, NEW points
  PROVE  /\ Good(Record(st, s, points, "other"))
         /\ Quiet(st, Record(st, s, points, "other"))
<1> DEFINE t == [st EXCEPT !.anomaly[AgentOf(s)]["other"] = @ + points]
<1>1. SameBut(st, t, {"anomaly"})
  BY DEF SameBut, Good, Fields
<1>2. t.revs = st.revs
  BY <1>1 DEF SameBut, Fields
<1>3. /\ DOMAIN t.anomaly = Agent
      /\ \A b \in Agent : /\ DOMAIN t.anomaly[b] = DOMAIN st.anomaly[b]
                          /\ t.anomaly[b].charged = st.anomaly[b].charged
                          /\ t.anomaly[b].weak = st.anomaly[b].weak
  BY DEF Good, Fields, ChargesFit
<1> HIDE DEF t
<1>4. ChargesFit(t)
  BY <1>2, <1>3 DEF Good, ChargesFit
<1>5. Good(t) /\ Quiet(st, t)
  BY <1>1, <1>4, ScoreFits
<1> QED
  BY <1>5, RecordFits DEF t

\* A weakened test is charged to its author, once a revision.
LEMMA ChargeOnceFits ==
  ASSUME NEW st, Good(st), NEW r \in 1 .. Len(st.revs), Test \in st.revs[r].paths,
         st.revs[r].by # Owner
  PROVE  /\ Good(RecordOnce(st, st.revs[r].by, 2, r))
         /\ Quiet(st, RecordOnce(st, st.revs[r].by, 2, r))
<1> DEFINE s == st.revs[r].by
           a == AgentOf(s)
           u == [st EXCEPT !.anomaly[a].charged = @ \cup {r}]
           t == [u EXCEPT !.anomaly[AgentOf(s)]["weak"] = @ + 2]
           mine == {q \in 1 .. Len(st.revs) : IsOf(st.revs[q].by, a) /\ Test \in st.revs[q].paths}
<1>1. a \in Agent
  BY SessionsNamed DEF Good, RevsFit, BySession, ByOwner
<1>2. CASE r \in st.anomaly[a].charged
  <2>1. RecordOnce(st, s, 2, r) = st
    BY <1>2 DEF RecordOnce
  <2>2. Quiet(st, st)
    BY DEF Quiet, LandsFit
  <2> QED
    BY <2>1, <2>2
<1>3. CASE r \notin st.anomaly[a].charged
  <2>1. RecordOnce(st, s, 2, r) = Record(u, s, 2, "weak")
    BY <1>3 DEF RecordOnce
  <2>2. /\ DOMAIN st = Fields /\ DOMAIN st.anomaly = Agent
        /\ \A b \in Agent : DOMAIN st.anomaly[b] = {"weak", "other", "left", "charged"}
    BY DEF Good, ChargesFit
  <2>3. /\ DOMAIN u = Fields /\ DOMAIN u.anomaly = Agent
        /\ \A b \in Agent \ {a} : u.anomaly[b] = st.anomaly[b]
        /\ DOMAIN u.anomaly[a] = {"weak", "other", "left", "charged"}
        /\ u.anomaly[a].charged = st.anomaly[a].charged \cup {r}
        /\ u.anomaly[a].weak = st.anomaly[a].weak
    BY <1>1, <2>2 DEF Fields
  <2>4. \A f \in Fields \ {"anomaly"} : u[f] = st[f]
    BY <2>2
  <2> HIDE DEF u
  <2>5. SameBut(st, t, {"anomaly"}) /\ t.revs = st.revs
    <3>1. DOMAIN t = Fields /\ \A f \in Fields \ {"anomaly"} : t[f] = u[f]
      BY <2>3
    <3> HIDE DEF t
    <3>2. SameBut(st, t, {"anomaly"})
      BY <2>2, <2>4, <3>1 DEF SameBut
    <3> QED
      BY <3>2 DEF SameBut, Fields
  <2>6. /\ DOMAIN t.anomaly = Agent
        /\ \A b \in Agent \ {a} : t.anomaly[b] = st.anomaly[b]
        /\ DOMAIN t.anomaly[a] = {"weak", "other", "left", "charged"}
        /\ t.anomaly[a].charged = st.anomaly[a].charged \cup {r}
        /\ t.anomaly[a].weak = st.anomaly[a].weak + 2
    BY <1>1, <2>3 DEF Fields
  <2> HIDE DEF t
  <2>7. IsFiniteSet(st.anomaly[a].charged) /\ st.anomaly[a].charged \subseteq mine
    <3>1. Len(st.revs) \in Nat
      BY LenProperties DEF Good, RevsFit, IsList
    <3>2. IsFiniteSet(1 .. Len(st.revs))
      BY <3>1, FS_Interval
    <3> QED
      BY <1>1, <3>2, FS_Subset DEF Good, ChargesFit
  <2>8. /\ Cardinality(st.anomaly[a].charged) \in Nat
        /\ Cardinality(t.anomaly[a].charged) = Cardinality(st.anomaly[a].charged) + 1
    BY <1>3, <2>6, <2>7, FS_AddElement, FS_CardinalityType
  <2>9. t.anomaly[a].weak = 2 * Cardinality(t.anomaly[a].charged)
    <3>1. st.anomaly[a].weak = 2 * Cardinality(st.anomaly[a].charged)
      BY <1>1 DEF Good, ChargesFit
    <3> DEFINE old == st.anomaly[a].weak
               new == t.anomaly[a].weak
               n   == Cardinality(st.anomaly[a].charged)
               m   == Cardinality(t.anomaly[a].charged)
    <3>2. new = old + 2 /\ old = 2 * n /\ m = n + 1 /\ n \in Nat
      BY <2>6, <2>8, <3>1
    <3> HIDE DEF old, new, n, m
    <3>3. new = 2 * m
      BY <3>2
    <3> QED
      BY <3>3 DEF new, m
  <2>10. t.anomaly[a].charged \subseteq mine
    BY <2>6, <2>7 DEF IsOf
  <2>11. ChargesFit(t)
    <3>1. ASSUME NEW b \in Agent
          PROVE  /\ DOMAIN t.anomaly[b] = {"weak", "other", "left", "charged"}
                 /\ t.anomaly[b].charged \subseteq
                      {q \in 1 .. Len(t.revs) : IsOf(t.revs[q].by, b) /\ Test \in t.revs[q].paths}
                 /\ t.anomaly[b].weak = 2 * Cardinality(t.anomaly[b].charged)
      <4>1. CASE b = a
        BY <2>5, <2>6, <2>9, <2>10, <4>1
      <4>2. CASE b # a
        <5>1. t.anomaly[b] = st.anomaly[b]
          BY <2>6, <4>2
        <5> QED
          BY <2>5, <5>1 DEF Good, ChargesFit
      <4> QED
        BY <4>1, <4>2
    <3> QED
      BY <2>6, <3>1 DEF ChargesFit
  <2>12. Good(t) /\ Quiet(st, t)
    BY <2>5, <2>11, ScoreFits
  <2>13. /\ Good(Record(u, s, 2, "weak"))
         /\ Quiet(st, Record(u, s, 2, "weak"))
    <3> HIDE DEF s
    <3> QED
      BY <1>1, <2>12, RecordFits DEF t, a
  <2> QED
    BY <2>1, <2>13
<1> QED
  BY <1>2, <1>3

\* A landing, of what may land.
LEMMA LandFits ==
  ASSUME NEW st, Good(st), NEW r \in 1 .. Len(st.revs),
         r \notin st.landed => \A a \in Agent \cap st.revoked :
                                  IsOf(st.revs[r].by, a) => st.revs[r].space = Root
  PROVE  Good(LandRevision(st, r)) /\ Quiet(st, LandRevision(st, r))
<1> DEFINE t == [st EXCEPT !.landed = @ \cup {r}, !.proposed = @ \ {r}]
<1>1. Good(t) /\ Quiet(st, t)
  <2>1. /\ DOMAIN t = Fields /\ t.sessions = st.sessions /\ t.revs = st.revs
        /\ t.revoked = st.revoked /\ t.files = st.files /\ t.assign = st.assign
        /\ t.grant = st.grant /\ t.spaces = st.spaces /\ t.made = st.made /\ t.claims = st.claims
        /\ t.memories = st.memories /\ t.proposed = st.proposed \ {r}
        /\ t.landed = st.landed \cup {r}
        /\ t.caps = st.caps /\ t.under = st.under /\ t.anomaly = st.anomaly
    BY DEF Good, Fields
  <2> HIDE DEF t
  <2>2. ProposalsFit(t)
    BY <2>1 DEF Good, ProposalsFit, HeldSomewhere
  <2>3. Good(t)
    BY <2>1, <2>2, PartsKept DEF Good
  <2>4. Quiet(st, t)
    BY <2>1 DEF Quiet, LandsFit
  <2> QED
    BY <2>3, <2>4
<1>2. CASE Lands(st, r)
  BY <1>1, <1>2 DEF LandRevision
<1>3. CASE ~Lands(st, r) /\ Test \in st.revs[r].paths /\ st.revs[r].by # Owner
  BY <1>3, ChargeOnceFits DEF LandRevision
<1>4. CASE ~Lands(st, r) /\ ~(Test \in st.revs[r].paths /\ st.revs[r].by # Owner)
  BY <1>4 DEF LandRevision, Quiet, LandsFit
<1> QED
  BY <1>2, <1>3, <1>4

\* The hook on a proposal.
LEMMA FireFits ==
  ASSUME NEW st, Good(st), NEW r \in 1 .. Len(st.revs),
         r \notin st.landed => \A a \in Agent \cap st.revoked :
                                  IsOf(st.revs[r].by, a) => st.revs[r].space = Root
  PROVE  Good(FireProposed(st, r)) /\ Quiet(st, FireProposed(st, r))
<1>1. Good(LandRevision(st, r)) /\ Quiet(st, LandRevision(st, r))
  BY LandFits
<1>2. st.revs[r].paths \subseteq Paths
  BY DEF Good, RevsFit
<1>3. Good(SpawnAgent(st, st.hook, st.revs[r].paths))
      /\ Quiet(st, SpawnAgent(st, st.hook, st.revs[r].paths))
  BY <1>2, SpawnFits
<1>4. Quiet(st, st)
  BY DEF Quiet, LandsFit
<1>5. FireProposed(st, r) \in {LandRevision(st, r), SpawnAgent(st, st.hook, st.revs[r].paths), st}
  BY DEF FireProposed
<1> QED
  BY <1>1, <1>3, <1>4, <1>5

-----------------------------------------------------------------------------
(***************************************************************************)
(* The verbs of a session.                                                 *)
(***************************************************************************)

\* What a verb may do: it writes revisions of no revoked agent, lands nothing
\* of one, cuts no capability for one, and proposes under the word of none.
Legit(st, t) ==
  /\ \A a \in Agent : Sessions(st, a) \subseteq Sessions(t, a)
  /\ \A r \in DOMAIN t.revs \ DOMAIN st.revs : \A a \in Agent \cap t.revoked : ~IsOf(t.revs[r].by, a)
  /\ \A c \in t.caps \ st.caps : \A a \in Agent \cap st.revoked : ~IsOf(c.subject, a)
  /\ LandsFit(st, t)
  /\ \A r \in t.proposed \ st.proposed : IssuerOf(t.under[r]) \notin st.revoked

\* What the daemon does of its own is no more than a verb may.
LEMMA QuietIsLegit ==
  ASSUME NEW st, NEW t, Quiet(st, t)
  PROVE  Legit(st, t)
BY DEF Quiet, Legit, Sessions

\* What a verb has the daemon do after it is no more than the verb may.
LEMMA LegitThenQuiet ==
  ASSUME NEW st, NEW t, NEW u, Legit(st, t), Quiet(t, u), t.revs = st.revs, t.revoked = st.revoked
  PROVE  Legit(st, u)
<1>1. /\ \A a \in Agent : Sessions(st, a) \subseteq Sessions(u, a)
      /\ \A r \in DOMAIN u.revs \ DOMAIN st.revs : \A a \in Agent \cap u.revoked : ~IsOf(u.revs[r].by, a)
  BY DEF Legit, Quiet, Sessions
<1>2. \A c \in u.caps \ st.caps : \A a \in Agent \cap st.revoked : ~IsOf(c.subject, a)
  BY DEF Legit, Quiet
<1>3. LandsFit(st, u)
  BY DEF Legit, Quiet, LandsFit
<1>4. \A r \in u.proposed \ st.proposed : IssuerOf(u.under[r]) \notin st.revoked
  BY DEF Legit, Quiet
<1> QED
  BY <1>1, <1>2, <1>3, <1>4 DEF Legit

\* An op that is accepted is of an agent that is not revoked, under the word of
\* one that is not.
LEMMA AcceptedIsAllowed ==
  ASSUME NEW st, Good(st), NEW a \in Agent, NEW actor, actor.session \in Sessions(st, a),
         NEW kind, NEW paths, Accepted(st, actor, kind, paths)
  PROVE  a \notin st.revoked /\ IssuerOf(actor.cap) \notin st.revoked
BY DEF Good, RevokedOut, Accepted, CheckChain

\* Opening a session: the one that was kept, or a new one with a file of its own.
LEMMA OpenFits ==
  ASSUME NEW st, Good(st), NEW a \in Agent, a \notin st.revoked, NEW scope, scope \subseteq Paths
  PROVE  LET o == OpenSession(st, a, scope)
         IN  /\ Good(o.st) /\ ActorFits(o.st, a, o.actor)
             /\ o.st.revs = st.revs /\ o.st.revoked = st.revoked /\ o.st.landed = st.landed
             /\ o.st.proposed = st.proposed
             /\ LET kept == o.st.files[a][scope]
                IN  /\ DOMAIN kept = {"session", "cap", "ws"}
                    /\ kept.session \in Sessions(o.st, a) /\ kept.ws \in Spots(a)
             /\ \A b \in Agent : Sessions(st, b) \subseteq Sessions(o.st, b)
             /\ \A c \in o.st.caps \ st.caps : c.subject \in Sessions(o.st, a)
<1> DEFINE f == st.files[a][scope]
           o == OpenSession(st, a, scope)
           kept == f # None /\ st.life[f.session] > 0 /\ f.session \notin st.revoked
           ws == IF f.ws \in DOMAIN st.spaces THEN f.ws ELSE None
           cap == DefaultCapability(st, a, scope)
           new == [session |-> cap.subject, cap |-> cap, ws |-> None]
           t == [st EXCEPT !.sessions[a] = @ + 1, !.caps = @ \cup {cap},
                           !.life = Put(@, cap.subject, Life), !.files[a][scope] = new]
<1>1. FileOf(st, a, f)
  BY DEF Good, FilesFit
<1>2. CASE kept
  <2>1. o.st = st /\ o.actor = ActorOf(f, scope, ws)
    BY <1>2 DEF OpenSession
  <2>2. ws \in Spots(a)
    BY <1>1, <1>2 DEF FileOf, Spots
  <2> HIDE DEF ws
  <2>3. ActorFits(st, a, ActorOf(f, scope, ws))
    BY <1>1, <1>2, <2>2 DEF ActorFits, ActorOf, FileOf
  <2>4. ActorOf(f, scope, ws).session = f.session
    BY DEF ActorOf
  <2> QED
    BY <1>1, <1>2, <2>1, <2>3, <2>4 DEF FileOf
<1>3. CASE ~kept
  <2>1. o.st = t /\ o.actor = ActorOf(new, scope, None)
    BY <1>3 DEF OpenSession
  <2>2. cap.subject = <<a, st.sessions[a] + 1>>
    BY DEF DefaultCapability
  <2>3. /\ new.session = cap.subject /\ new.ws = None /\ new.cap = cap
        /\ DOMAIN new = {"session", "cap", "ws"}
    OBVIOUS
  <2> HIDE DEF cap, new
  <2>4. /\ DOMAIN t = Fields /\ t.revs = st.revs
        /\ t.revoked = st.revoked /\ t.assign = st.assign
        /\ t.grant = st.grant /\ t.spaces = st.spaces /\ t.made = st.made /\ t.claims = st.claims
        /\ t.memories = st.memories /\ t.proposed = st.proposed /\ t.landed = st.landed
        /\ t.under = st.under /\ t.anomaly = st.anomaly
        /\ t.caps = st.caps \cup {cap}
    BY DEF Good, Fields
  <2>5. t.sessions = [st.sessions EXCEPT ![a] = st.sessions[a] + 1]
    BY DEF Good, Fields
  <2>6. /\ DOMAIN t.files = Agent /\ \A b \in Agent : DOMAIN t.files[b] = SUBSET Paths
        /\ \A b \in Agent : \A z \in SUBSET Paths :
             t.files[b][z] = IF b = a /\ z = scope THEN new ELSE st.files[b][z]
    BY DEF Good, Fields, FilesFit
  <2> HIDE DEF t
  <2>7. t.sessions \in [Agent -> Nat] /\ st.sessions \in [Agent -> Nat]
    BY <2>5 DEF Good
  <2>8. \A b \in Agent : /\ Sessions(st, b) \subseteq Sessions(t, b)
                         /\ b # a => Sessions(t, b) = Sessions(st, b)
    BY <2>5, <2>7 DEF Sessions
  <2>9. cap.subject \in Sessions(t, a)
    BY <2>2, <2>5, <2>7 DEF Sessions
  <2>10. \A s : IsSession(st, s) => IsSession(t, s)
    BY <2>8 DEF IsSession, AgentOf
  <2>11. \A by, w : BySession(st, by, w) => BySession(t, by, w)
    BY <2>10 DEF BySession
  <2>12. RevokedOut(t)
    BY <2>4, <2>8 DEF Good, RevokedOut
  <2>13. FilesFit(t)
    <3>1. ASSUME NEW b \in Agent, NEW z \in SUBSET Paths
          PROVE  FileOf(t, b, t.files[b][z])
      <4>1. CASE b = a /\ z = scope
        BY <2>3, <2>6, <2>9, <4>1 DEF FileOf, Spots
      <4>2. CASE ~(b = a /\ z = scope)
        <5>1. t.files[b][z] = st.files[b][z]
          BY <2>6, <4>2
        <5> QED
          BY <2>8, <5>1 DEF FileOf, Good, FilesFit
      <4> QED
        BY <4>1, <4>2
    <3> QED
      BY <2>6, <3>1 DEF FilesFit
  <2>14. ScopesFit(t) /\ ProposalsFit(t) /\ ChargesFit(t)
    BY <2>4 DEF Good, ScopesFit, ProposalsFit, HeldSomewhere, ChargesFit
  <2>15. RevsFit(t) /\ SpacesFit(t)
    BY <2>4, <2>11 DEF Good, RevsFit, SpacesFit
  <2>16. SayingsFit(t)
    BY <2>4, <2>10 DEF Good, SayingsFit
  <2>17. Good(t)
    BY <2>4, <2>7, <2>12, <2>13, <2>14, <2>15, <2>16 DEF Good
  <2>18. ActorOf(new, scope, None).session = cap.subject
    BY <2>3 DEF ActorOf
  <2>19. ActorFits(t, a, ActorOf(new, scope, None))
    BY <2>9, <2>18 DEF ActorFits, ActorOf, Spots
  <2>20. t.files[a][scope] = new /\ new.ws \in Spots(a)
    BY <2>3, <2>6 DEF Spots
  <2> QED
    BY <2>1, <2>3, <2>4, <2>8, <2>9, <2>17, <2>18, <2>19, <2>20
<1> QED
  BY <1>2, <1>3

\* A session's workspace is kept in its file.
LEMMA RememberFits ==
  ASSUME NEW st, Good(st), NEW a \in Agent, NEW actor, ActorFits(st, a, actor), NEW ws \in Spots(a)
  PROVE  LET t == RememberSessionWorkspace(st, actor, ws)
         IN  /\ Good(t)
             /\ t.revs = st.revs /\ t.revoked = st.revoked /\ t.landed = st.landed
             /\ t.proposed = st.proposed /\ t.under = st.under /\ t.caps = st.caps
             /\ t.sessions = st.sessions
<1>1. AgentOf(actor.session) = a
  BY SessionsNamed DEF Good, ActorFits
<1>2. CASE ws = None \/ st.files[a][actor.scope] = None
  BY <1>1, <1>2 DEF RememberSessionWorkspace
<1>3. CASE ws # None /\ st.files[a][actor.scope] # None
  <2> DEFINE t == [st EXCEPT !.files[a][actor.scope].ws = ws]
             old == st.files[a][actor.scope]
  <2>1. RememberSessionWorkspace(st, actor, ws) = t
    BY <1>1, <1>3 DEF RememberSessionWorkspace
  <2>2. actor.scope \in SUBSET Paths
    BY DEF ActorFits
  <2>3. /\ DOMAIN t = Fields /\ t.sessions = st.sessions /\ t.revs = st.revs
        /\ t.revoked = st.revoked /\ t.assign = st.assign
        /\ t.grant = st.grant /\ t.spaces = st.spaces /\ t.made = st.made /\ t.claims = st.claims
        /\ t.memories = st.memories /\ t.proposed = st.proposed /\ t.landed = st.landed
        /\ t.caps = st.caps /\ t.under = st.under /\ t.anomaly = st.anomaly
    BY DEF Good, Fields
  <2>4. /\ DOMAIN t.files = Agent /\ \A b \in Agent : DOMAIN t.files[b] = SUBSET Paths
        /\ \A b \in Agent : \A z \in SUBSET Paths :
             t.files[b][z] = IF b = a /\ z = actor.scope THEN [old EXCEPT !.ws = ws]
                             ELSE st.files[b][z]
    BY <2>2 DEF Good, Fields, FilesFit
  <2> HIDE DEF t
  <2>5. FileOf(st, a, old)
    BY <2>2 DEF Good, FilesFit
  <2>6. FileOf(st, a, [old EXCEPT !.ws = ws])
    BY <1>3, <2>5 DEF FileOf
  <2>7. FilesFit(t)
    <3>1. FileOf(t, a, [old EXCEPT !.ws = ws])
      BY <2>3, <2>6, NamesKept
    <3>2. FilesFit(st) /\ \A b \in Agent : Sessions(st, b) \subseteq Sessions(t, b)
      BY <2>3, NamesKept DEF Good
    <3> DEFINE new == [old EXCEPT !.ws = ws]
    <3>3. Writes(st, t, a, actor.scope, new)
      BY <2>4 DEF Writes
    <3> HIDE DEF new
    <3> QED
      BY <3>1, <3>2, <3>3, FilesKept DEF new
  <2>8. Good(t)
    BY <2>3, <2>7, PartsKept DEF Good
  <2> QED
    BY <2>1, <2>3, <2>8
<1> QED
  BY <1>2, <1>3

\* A revision is stored, its workspace is at it, and its change points at it.
LEMMA RecordedFits ==
  ASSUME NEW st, Good(st), NEW w, NEW rev, rev.space = w, rev.paths \subseteq Paths,
         ByOwner(rev.by, w) \/ BySession(st, rev.by, w)
  PROVE  LET t == Recorded(st, w, rev)
         IN  /\ Good(t)
             /\ t.revoked = st.revoked /\ t.landed = st.landed
             /\ t.proposed = st.proposed /\ t.under = st.under /\ t.caps = st.caps
             /\ t.sessions = st.sessions
             /\ DOMAIN st.revs = 1 .. Len(st.revs)
             /\ \A r \in DOMAIN t.revs \ DOMAIN st.revs : t.revs[r] = rev
<1> DEFINE t == Recorded(st, w, rev)
           n == Len(st.revs) + 1
<1>1. /\ DOMAIN t = Fields /\ t.sessions = st.sessions
      /\ t.revoked = st.revoked /\ t.files = st.files /\ t.assign = st.assign
      /\ t.grant = st.grant /\ t.made = st.made /\ t.claims = st.claims
      /\ t.memories = st.memories /\ t.proposed = st.proposed /\ t.landed = st.landed
      /\ t.caps = st.caps /\ t.under = st.under /\ t.anomaly = st.anomaly
      /\ t.revs = Append(st.revs, rev)
  BY DEF Recorded, Good, Fields
<1>2. /\ DOMAIN t.spaces = DOMAIN st.spaces
      /\ \A v \in DOMAIN st.spaces : v # w => t.spaces[v] = st.spaces[v]
      /\ w \in DOMAIN st.spaces =>
           /\ DOMAIN t.spaces[w] = {"by", "holder", "cur", "dirty"}
           /\ t.spaces[w].by = st.spaces[w].by /\ t.spaces[w].cur = n /\ t.spaces[w].dirty = {}
  BY DEF Recorded, Good, Fields, SpacesFit
<1>3. IsList(st.revs)
  BY DEF Good, RevsFit
<1>4. /\ IsList(t.revs) /\ Len(st.revs) \in Nat /\ Len(t.revs) = n
      /\ \A i \in 1 .. Len(st.revs) : t.revs[i] = st.revs[i]
      /\ t.revs[n] = rev
  BY <1>1, <1>3, AppendToList
<1> HIDE DEF t
<1>5. \A r \in 1 .. Len(t.revs) : r \in 1 .. Len(st.revs) \/ r = n
  BY <1>4
<1>6. 1 .. Len(st.revs) \subseteq 1 .. Len(t.revs) /\ n \in 1 .. Len(t.revs)
      /\ n \notin 1 .. Len(st.revs)
  BY <1>4
<1>7. \A by, v : BySession(t, by, v) = BySession(st, by, v)
  BY <1>1 DEF BySession, IsSession, Sessions
<1> HIDE DEF n
<1>8. RevsFit(t)
  BY <1>4, <1>5, <1>7 DEF Good, RevsFit
<1>9. SpacesFit(t)
  <2>1. ASSUME NEW v \in DOMAIN t.spaces
        PROVE  /\ DOMAIN t.spaces[v] = {"by", "holder", "cur", "dirty"}
               /\ \/ ByOwner(t.spaces[v].by, v)
                  \/ v # Root /\ BySession(t, t.spaces[v].by, v)
               /\ t.spaces[v].dirty \subseteq Paths
               /\ \/ t.spaces[v].cur = 0
                  \/ t.spaces[v].cur \in 1 .. Len(t.revs) /\ t.revs[t.spaces[v].cur].space = v
    <3>1. CASE v = w
      BY <1>2, <1>4, <1>6, <1>7, <2>1, <3>1 DEF Good, SpacesFit
    <3>2. CASE v # w
      <4>1. v \in DOMAIN st.spaces /\ t.spaces[v] = st.spaces[v]
        BY <1>2, <2>1, <3>2
      <4>2. /\ DOMAIN st.spaces[v] = {"by", "holder", "cur", "dirty"}
            /\ \/ ByOwner(st.spaces[v].by, v)
               \/ v # Root /\ BySession(st, st.spaces[v].by, v)
            /\ st.spaces[v].dirty \subseteq Paths
            /\ \/ st.spaces[v].cur = 0
               \/ st.spaces[v].cur \in 1 .. Len(st.revs) /\ st.revs[st.spaces[v].cur].space = v
        BY <4>1 DEF Good, SpacesFit
      <4> QED
        BY <1>4, <1>6, <1>7, <4>1, <4>2
    <3> QED
      BY <3>1, <3>2
  <2> QED
    BY <1>1, <1>2, <2>1 DEF Good, SpacesFit
<1>10. ProposalsFit(t)
  <2>1. t.proposed \subseteq 1 .. Len(t.revs)
    BY <1>1, <1>6 DEF Good, ProposalsFit
  <2>2. ASSUME NEW r \in t.proposed, HeldSomewhere(t, r)
        PROVE  HeldSomewhere(st, r) /\ t.revs[r] = st.revs[r]
    <3>1. r \in 1 .. Len(st.revs)
      BY <1>1 DEF Good, ProposalsFit
    <3>2. PICK v \in DOMAIN t.spaces : t.spaces[v].cur = r
      BY <2>2 DEF HeldSomewhere
    <3> QED
      BY <1>2, <1>4, <1>6, <3>1, <3>2 DEF HeldSomewhere
  <2>3. \A r \in t.proposed : t.revs[r] = st.revs[r]
    BY <1>1, <1>4 DEF Good, ProposalsFit
  <2> QED
    BY <1>1, <2>1, <2>2, <2>3 DEF Good, ProposalsFit
<1>11. ChargesFit(t)
  <2>1. \A a : {r \in 1 .. Len(st.revs) : IsOf(st.revs[r].by, a) /\ Test \in st.revs[r].paths}
                \subseteq {r \in 1 .. Len(t.revs) : IsOf(t.revs[r].by, a) /\ Test \in t.revs[r].paths}
    BY <1>4, <1>6
  <2> QED
    BY <1>1, <2>1 DEF Good, ChargesFit
<1>12. RevokedOut(t) /\ FilesFit(t) /\ ScopesFit(t) /\ SayingsFit(t)
  <2>1. /\ \A b : Sessions(t, b) = Sessions(st, b)
        /\ \A s : IsSession(t, s) = IsSession(st, s)
        /\ \A b, f : FileOf(t, b, f) = FileOf(st, b, f)
    BY <1>1, NamesKept
  <2>2. RevokedOut(t) /\ ScopesFit(t) /\ SayingsFit(t)
    BY <1>1, <2>1 DEF Good, RevokedOut, ScopesFit, SayingsFit
  <2>3. FilesFit(t)
    BY <1>1, <2>1 DEF Good, FilesFit
  <2> QED
    BY <2>2, <2>3
<1>13. Good(t)
  BY <1>1, <1>8, <1>9, <1>10, <1>11, <1>12 DEF Good
<1>14. DOMAIN st.revs = 1 .. Len(st.revs) /\ DOMAIN t.revs = 1 .. Len(t.revs)
  BY <1>3, <1>4, LenProperties DEF IsList
<1> QED
  BY <1>1, <1>4, <1>5, <1>13, <1>14 DEF t

\* What a verb leaves: a state that fits, no more changed than it may, and the
\* actor in a workspace it can be in.
Does(st, a, done) == Good(done.st) /\ Legit(st, done.st) /\ done.ws \in Spots(a)

\* What changes no revision, capability, landing or proposal is legitimate.
LEMMA SilentIsLegit ==
  ASSUME NEW st, NEW t, t.sessions = st.sessions, t.revs = st.revs, t.caps = st.caps,
         t.landed = st.landed, t.proposed = st.proposed
  PROVE  Legit(st, t)
BY DEF Legit, LandsFit, Sessions

\* The workspace of a call is there, and is the checkout or one of the agent's.
LEMMA WorkspaceFits ==
  ASSUME NEW st, Good(st), NEW a \in Agent, NEW actor, ActorFits(st, a, actor),
         ActorWorkspace(st, actor) # None
  PROVE  LET w == ActorWorkspace(st, actor)
         IN  w \in DOMAIN st.spaces /\ w \in Spots(a) /\ BySession(st, actor.session, w)
<1> DEFINE w == ActorWorkspace(st, actor)
           own == {v \in DOMAIN st.spaces : st.spaces[v].by = actor.session}
<1>1. /\ IsSession(st, actor.session) /\ AgentOf(actor.session) = a /\ actor.session # Owner
  BY SessionsNamed DEF Good, ActorFits
<1>2. w \in DOMAIN st.spaces /\ w \in Spots(a)
  <2>1. CASE actor.ws # None
    BY <2>1 DEF ActorWorkspace, ActorFits
  <2>2. CASE actor.ws = None /\ st.spaces[Root].holder = AgentOf(actor.session)
    <3>1. w = Root
      BY <2>2 DEF ActorWorkspace
    <3> QED
      BY <3>1 DEF Good, SpacesFit, Spots
  <2>3. CASE actor.ws = None /\ st.spaces[Root].holder # AgentOf(actor.session)
    <3>1. w \in own
      BY <2>3 DEF ActorWorkspace
    <3>2. w \in Agent \X (Nat \ {0}) /\ AgentOf(w) = a
      BY <1>1, <3>1 DEF Good, SpacesFit, ByOwner, BySession
    <3> HIDE DEF w
    <3> QED
      BY <3>1, <3>2 DEF Spots, AgentOf
  <2> QED
    BY <2>1, <2>2, <2>3
<1>3. w # None
  OBVIOUS
<1> HIDE DEF w
<1>4. BySession(st, actor.session, w)
  BY <1>1, <1>2, <1>3 DEF BySession, Spots, AgentOf
<1> QED
  BY <1>2, <1>4 DEF w

\* A change of the workspaces only, by which none comes to be at a revision.
LEMMA SpacesChange ==
  ASSUME NEW st, Good(st), NEW t, SameBut(st, t, {"spaces", "made"}), SpacesFit(t),
         \A r \in 1 .. Len(st.revs) : HeldSomewhere(t, r) => HeldSomewhere(st, r)
  PROVE  Good(t) /\ Legit(st, t)
<1>1. /\ DOMAIN t = Fields /\ t.sessions = st.sessions /\ t.revs = st.revs
      /\ t.revoked = st.revoked /\ t.files = st.files /\ t.assign = st.assign
      /\ t.grant = st.grant /\ t.claims = st.claims
      /\ t.memories = st.memories /\ t.proposed = st.proposed /\ t.landed = st.landed
      /\ t.caps = st.caps /\ t.under = st.under /\ t.anomaly = st.anomaly
  BY DEF SameBut, Fields
<1>2. ProposalsFit(t)
  BY <1>1 DEF Good, ProposalsFit
<1> QED
  BY <1>1, <1>2, PartsKept, SilentIsLegit DEF Good

\* A workspace of its own.
LEMMA CreateFits ==
  ASSUME NEW st, Good(st), NEW a \in Agent, NEW actor, ActorFits(st, a, actor)
  PROVE  Does(st, a, Create(st, actor))
<1>1. CASE st.made = MaxSpaces
  BY <1>1, SilentIsLegit DEF Create, Left, Does, ActorFits
<1>2. CASE st.made # MaxSpaces
  <2> DEFINE id == <<AgentOf(actor.session), st.made + 1>>
             new == NewSpace(actor.session, 0)
             t == [st EXCEPT !.spaces = Put(@, id, new), !.made = @ + 1]
  <2>1. Create(st, actor).st = t /\ Create(st, actor).ws = id
    BY <1>2 DEF Create, Left
  <2>2. /\ IsSession(st, actor.session) /\ AgentOf(actor.session) = a /\ actor.session # Owner
        /\ st.made \in Nat
    BY SessionsNamed DEF Good, ActorFits, SpacesFit
  <2>3. /\ id \in {a} \X (Nat \ {0}) /\ AgentOf(id) = a /\ id # Root
    BY <2>2 DEF AgentOf, Root
  <2>4. SameBut(st, t, {"spaces", "made"}) /\ t.spaces = Put(st.spaces, id, new) /\ t.made = st.made + 1
        /\ t.revs = st.revs /\ t.sessions = st.sessions
    BY DEF Good, Fields, SameBut
  <2>5. /\ DOMAIN new = {"by", "holder", "cur", "dirty"} /\ new.by = actor.session
        /\ new.cur = 0 /\ new.dirty = {}
    BY DEF NewSpace
  <2> HIDE DEF t, id, new
  <2>6. /\ DOMAIN t.spaces = DOMAIN st.spaces \cup {id} /\ t.spaces[id] = new
        /\ \A v \in DOMAIN st.spaces : v # id => t.spaces[v] = st.spaces[v]
    BY <2>4 DEF Put
  <2>7. \A by, v : BySession(t, by, v) = BySession(st, by, v)
    BY <2>4 DEF BySession, IsSession, Sessions
  <2>8. BySession(t, actor.session, id)
    BY <2>2, <2>3, <2>7 DEF BySession
  <2>9. SpacesFit(t)
    <3>1. SpacesFit(st) /\ t.made \in Nat
      BY <2>2, <2>4 DEF Good
    <3>2. ASSUME NEW v \in DOMAIN t.spaces
          PROVE  /\ DOMAIN t.spaces[v] = {"by", "holder", "cur", "dirty"}
                 /\ \/ ByOwner(t.spaces[v].by, v)
                    \/ v # Root /\ BySession(t, t.spaces[v].by, v)
                 /\ t.spaces[v].dirty \subseteq Paths
                 /\ \/ t.spaces[v].cur = 0
                    \/ t.spaces[v].cur \in 1 .. Len(t.revs) /\ t.revs[t.spaces[v].cur].space = v
      <4>1. CASE v = id
        BY <2>3, <2>5, <2>6, <2>8, <4>1
      <4>2. CASE v # id
        <5>1. v \in DOMAIN st.spaces /\ t.spaces[v] = st.spaces[v]
          BY <2>6, <4>2
        <5> QED
          BY <2>4, <2>7, <3>1, <5>1 DEF SpacesFit
      <4> QED
        BY <4>1, <4>2
    <3>3. Root \in DOMAIN t.spaces
      BY <2>6, <3>1 DEF SpacesFit
    <3> QED
      BY <3>1, <3>2, <3>3 DEF SpacesFit
  <2>10. \A r \in 1 .. Len(st.revs) : HeldSomewhere(t, r) => HeldSomewhere(st, r)
    BY <2>5, <2>6 DEF HeldSomewhere
  <2>11. Good(t) /\ Legit(st, t)
    BY <2>4, <2>9, <2>10, SpacesChange
  <2> QED
    BY <2>1, <2>3, <2>11 DEF Does, Spots
<1> QED
  BY <1>1, <1>2

\* Dropping it again.
LEMMA DropVerbFits ==
  ASSUME NEW st, Good(st), NEW a \in Agent, NEW actor, ActorFits(st, a, actor)
  PROVE  Does(st, a, Drop(st, actor))
<1>1. CASE actor.ws \in DOMAIN st.spaces \ {Root} /\ st.spaces[actor.ws].by = actor.session
  <2>1. Drop(st, actor).st = DropSpaces(st, {actor.ws}) /\ Drop(st, actor).ws = None
    BY <1>1 DEF Drop, Left
  <2>2. Good(DropSpaces(st, {actor.ws})) /\ Legit(st, DropSpaces(st, {actor.ws}))
    BY <1>1, DropFits, QuietIsLegit
  <2> QED
    BY <2>1, <2>2 DEF Does, Spots
<1>2. CASE ~(actor.ws \in DOMAIN st.spaces \ {Root} /\ st.spaces[actor.ws].by = actor.session)
  BY <1>2, SilentIsLegit DEF Drop, Left, Does, ActorFits
<1> QED
  BY <1>1, <1>2

\* Who holds the checkout is written on it.
LEMMA HolderFits ==
  ASSUME NEW st, Good(st), NEW who
  PROVE  LET t == [st EXCEPT !.spaces[Root].holder = who] IN Good(t) /\ Legit(st, t)
<1> DEFINE t == [st EXCEPT !.spaces[Root].holder = who]
<1>1. SameBut(st, t, {"spaces", "made"}) /\ t.made = st.made
      /\ t.revs = st.revs /\ t.sessions = st.sessions
  BY DEF Good, Fields, SameBut
<1>2. /\ DOMAIN t.spaces = DOMAIN st.spaces
      /\ \A v \in DOMAIN st.spaces :
           /\ DOMAIN t.spaces[v] = DOMAIN st.spaces[v] /\ t.spaces[v].by = st.spaces[v].by
           /\ t.spaces[v].cur = st.spaces[v].cur /\ t.spaces[v].dirty = st.spaces[v].dirty
  BY DEF Good, Fields, SpacesFit
<1> HIDE DEF t
<1>3. SpacesFit(t)
  <2>1. Root \in DOMAIN t.spaces /\ SpacesFit(st)
    BY <1>2 DEF Good, SpacesFit
  <2> QED
    BY <1>1, <1>2, <2>1, SpacesKept
<1>4. \A r \in 1 .. Len(st.revs) : HeldSomewhere(t, r) => HeldSomewhere(st, r)
  BY <1>2 DEF HeldSomewhere
<1> QED
  BY <1>1, <1>3, <1>4, SpacesChange DEF t

\* Taking the checkout and giving it back.
LEMMA CheckoutFits ==
  ASSUME NEW st, Good(st), NEW a \in Agent, NEW actor, ActorFits(st, a, actor)
  PROVE  Does(st, a, Adopt(st, actor)) /\ Does(st, a, Release(st, actor))
<1> DEFINE mine == [st EXCEPT !.spaces[Root].holder = AgentOf(actor.session)]
           free == [st EXCEPT !.spaces[Root].holder = None]
<1>1. /\ Good(mine) /\ Legit(st, mine) /\ Good(free) /\ Legit(st, free)
      /\ Good(st) /\ Legit(st, st)
  BY HolderFits, SilentIsLegit
<1>2. actor.ws \in Spots(a) /\ Root \in Spots(a) /\ None \in Spots(a)
  BY DEF ActorFits, Spots
<1>3. Adopt(st, actor) \in {[st |-> mine, ws |-> Root], [st |-> st, ws |-> actor.ws]}
  BY DEF Adopt, Left
<1>4. Release(st, actor) \in {[st |-> st, ws |-> actor.ws], [st |-> free, ws |-> None],
                              [st |-> free, ws |-> actor.ws]}
  BY DEF Release, Left
<1> HIDE DEF mine, free
<1> QED
  BY <1>1, <1>2, <1>3, <1>4 DEF Does

\* An edit, and what the monitor makes of one outside the scope or the claim.
LEMMA EditFits ==
  ASSUME NEW st, Good(st), NEW a \in Agent, NEW actor, ActorFits(st, a, actor), NEW p \in Paths
  PROVE  Does(st, a, Edit(st, actor, p))
<1> DEFINE w == ActorWorkspace(st, actor)
           t == [st EXCEPT !.spaces[w].dirty = @ \cup {p}]
           out == Edit(st, actor, p)
<1>1. actor.ws \in Spots(a) /\ AgentOf(actor.session) \in Agent
  BY SessionsNamed DEF Good, ActorFits
<1>2. CASE w = None
  <2>1. out.st = st /\ out.ws = actor.ws
    BY <1>2 DEF Edit, Left
  <2> QED
    BY <1>1, <2>1, SilentIsLegit DEF Does
<1>3. CASE w # None
  <2>1. w \in DOMAIN st.spaces
    BY <1>3, WorkspaceFits
  <2>2. out \in {Left(t, actor.ws), Left(Record(t, actor.session, 2, "other"), actor.ws),
                 Left(Record(t, actor.session, 1, "other"), actor.ws)}
    BY <1>3 DEF Edit
  <2> HIDE DEF w
  <2>3. SameBut(st, t, {"spaces", "made"}) /\ t.made = st.made
        /\ t.revs = st.revs /\ t.sessions = st.sessions /\ t.revoked = st.revoked
    BY DEF Good, Fields, SameBut
  <2>4. /\ DOMAIN t.spaces = DOMAIN st.spaces
        /\ \A v \in DOMAIN st.spaces :
             /\ DOMAIN t.spaces[v] = DOMAIN st.spaces[v] /\ t.spaces[v].by = st.spaces[v].by
             /\ t.spaces[v].cur = st.spaces[v].cur
             /\ t.spaces[v].dirty \subseteq st.spaces[v].dirty \cup {p}
    BY <2>1 DEF Good, Fields, SpacesFit
  <2> HIDE DEF t, out
  <2>5. SpacesFit(t)
    <3>1. Root \in DOMAIN t.spaces /\ SpacesFit(st)
      BY <2>4 DEF Good, SpacesFit
    <3> QED
      BY <2>3, <2>4, <3>1, SpacesKept
  <2>6. \A r \in 1 .. Len(st.revs) : HeldSomewhere(t, r) => HeldSomewhere(st, r)
    BY <2>4 DEF HeldSomewhere
  <2>7. Good(t) /\ Legit(st, t)
    BY <2>3, <2>5, <2>6, SpacesChange
  <2>8. ASSUME NEW n \in {1, 2}
        PROVE  /\ Good(Record(t, actor.session, n, "other"))
               /\ Legit(st, Record(t, actor.session, n, "other"))
    BY <1>1, <2>3, <2>7, ChargeFits, LegitThenQuiet
  <2> QED
    BY <1>1, <2>2, <2>7, <2>8 DEF Does, Left, out
<1> QED
  BY <1>2, <1>3

\* A snapshot: charged first, so that an agent revoked there writes nothing.
LEMMA SnapshotFits ==
  ASSUME NEW st, Good(st), NEW a \in Agent, NEW actor, ActorFits(st, a, actor)
  PROVE  Does(st, a, Snapshot(st, actor))
<1> DEFINE w == ActorWorkspace(st, actor)
           rev == Revision(st, actor.session, w, actor.scope)
           was == IF rev.prev = 0 THEN {} ELSE st.revs[rev.prev].flags
           charged == Record(st, actor.session, 2, "other")
           next == IF rev.flags \notin {{}, was} THEN charged ELSE st
           same == st.spaces[w].dirty = {} /\ rev.flags = was
           out == Snapshot(st, actor)
<1>1. /\ actor.ws \in Spots(a) /\ AgentOf(actor.session) = a /\ actor.session # Owner
      /\ actor.session \in Sessions(st, a)
  BY SessionsNamed DEF Good, ActorFits
<1>2. CASE w = None \/ Len(st.revs) = MaxRevs
  <2>1. out.st = st /\ out.ws = actor.ws
    BY <1>2 DEF Snapshot, Left
  <2> QED
    BY <1>1, <2>1, SilentIsLegit DEF Does
<1>3. CASE ~(w = None \/ Len(st.revs) = MaxRevs)
  <2>1. w \in DOMAIN st.spaces /\ BySession(st, actor.session, w)
    BY <1>3, WorkspaceFits
  <2>2. /\ out = IF ~same /\ Accepted(next, actor, "snapshot", {})
                 THEN Left(Recorded(next, w, rev), actor.ws) ELSE Left(next, actor.ws)
    BY <1>3 DEF Snapshot
  <2>3. rev.by = actor.session /\ rev.space = w
    BY DEF Revision
  <2>4. rev.paths \subseteq Paths
    <3>1. /\ st.spaces[w].dirty \subseteq Paths
          /\ st.spaces[w].cur # 0 => st.revs[st.spaces[w].cur].paths \subseteq Paths
      BY <2>1 DEF Good, SpacesFit, RevsFit
    <3> QED
      BY <3>1 DEF Revision
  <2> HIDE DEF w, rev, was, same, out
  <2>5. Good(next) /\ Quiet(st, next)
    <3>1. Good(charged) /\ Quiet(st, charged)
      BY <1>1, ChargeFits
    <3>2. Quiet(st, st)
      BY DEF Quiet, LandsFit
    <3> QED
      BY <3>1, <3>2
  <2> HIDE DEF next
  <2>6. CASE Accepted(next, actor, "snapshot", {})
    <3> DEFINE t == Recorded(next, w, rev)
    <3>1. /\ actor.session \in Sessions(next, a) /\ BySession(next, rev.by, w)
          /\ next.revs = st.revs
      BY <1>1, <2>1, <2>3, <2>5 DEF Quiet, Sessions, BySession, IsSession
    <3>2. a \notin next.revoked
      BY <2>5, <2>6, <3>1, AcceptedIsAllowed
    <3>3. /\ Good(t)
          /\ t.revoked = next.revoked /\ t.landed = next.landed
          /\ t.proposed = next.proposed /\ t.under = next.under /\ t.caps = next.caps
          /\ t.sessions = next.sessions
          /\ \A r \in DOMAIN t.revs \ DOMAIN next.revs : t.revs[r] = rev
      BY <2>3, <2>4, <2>5, <3>1, RecordedFits
    <3> HIDE DEF t
    <3>4. \A r \in DOMAIN t.revs \ DOMAIN st.revs : \A b \in Agent \cap t.revoked :
            ~IsOf(t.revs[r].by, b)
      BY <1>1, <2>3, <3>1, <3>2, <3>3 DEF IsOf
    <3>5. LandsFit(st, t)
      BY <2>5, <3>3 DEF Quiet, LandsFit
    <3>6. Legit(st, t)
      BY <2>5, <3>3, <3>4, <3>5 DEF Quiet, Legit, Sessions
    <3>7. Good(next) /\ Legit(st, next)
      BY <2>5, QuietIsLegit
    <3> QED
      BY <1>1, <2>2, <3>3, <3>6, <3>7 DEF Does, Left, t, out
  <2>7. CASE ~Accepted(next, actor, "snapshot", {})
    BY <1>1, <2>2, <2>5, <2>7, QuietIsLegit DEF Does, Left, out
  <2> QED
    BY <2>6, <2>7
<1> QED
  BY <1>2, <1>3

\* A proposal, of the revision the actor's workspace is at, and its hook.
LEMMA ProposeFits ==
  ASSUME NEW st, Good(st), NEW a \in Agent, NEW actor, ActorFits(st, a, actor)
  PROVE  Does(st, a, Propose(st, actor))
<1> DEFINE w == ActorWorkspace(st, actor)
           r == IF w = None THEN 0 ELSE st.spaces[w].cur
           refused == \/ r \in {0} \cup st.landed \cup st.proposed
                      \/ ~Accepted(st, actor, "promote", st.revs[r].paths)
           t == [st EXCEPT !.proposed = @ \cup {r}, !.under = Put(@, r, actor.cap)]
           out == Propose(st, actor)
<1>1. /\ actor.ws \in Spots(a) /\ actor.session \in Sessions(st, a)
  BY DEF ActorFits
<1>2. out = IF refused THEN Left(st, actor.ws) ELSE Left(FireProposed(t, r), actor.ws)
  BY DEF Propose
<1>3. CASE refused
  <2> HIDE DEF out, refused
  <2>1. out = Left(st, actor.ws)
    BY <1>2, <1>3
  <2>2. out.st = st /\ out.ws = actor.ws
    BY <2>1 DEF Left
  <2> QED
    BY <1>1, <2>2, SilentIsLegit DEF Does, out
<1>4. CASE ~refused
  <2>1. w # None /\ r = st.spaces[w].cur /\ r # 0 /\ r \notin st.landed
        /\ Accepted(st, actor, "promote", st.revs[r].paths)
    BY <1>4
  <2>2. w \in DOMAIN st.spaces /\ w \in Spots(a)
    BY <2>1, WorkspaceFits
  <2>3. out.st = FireProposed(t, r) /\ out.ws = actor.ws
    BY <1>2, <1>4 DEF Left
  <2> HIDE DEF w, refused, out
  <2>4. r \in 1 .. Len(st.revs) /\ st.revs[r].space = w
    BY <2>1, <2>2 DEF Good, SpacesFit
  <2> HIDE DEF r
  <2>5. a \notin st.revoked /\ IssuerOf(actor.cap) \notin st.revoked
    BY <1>1, <2>1, AcceptedIsAllowed
  <2>6. /\ DOMAIN t = Fields /\ t.sessions = st.sessions /\ t.revs = st.revs
        /\ t.revoked = st.revoked /\ t.files = st.files /\ t.assign = st.assign
        /\ t.grant = st.grant /\ t.spaces = st.spaces /\ t.made = st.made /\ t.claims = st.claims
        /\ t.memories = st.memories /\ t.proposed = st.proposed \cup {r}
        /\ t.landed = st.landed /\ t.caps = st.caps /\ t.anomaly = st.anomaly
        /\ t.under = Put(st.under, r, actor.cap)
    BY DEF Good, Fields
  <2> HIDE DEF t
  <2>7. t.under[r] = actor.cap
    BY <2>6 DEF Put
  <2>8. ASSUME NEW b \in Agent \cap st.revoked, IsOf(st.revs[r].by, b)
        PROVE  st.revs[r].space = Root
    <3>1. CASE w = Root
      BY <2>4, <3>1
    <3>2. CASE w # Root
      <4>1. AgentOf(w) = a
        BY <2>1, <2>2, <3>2 DEF Spots, AgentOf
      <4>2. AgentOf(st.revs[r].by) = a
        BY <2>4, <3>2, <4>1 DEF Good, RevsFit, ByOwner, BySession
      <4> QED
        BY <2>5, <2>8, <4>2 DEF IsOf
    <3> QED
      BY <3>1, <3>2
  <2>9. ProposalsFit(t)
    BY <2>4, <2>6, <2>8 DEF Good, ProposalsFit, HeldSomewhere
  <2>10. Good(t)
    BY <2>6, <2>9, PartsKept DEF Good
  <2>11. Legit(st, t)
    BY <2>5, <2>6, <2>7 DEF Legit, LandsFit, Sessions
  <2>12. Good(FireProposed(t, r)) /\ Quiet(t, FireProposed(t, r))
    BY <2>4, <2>6, <2>8, <2>10, FireFits
  <2>13. Legit(st, FireProposed(t, r))
    BY <2>6, <2>11, <2>12, LegitThenQuiet
  <2> QED
    BY <1>1, <2>3, <2>12, <2>13 DEF Does, out
<1> QED
  BY <1>3, <1>4

\* Claims and memories.
LEMMA SayingFits ==
  ASSUME NEW st, Good(st), NEW a \in Agent, a \notin st.revoked, NEW actor,
         ActorFits(st, a, actor), NEW p
  PROVE  /\ Does(st, a, Claim(st, actor, p)) /\ Does(st, a, Unclaim(st, actor))
         /\ Does(st, a, Remember(st, actor))
<1> DEFINE claimed == [st EXCEPT !.claims = @ \cup {[by |-> actor.session, path |-> p]}]
           freed == [st EXCEPT !.claims = {c \in @ : c.by # actor.session}]
           told == [st EXCEPT !.memories = @ \cup {actor.session}]
<1>1. /\ actor.ws \in Spots(a) /\ IsSession(st, actor.session)
      /\ AgentOf(actor.session) \notin st.revoked
  BY SessionsNamed DEF Good, ActorFits
<1>2. ASSUME NEW t, SameBut(st, t, {"claims", "memories"}),
             \A c \in t.claims : c \in st.claims \/ c.by = actor.session,
             \A s \in t.memories : s \in st.memories \/ s = actor.session
      PROVE  Good(t) /\ Legit(st, t)
  <2>1. /\ DOMAIN t = Fields /\ t.sessions = st.sessions /\ t.revs = st.revs
        /\ t.revoked = st.revoked /\ t.files = st.files /\ t.assign = st.assign
        /\ t.grant = st.grant /\ t.spaces = st.spaces /\ t.made = st.made
        /\ t.proposed = st.proposed /\ t.landed = st.landed
        /\ t.caps = st.caps /\ t.under = st.under /\ t.anomaly = st.anomaly
    BY <1>2 DEF SameBut, Fields
  <2>2. SayingsFit(t)
    BY <1>1, <1>2, <2>1 DEF Good, SayingsFit, IsSession, Sessions
  <2> QED
    BY <2>1, <2>2, PartsKept, SilentIsLegit DEF Good
<1>3. SameBut(st, claimed, {"claims", "memories"}) /\ claimed.memories = st.memories
      /\ claimed.claims = st.claims \cup {[by |-> actor.session, path |-> p]}
  BY DEF SameBut, Good, Fields
<1>4. SameBut(st, freed, {"claims", "memories"}) /\ freed.memories = st.memories
      /\ freed.claims = {c \in st.claims : c.by # actor.session}
  BY DEF SameBut, Good, Fields
<1>5. SameBut(st, told, {"claims", "memories"}) /\ told.claims = st.claims
      /\ told.memories = st.memories \cup {actor.session}
  BY DEF SameBut, Good, Fields
<1>6. SameBut(st, st, {"claims", "memories"})
  BY DEF SameBut, Good
<1>7. /\ Claim(st, actor, p) \in {Left(claimed, actor.ws), Left(st, actor.ws)}
      /\ Unclaim(st, actor) \in {Left(freed, actor.ws), Left(st, actor.ws)}
      /\ Remember(st, actor) \in {Left(told, actor.ws), Left(st, actor.ws)}
  BY DEF Claim, Unclaim, Remember
<1> HIDE DEF claimed, freed, told
<1>8. /\ Good(claimed) /\ Legit(st, claimed) /\ Good(freed) /\ Legit(st, freed)
      /\ Good(told) /\ Legit(st, told) /\ Legit(st, st)
  <2>1. Good(claimed) /\ Legit(st, claimed)
    BY <1>2, <1>3
  <2>2. Good(freed) /\ Legit(st, freed)
    BY <1>2, <1>4
  <2>3. Good(told) /\ Legit(st, told)
    BY <1>2, <1>5
  <2> QED
    BY <2>1, <2>2, <2>3, SilentIsLegit
<1> QED
  BY <1>1, <1>7, <1>8 DEF Does, Left

\* A change of the assignments only.
LEMMA AssignFits ==
  ASSUME NEW st, Good(st), NEW t, SameBut(st, t, {"assign", "intents"}),
         DOMAIN t.assign = Agent,
         \A a \in Agent : t.assign[a] = st.assign[a] \/ t.assign[a].scope \subseteq Paths
  PROVE  /\ Good(t) /\ t.revs = st.revs /\ t.revoked = st.revoked /\ t.landed = st.landed
         /\ t.proposed = st.proposed /\ t.caps = st.caps /\ t.sessions = st.sessions
<1>1. /\ DOMAIN t = Fields /\ t.sessions = st.sessions /\ t.revs = st.revs
      /\ t.revoked = st.revoked /\ t.files = st.files
      /\ t.grant = st.grant /\ t.spaces = st.spaces /\ t.made = st.made /\ t.claims = st.claims
      /\ t.memories = st.memories /\ t.proposed = st.proposed /\ t.landed = st.landed
      /\ t.caps = st.caps /\ t.under = st.under /\ t.anomaly = st.anomaly
  BY DEF SameBut, Fields
<1>2. ScopesFit(t)
  BY <1>1 DEF Good, ScopesFit
<1> QED
  BY <1>1, <1>2, PartsKept DEF Good

\* A plan: the assignment, the worker's session and its file are written whether
\* or not the op is accepted; none of it is for a revoked worker.
LEMMA PlanFits ==
  ASSUME NEW st, Good(st), NEW a \in Agent, NEW actor, ActorFits(st, a, actor)
  PROVE  Does(st, a, Plan(st, actor))
<1> DEFINE accepted == Accepted(st, actor, "plan", {})
           assigned == [st EXCEPT !.assign[Worker] = [scope |-> Assigned, planned |-> accepted],
                                  !.intents = @ \/ accepted]
           unplanned == [assigned EXCEPT !.intents = st.intents, !.assign[Worker].planned = FALSE]
           o == OpenSession(assigned, Worker, Assigned)
           child == Child(st, actor, o.actor.session)
           t == [o.st EXCEPT !.files[Worker][Assigned].cap = child,
                             !.caps = IF accepted THEN @ \cup {child} ELSE @]
           out == Plan(st, actor)
<1>1. out = IF ~actor.cap.delegable THEN Left(assigned, actor.ws)
            ELSE IF ~CanOpen(assigned, Worker, Assigned) THEN Left(unplanned, actor.ws)
            ELSE Left(t, actor.ws)
  BY DEF Plan
<1>2. Worker \in Agent /\ Assigned \in SUBSET Paths /\ actor.ws \in Spots(a)
  BY AgentsAssumption, CastsAssumption DEF ActorFits
<1>3. /\ DOMAIN assigned = Fields /\ DOMAIN assigned.assign = Agent
      /\ \A f \in Fields \ {"assign", "intents"} : assigned[f] = st[f]
      /\ assigned.assign = [st.assign EXCEPT ![Worker] = [scope |-> Assigned, planned |-> accepted]]
  BY DEF Good, Fields, ScopesFit
<1> HIDE DEF accepted, assigned
<1>4. /\ Good(assigned) /\ assigned.revs = st.revs /\ assigned.revoked = st.revoked
      /\ assigned.landed = st.landed /\ assigned.proposed = st.proposed
      /\ assigned.caps = st.caps /\ assigned.sessions = st.sessions
  <2>1. \A b \in Agent : assigned.assign[b] = st.assign[b] \/ assigned.assign[b].scope \subseteq Paths
    BY <1>2, <1>3 DEF Good, ScopesFit
  <2>2. SameBut(st, assigned, {"assign", "intents"})
    BY <1>3 DEF SameBut, Good
  <2> QED
    BY <1>3, <2>1, <2>2, AssignFits
<1>5. Legit(st, assigned)
  BY <1>4, SilentIsLegit
<1>6. Good(unplanned) /\ Legit(st, unplanned)
  <2>1. /\ SameBut(assigned, unplanned, {"assign", "intents"}) /\ DOMAIN unplanned.assign = Agent
        /\ \A b \in Agent \ {Worker} : unplanned.assign[b] = assigned.assign[b]
        /\ unplanned.assign[Worker] = [assigned.assign[Worker] EXCEPT !.planned = FALSE]
    BY <1>2, <1>3 DEF SameBut, Good, Fields, ScopesFit
  <2>2. assigned.assign[Worker] = [scope |-> Assigned, planned |-> accepted]
    BY <1>2, <1>3 DEF Good, ScopesFit
  <2> HIDE DEF unplanned
  <2>3. unplanned.assign[Worker].scope = Assigned
    BY <2>1, <2>2
  <2>4. \A b \in Agent : \/ unplanned.assign[b] = assigned.assign[b]
                        \/ unplanned.assign[b].scope \subseteq Paths
    BY <1>2, <2>1, <2>3
  <2>5. /\ Good(unplanned) /\ unplanned.revs = assigned.revs
        /\ unplanned.landed = assigned.landed /\ unplanned.proposed = assigned.proposed
        /\ unplanned.caps = assigned.caps /\ unplanned.sessions = assigned.sessions
    BY <1>4, <2>1, <2>4, AssignFits
  <2> QED
    BY <1>4, <2>5, SilentIsLegit
<1> HIDE DEF unplanned, out
<1>7. CASE CanOpen(assigned, Worker, Assigned)
  <2>1. Worker \notin assigned.revoked
    BY <1>7 DEF CanOpen
  <2> DEFINE kept == o.st.files[Worker][Assigned]
  <2>2. /\ Good(o.st) /\ ActorFits(o.st, Worker, o.actor)
        /\ o.st.revs = assigned.revs /\ o.st.revoked = assigned.revoked
        /\ o.st.landed = assigned.landed /\ o.st.proposed = assigned.proposed
        /\ DOMAIN kept = {"session", "cap", "ws"}
        /\ kept.session \in Sessions(o.st, Worker) /\ kept.ws \in Spots(Worker)
        /\ \A b \in Agent : Sessions(assigned, b) \subseteq Sessions(o.st, b)
        /\ \A c \in o.st.caps \ assigned.caps : c.subject \in Sessions(o.st, Worker)
    BY <1>2, <1>4, <2>1, OpenFits
  <2>3. child.subject = o.actor.session
    BY DEF Child
  <2> HIDE DEF o, child, kept
  <2>4. /\ DOMAIN t = Fields /\ t.sessions = o.st.sessions /\ t.revs = o.st.revs
        /\ t.revoked = o.st.revoked /\ t.assign = o.st.assign
        /\ t.grant = o.st.grant /\ t.spaces = o.st.spaces /\ t.made = o.st.made
        /\ t.claims = o.st.claims /\ t.memories = o.st.memories
        /\ t.proposed = o.st.proposed /\ t.landed = o.st.landed
        /\ t.under = o.st.under /\ t.anomaly = o.st.anomaly
        /\ t.caps \subseteq o.st.caps \cup {child}
    BY <2>2 DEF Good, Fields
  <2>5. /\ DOMAIN t.files = Agent /\ \A b \in Agent : DOMAIN t.files[b] = SUBSET Paths
        /\ \A b \in Agent : \A z \in SUBSET Paths :
             t.files[b][z] = IF b = Worker /\ z = Assigned THEN [kept EXCEPT !.cap = child]
                             ELSE o.st.files[b][z]
    BY <1>2, <2>2 DEF Good, Fields, FilesFit, kept
  <2> HIDE DEF t
  <2>6. FilesFit(t)
    <3> DEFINE new == [kept EXCEPT !.cap = child]
    <3>1. FileOf(t, Worker, new)
      <4>1. Sessions(t, Worker) = Sessions(o.st, Worker)
        BY <2>4, NamesKept
      <4> QED
        BY <2>2, <4>1 DEF FileOf
    <3>2. FilesFit(o.st) /\ \A b \in Agent : Sessions(o.st, b) \subseteq Sessions(t, b)
      BY <2>2, <2>4, NamesKept DEF Good
    <3> HIDE DEF new
    <3>3. Writes(o.st, t, Worker, Assigned, new)
      BY <2>5 DEF new, Writes
    <3> QED
      BY <1>2, <3>1, <3>2, <3>3, FilesKept
  <2>7. Good(t)
    BY <2>2, <2>4, <2>6, PartsKept DEF Good
  <2>8. \A c \in t.caps \ st.caps : AgentOf(c.subject) = Worker
    <3>1. \A c \in t.caps \ st.caps : c.subject \in Sessions(o.st, Worker)
      BY <1>4, <2>2, <2>3, <2>4 DEF ActorFits
    <3> QED
      BY <1>2, <2>2, <3>1, SessionsNamed DEF Good
  <2>9. \A b \in Agent : Sessions(st, b) \subseteq Sessions(t, b)
    BY <1>4, <2>2, <2>4 DEF Sessions
  <2>10. Legit(st, t)
    BY <1>4, <2>1, <2>2, <2>4, <2>8, <2>9 DEF Legit, LandsFit, IsOf
  <2> QED
    BY <1>1, <1>2, <1>4, <1>5, <1>7, <2>7, <2>10 DEF Does, Left, out
<1>8. CASE ~CanOpen(assigned, Worker, Assigned)
  BY <1>1, <1>2, <1>4, <1>5, <1>6, <1>8 DEF Does, Left, out
<1> QED
  BY <1>7, <1>8

\* Any verb, of an agent that is not revoked.
LEMMA CallFits ==
  ASSUME NEW st, Good(st), NEW a \in Agent, a \notin st.revoked, NEW actor,
         ActorFits(st, a, actor), NEW verb \in Verbs, NEW arg, verb = "edit" => arg \in Paths
  PROVE  Does(st, a, Call(verb, arg, st, actor))
<1>1. CASE verb = "create"
  BY <1>1, CreateFits DEF Call
<1>2. CASE verb = "drop"
  BY <1>2, DropVerbFits DEF Call
<1>3. CASE verb = "adopt"
  BY <1>3, CheckoutFits DEF Call
<1>4. CASE verb = "release"
  BY <1>4, CheckoutFits DEF Call
<1>5. CASE verb = "edit"
  BY <1>5, EditFits DEF Call
<1>6. CASE verb = "snapshot"
  BY <1>6, SnapshotFits DEF Call
<1>7. CASE verb = "propose"
  BY <1>7, ProposeFits DEF Call
<1>8. CASE verb = "claim"
  BY <1>8, SayingFits DEF Call
<1>9. CASE verb = "unclaim"
  BY <1>9, SayingFits DEF Call
<1>10. CASE verb = "remember"
  BY <1>10, SayingFits DEF Call
<1>11. CASE verb = "plan"
  BY <1>11, PlanFits DEF Call
<1> QED
  BY <1>1, <1>2, <1>3, <1>4, <1>5, <1>6, <1>7, <1>8, <1>9, <1>10, <1>11 DEF Verbs

-----------------------------------------------------------------------------
(***************************************************************************)
(* Requests and the rest of the steps.                                     *)
(***************************************************************************)

\* What the table holds stays true while sessions are only opened.
LEMMA ActorStays ==
  ASSUME NEW st, NEW t, NEW a \in Agent, NEW actor, ActorFits(st, a, actor),
         Sessions(st, a) \subseteq Sessions(t, a)
  PROVE  ActorFits(t, a, actor)
BY DEF ActorFits

\* A step of the owner or of the daemon that writes the state and no table.
LEMMA KeepFits ==
  ASSUME IInv, NEW t, Good(t), Legit(repo, t), repo' = t, UNCHANGED cast,
         \A a \in Agent : table'[a] \in {None, table[a]}, DOMAIN table' = Agent
  PROVE  IInv' /\ Legit(repo, repo')
<1>1. ASSUME NEW a \in Agent, table'[a] # None
      PROVE  ActorFits(repo', a, table'[a])
  <2>1. table'[a] = table[a] /\ ActorFits(repo, a, table[a])
    BY <1>1 DEF IInv, TableFits
  <2>2. Sessions(repo, a) \subseteq Sessions(t, a)
    BY DEF Legit
  <2> QED
    BY <2>1, <2>2, ActorStays
<1>2. TableFits'
  BY <1>1 DEF TableFits
<1> QED
  BY <1>2 DEF IInv

\* A request: the session, the verb, the workspace it leaves.
LEMMA RequestFits ==
  ASSUME IInv, NEW a \in Agent, NEW verb \in cast.does[a], NEW arg \in Args(verb),
         Request(a, verb, arg)
  PROVE  IInv' /\ Legit(repo, repo')
<1> DEFINE scope == EffectiveWritePaths(repo, a)
           o == IF table[a] # None THEN [st |-> repo, actor |-> table[a]]
                ELSE OpenSession(repo, a, scope)
           done == IF Throttled(o.st, a)
                   THEN Left(Record(o.st, o.actor.session, 1, "other"), o.actor.ws)
                   ELSE Call(verb, arg, o.st, o.actor)
           t == RememberSessionWorkspace(done.st, o.actor, done.ws)
           seat == IF done.ws = None THEN o.actor ELSE [o.actor EXCEPT !.ws = done.ws]
<1>1. /\ repo' = t /\ table' = [table EXCEPT ![a] = seat] /\ UNCHANGED cast
      /\ IF table[a] # None THEN table[a].session \notin repo.revoked ELSE CanOpen(repo, a, scope)
  <2>1. /\ \E x \in {o} :
             \E y \in {IF Throttled(x.st, a)
                      THEN Left(Record(x.st, x.actor.session, 1, "other"), x.actor.ws)
                      ELSE Call(verb, arg, x.st, x.actor)} :
               /\ repo' = RememberSessionWorkspace(y.st, x.actor, y.ws)
               /\ table' = [table EXCEPT ![a] = IF y.ws = None THEN x.actor
                                                ELSE [x.actor EXCEPT !.ws = y.ws]]
        /\ UNCHANGED cast
        /\ IF table[a] # None THEN table[a].session \notin repo.revoked ELSE CanOpen(repo, a, scope)
    BY DEF Request
  <2> HIDE DEF o, scope
  <2> QED
    BY <2>1
<1>2. Good(repo) /\ TableFits /\ cast \in Casts
  BY DEF IInv
<1>3. a \notin repo.revoked
  <2>1. CASE table[a] # None
    BY <1>1, <1>2, <2>1 DEF Good, RevokedOut, TableFits, ActorFits
  <2>2. CASE table[a] = None
    BY <1>1, <2>2 DEF CanOpen
  <2> QED
    BY <2>1, <2>2
<1>4. scope \subseteq Paths
  BY <1>2 DEF EffectiveWritePaths, Good, ScopesFit
<1>5. /\ Good(o.st) /\ ActorFits(o.st, a, o.actor)
      /\ o.st.revs = repo.revs /\ o.st.revoked = repo.revoked
      /\ o.st.landed = repo.landed /\ o.st.proposed = repo.proposed
      /\ \A b \in Agent : Sessions(repo, b) \subseteq Sessions(o.st, b)
      /\ \A c \in o.st.caps \ repo.caps : c.subject \in Sessions(o.st, a)
  <2> HIDE DEF scope
  <2>1. CASE table[a] # None
    <3>1. o.st = repo /\ o.actor = table[a]
      BY <2>1
    <3> QED
      BY <1>2, <2>1, <3>1 DEF TableFits
  <2>2. CASE table[a] = None
    <3>1. o = OpenSession(repo, a, scope)
      BY <2>2
    <3> HIDE DEF o
    <3> QED
      BY <1>2, <1>3, <1>4, <3>1, OpenFits
  <2> QED
    BY <2>1, <2>2
<1> HIDE DEF o
<1>6. Does(o.st, a, done)
  <2>1. CASE Throttled(o.st, a)
    <3>1. /\ done.st = Record(o.st, o.actor.session, 1, "other") /\ done.ws = o.actor.ws
      BY <2>1 DEF Left
    <3>2. AgentOf(o.actor.session) \in Agent
      BY <1>5, SessionsNamed DEF Good, ActorFits
    <3>3. /\ Good(Record(o.st, o.actor.session, 1, "other"))
          /\ Legit(o.st, Record(o.st, o.actor.session, 1, "other"))
      BY <1>5, <3>2, ChargeFits, QuietIsLegit
    <3> HIDE DEF done
    <3> QED
      BY <1>5, <3>1, <3>3 DEF Does, ActorFits
  <2>2. CASE ~Throttled(o.st, a)
    <3>1. verb \in Verbs
      BY <1>2, CastsAssumption
    <3>2. verb = "edit" => arg \in Paths
      BY <1>2, CastsAssumption DEF Args
    <3>3. a \notin o.st.revoked
      BY <1>3, <1>5
    <3>4. Does(o.st, a, Call(verb, arg, o.st, o.actor))
      BY <1>5, <3>1, <3>2, <3>3, CallFits
    <3> QED
      BY <2>2, <3>4
  <2> QED
    BY <2>1, <2>2
<1> HIDE DEF done
<1>7. /\ Good(done.st) /\ done.ws \in Spots(a) /\ Legit(o.st, done.st)
      /\ ActorFits(done.st, a, o.actor)
  BY <1>5, <1>6, ActorStays DEF Does, Legit
<1>8. /\ Good(t)
      /\ t.revs = done.st.revs /\ t.revoked = done.st.revoked /\ t.landed = done.st.landed
      /\ t.proposed = done.st.proposed /\ t.under = done.st.under /\ t.caps = done.st.caps
      /\ t.sessions = done.st.sessions
  BY <1>7, RememberFits
<1> HIDE DEF t
<1>9. Legit(o.st, t)
  BY <1>7, <1>8 DEF Legit, LandsFit, Sessions
<1>10. Legit(repo, t)
  <2>1. \A b \in Agent : Sessions(repo, b) \subseteq Sessions(t, b)
    BY <1>5, <1>9 DEF Legit
  <2>2. \A c \in t.caps \ repo.caps : \A b \in Agent \cap repo.revoked : ~IsOf(c.subject, b)
    <3>1. ASSUME NEW c \in o.st.caps \ repo.caps
          PROVE  AgentOf(c.subject) = a
      BY <1>5, SessionsNamed DEF Good
    <3> QED
      BY <1>3, <1>5, <1>9, <3>1 DEF Legit, IsOf
  <2>3. LandsFit(repo, t)
    BY <1>5, <1>9 DEF Legit, LandsFit
  <2> QED
    BY <1>5, <1>9, <2>1, <2>2, <2>3 DEF Legit
<1>11. TableFits'
  <2>1. ActorFits(t, a, seat)
    <3>1. ActorFits(t, a, o.actor)
      BY <1>7, <1>8 DEF ActorFits, Sessions
    <3> QED
      BY <1>7, <3>1 DEF ActorFits
  <2>2. ASSUME NEW b \in Agent, b # a, table[b] # None
        PROVE  ActorFits(t, b, table[b])
    BY <1>2, <1>10, <2>2, ActorStays DEF TableFits, Legit
  <2> HIDE DEF seat
  <2> QED
    BY <1>1, <1>2, <2>1, <2>2 DEF TableFits
<1> QED
  BY <1>1, <1>2, <1>8, <1>10, <1>11 DEF IInv

\* The owner's own snapshot, in the checkout.
LEMMA OwnerSnapshotFits ==
  ASSUME IInv, OwnerSnapshot
  PROVE  IInv' /\ Legit(repo, repo')
<1> DEFINE rev == Revision(repo, Owner, Root, Paths)
           t == Recorded(repo, Root, rev)
<1>1. Good(repo) /\ TableFits
  BY DEF IInv
<1>2. rev.by = Owner /\ rev.space = Root
  BY DEF Revision
<1>3. rev.paths \subseteq Paths
  <2>1. /\ repo.spaces[Root].dirty \subseteq Paths
        /\ repo.spaces[Root].cur # 0 => repo.revs[repo.spaces[Root].cur].paths \subseteq Paths
    BY <1>1 DEF Good, SpacesFit, RevsFit
  <2> QED
    BY <2>1 DEF Revision
<1>4. repo' = t /\ UNCHANGED <<table, cast>>
  BY DEF OwnerSnapshot, Keep
<1> HIDE DEF rev
<1>5. /\ Good(t)
      /\ t.revoked = repo.revoked /\ t.landed = repo.landed
      /\ t.proposed = repo.proposed /\ t.under = repo.under /\ t.caps = repo.caps
      /\ t.sessions = repo.sessions
      /\ \A r \in DOMAIN t.revs \ DOMAIN repo.revs : t.revs[r] = rev
  BY <1>1, <1>2, <1>3, RecordedFits DEF ByOwner
<1> HIDE DEF t
<1>6. Legit(repo, t)
  BY <1>2, <1>5 DEF Legit, LandsFit, Sessions, IsOf
<1> QED
  BY <1>1, <1>4, <1>5, <1>6, KeepFits DEF TableFits

\* A grant, a hook, the passing of time.
LEMMA SettingsFit ==
  ASSUME IInv, \/ \E a \in Agent, g \in cast.grants : GrantTo(a, g)
               \/ \E h \in cast.hooks : SetHook(h)
               \/ Tick
  PROVE  IInv' /\ Legit(repo, repo')
<1>1. Good(repo) /\ TableFits /\ cast \in Casts
  BY DEF IInv
<1>2. /\ DOMAIN repo' = Fields /\ repo'.sessions = repo.sessions /\ repo'.revs = repo.revs
      /\ repo'.revoked = repo.revoked /\ repo'.files = repo.files /\ repo'.assign = repo.assign
      /\ repo'.spaces = repo.spaces /\ repo'.made = repo.made /\ repo'.claims = repo.claims
      /\ repo'.memories = repo.memories /\ repo'.proposed = repo.proposed
      /\ repo'.landed = repo.landed /\ repo'.caps = repo.caps /\ UNCHANGED <<table, cast>>
  <2>1. DOMAIN repo = Fields
    BY <1>1 DEF Good
  <2>2. ASSUME NEW a \in Agent, NEW g \in cast.grants, GrantTo(a, g)
        PROVE  UNCHANGED <<table, cast>> /\ SameBut(repo, repo', {"grant"})
    BY <2>1, <2>2 DEF GrantTo, Keep, SameBut, Fields
  <2>3. ASSUME NEW h \in cast.hooks, SetHook(h)
        PROVE  UNCHANGED <<table, cast>> /\ SameBut(repo, repo', {"hook"})
    BY <2>1, <2>3 DEF SetHook, Keep, SameBut, Fields
  <2>4. CASE Tick
    <3>1. UNCHANGED <<table, cast>> /\ SameBut(repo, repo', {"anomaly", "life"})
      BY <2>1, <2>4 DEF Tick, Keep, SameBut, Fields
    <3> QED
      BY <3>1 DEF SameBut, Fields
  <2>5. ASSUME UNCHANGED <<table, cast>>,
               SameBut(repo, repo', {"grant"}) \/ SameBut(repo, repo', {"hook"})
        PROVE  SameBut(repo, repo', {"grant", "hook"}) /\ UNCHANGED <<table, cast>>
    BY <2>5 DEF SameBut
  <2>6. CASE \/ \E a \in Agent, g \in cast.grants : GrantTo(a, g)
             \/ \E h \in cast.hooks : SetHook(h)
    <3>1. SameBut(repo, repo', {"grant", "hook"}) /\ UNCHANGED <<table, cast>>
      BY <2>2, <2>3, <2>5, <2>6
    <3> QED
      BY <3>1 DEF SameBut, Fields
  <2> QED
    BY <2>4, <2>6
<1>3. ScopesFit(repo')
  <2>1. ASSUME NEW a \in Agent, NEW g \in cast.grants, GrantTo(a, g)
        PROVE  ScopesFit(repo')
    <3>1. g.scope \subseteq Paths
      BY <1>1, CastsAssumption
    <3>2. repo'.grant = [repo.grant EXCEPT ![a] = g]
      BY <1>1, <2>1 DEF GrantTo, Keep, Good, Fields
    <3> QED
      BY <1>1, <1>2, <3>1, <3>2 DEF Good, ScopesFit
  <2>2. ASSUME Tick \/ \E h \in cast.hooks : SetHook(h)
        PROVE  ScopesFit(repo')
    <3>1. repo'.grant = repo.grant
      BY <1>1, <2>2 DEF SetHook, Tick, Keep, Good, Fields
    <3> QED
      BY <1>1, <1>2, <3>1 DEF Good, ScopesFit
  <2> QED
    BY <2>1, <2>2
<1>4. ChargesFit(repo')
  <2>1. CASE Tick
    <3>1. repo'.anomaly = [a \in Agent |-> [repo.anomaly[a] EXCEPT
                             !.left = Sooner(repo.anomaly[a].left)]]
      BY <1>1, <2>1 DEF Tick, Keep, Good, Fields
    <3>2. DOMAIN repo'.anomaly = Agent
      BY <3>1
    <3>3. ASSUME NEW a \in Agent
          PROVE  /\ DOMAIN repo'.anomaly[a] = DOMAIN repo.anomaly[a]
                 /\ repo'.anomaly[a].charged = repo.anomaly[a].charged
                 /\ repo'.anomaly[a].weak = repo.anomaly[a].weak
      BY <1>1, <3>1 DEF Good, ChargesFit
    <3> QED
      BY <1>1, <1>2, <3>2, <3>3 DEF Good, ChargesFit
  <2>2. CASE ~Tick
    <3>1. repo'.anomaly = repo.anomaly
      BY <1>1, <2>2 DEF SetHook, GrantTo, Keep, Good, Fields
    <3> QED
      BY <1>1, <1>2, <3>1 DEF Good, ChargesFit
  <2> QED
    BY <2>1, <2>2
<1>5. Good(repo')
  BY <1>1, <1>2, <1>3, <1>4, PartsKept DEF Good
<1>6. Legit(repo, repo')
  BY <1>2, SilentIsLegit
<1>7. TableFits'
  BY <1>1, <1>2 DEF TableFits, ActorFits, Sessions
<1> QED
  BY <1>1, <1>2, <1>5, <1>6, <1>7 DEF IInv

\* Nothing but the owner's checkout is there at first.
LEMMA InitFits == Init => IInv
<1> SUFFICES ASSUME Init PROVE IInv
  OBVIOUS
<1>1. /\ DOMAIN repo = Fields /\ repo.revoked = {} /\ repo.sessions = [a \in Agent |-> 0]
      /\ repo.revs = << >> /\ repo.proposed = {} /\ repo.claims = {} /\ repo.memories = {}
      /\ repo.files = [a \in Agent |-> [s \in SUBSET Paths |-> None]]
      /\ repo.assign = [a \in Agent |-> None] /\ repo.grant = [a \in Agent |-> None]
      /\ repo.anomaly = [a \in Agent |-> [weak |-> 0, other |-> 0, left |-> 0, charged |-> {}]]
      /\ repo.spaces = [w \in {Root} |-> NewSpace(Owner, 0)] /\ repo.made = 0
  BY DEF Init, Fields
<1>2. IsList(repo.revs) /\ Len(repo.revs) = 0
  BY <1>1 DEF IsList
<1>3. FilesFit(repo) /\ ScopesFit(repo)
  BY <1>1 DEF FilesFit, FileOf, ScopesFit
<1>4. RevsFit(repo)
  BY <1>2 DEF RevsFit
<1>5. SpacesFit(repo)
  BY <1>1 DEF SpacesFit, NewSpace, ByOwner
<1>6. RevokedOut(repo) /\ SayingsFit(repo) /\ ProposalsFit(repo)
  BY <1>1 DEF RevokedOut, SayingsFit, ProposalsFit
<1>7. ChargesFit(repo)
  <2>1. 2 * Cardinality({}) = 0
    BY FS_EmptySet
  <2>2. \A a \in Agent : /\ DOMAIN repo.anomaly[a] = {"weak", "other", "left", "charged"}
                         /\ repo.anomaly[a].charged = {} /\ repo.anomaly[a].weak = 0
    BY <1>1
  <2>3. DOMAIN repo.anomaly = Agent
    BY <1>1
  <2> QED
    BY <2>1, <2>2, <2>3 DEF ChargesFit
<1>8. Good(repo)
  BY <1>1, <1>3, <1>4, <1>5, <1>6, <1>7 DEF Good
<1>9. cast \in Casts /\ DOMAIN table = Agent /\ \A a \in Agent : table[a] = None
  BY DEF Init
<1> QED
  BY <1>8, <1>9 DEF IInv, TableFits

\* Every step keeps the invariant, and does no more than a verb may.
LEMMA StepFits == IInv /\ [Next]_vars => IInv' /\ Legit(repo, repo')
<1> SUFFICES ASSUME IInv, [Next]_vars PROVE IInv' /\ Legit(repo, repo')
  OBVIOUS
<1>0. Good(repo) /\ TableFits /\ cast \in Casts
  BY DEF IInv
<1>1. ASSUME NEW a \in Agent, NEW verb \in cast.does[a], NEW arg \in Args(verb), Request(a, verb, arg)
      PROVE  IInv' /\ Legit(repo, repo')
  BY <1>1, RequestFits
<1>2. ASSUME NEW a \in Agent, ForgetSession(a)
      PROVE  IInv' /\ Legit(repo, repo')
  BY <1>0, <1>2, SilentIsLegit DEF ForgetSession, IInv, TableFits
<1>3. CASE \/ \E a \in Agent, g \in cast.grants : GrantTo(a, g)
           \/ \E h \in cast.hooks : SetHook(h)
           \/ Tick
  BY <1>3, SettingsFit
<1>4. ASSUME NEW a \in Agent, RevokeVerb(a)
      PROVE  IInv' /\ Legit(repo, repo')
  <2>1. Good(RevokeAgent(repo, a)) /\ Legit(repo, RevokeAgent(repo, a))
    BY <1>0, RevokeFits, QuietIsLegit
  <2> QED
    BY <1>0, <1>4, <2>1, KeepFits DEF RevokeVerb, Keep, TableFits
<1>5. ASSUME NEW a \in Agent, RevokeCut(a)
      PROVE  IInv' /\ Legit(repo, repo')
  <2>1. Good(RevokeOp(repo, a)) /\ Legit(repo, RevokeOp(repo, a))
    BY <1>0, RevokeOpFits, QuietIsLegit
  <2> QED
    BY <1>5, <2>1, KeepFits DEF RevokeCut
<1>6. CASE OwnerReleases
  BY <1>0, <1>6, HolderFits, KeepFits DEF OwnerReleases, Keep, TableFits
<1>7. CASE OwnerSnapshot
  BY <1>7, OwnerSnapshotFits
<1>8. ASSUME NEW r \in repo.proposed, Land(r)
      PROVE  IInv' /\ Legit(repo, repo')
  <2>1. r \in 1 .. Len(repo.revs)
    BY <1>0 DEF Good, ProposalsFit
  <2>2. r \notin repo.landed => \A a \in Agent \cap repo.revoked :
                                  IsOf(repo.revs[r].by, a) => repo.revs[r].space = Root
    BY <1>0, <1>8 DEF Good, ProposalsFit, Land
  <2>3. Good(LandRevision(repo, r)) /\ Legit(repo, LandRevision(repo, r))
    BY <1>0, <2>1, <2>2, LandFits, QuietIsLegit
  <2> QED
    BY <1>0, <1>8, <2>3, KeepFits DEF Land, Keep, TableFits
<1>9. CASE Restart
  BY <1>0, <1>9, SilentIsLegit DEF Restart, IInv, TableFits
<1>10. CASE UNCHANGED vars
  BY <1>0, <1>10, SilentIsLegit DEF vars, IInv, TableFits, ActorFits
<1> QED
  BY <1>1, <1>2, <1>3, <1>4, <1>5, <1>6, <1>7, <1>8, <1>9, <1>10 DEF Next

\* The invariant of the state, whatever agents, hooks, revocations cut short,
\* restarts and expiries do.
THEOREM AgentsInvariant == Spec => []IInv
<1> QED
  BY InitFits, StepFits, PTL DEF Spec

\* A revoked agent has no more say (dispatch, verify_op, revoke_agent): by no
\* session in the table, in a file, planned for it or run by a hook.
THEOREM RevokedAreSilent == Spec => NoWordAfterRevoke
<1> DEFINE Silent == \A a \in Agent \cap repo'.revoked :
                       /\ \A r \in DOMAIN repo'.revs \ DOMAIN repo.revs : ~IsOf(repo'.revs[r].by, a)
                       /\ \A c \in repo'.claims : ~IsOf(c.by, a)
                       /\ \A s \in repo'.memories : ~IsOf(s, a)
                       /\ a \in repo.revoked => \A c \in repo'.caps \ repo.caps : ~IsOf(c.subject, a)
<1>1. IInv /\ [Next]_vars => Silent
  <2> SUFFICES ASSUME IInv, [Next]_vars PROVE Silent
    OBVIOUS
  <2>1. IInv' /\ Legit(repo, repo')
    BY StepFits
  <2>2. SayingsFit(repo')
    BY <2>1 DEF IInv, Good
  <2> QED
    BY <2>1, <2>2 DEF Legit, SayingsFit, IsOf
<1>2. IInv /\ [Next]_vars => [Silent]_vars
  BY <1>1
<1> QED
  BY <1>2, AgentsInvariant, PTL DEF Spec, NoWordAfterRevoke

\* What a revoked agent left in a workspace of its own does not land, also when
\* the daemon stopped before the workspace was dropped (revoke_agent, land_one).
THEOREM RevokedDoNotLand == Spec => LandsNothingOfRevoked
<1>1. IInv /\ [Next]_vars => LandsFit(repo, repo')
  BY StepFits DEF Legit
<1>2. IInv /\ [Next]_vars =>
        [\A r \in repo'.landed \ repo.landed : \A a \in Agent \cap repo.revoked :
           IsOf(repo.revs[r].by, a) => repo.revs[r].space = Root]_vars
  BY <1>1 DEF LandsFit
<1> QED
  BY <1>2, AgentsInvariant, PTL DEF Spec, LandsNothingOfRevoked

\* No proposal is accepted under a capability cut from that of a planner who is
\* revoked (check_chain).
THEOREM DelegationEnds == Spec => DelegatedDiesWithPlanner
<1>1. IInv /\ [Next]_vars =>
        [\A r \in repo'.proposed \ repo.proposed : IssuerOf(repo'.under[r]) \notin repo.revoked]_vars
  BY StepFits DEF Legit
<1> QED
  BY <1>1, AgentsInvariant, PTL DEF Spec, DelegatedDiesWithPlanner

\* An agent's points for weakened tests are two for each of its revisions that
\* weakens one, at most (record_once).
THEOREM ChargesAreOnce == Spec => []ChargedOnce
<1>1. IInv => ChargedOnce
  <2> SUFFICES ASSUME IInv, NEW a \in Agent
               PROVE  repo.anomaly[a].weak <= 2 * Cardinality(
                        {r \in DOMAIN repo.revs : IsOf(repo.revs[r].by, a) /\ Test \in repo.revs[r].paths})
    BY DEF ChargedOnce
  <2> DEFINE mine == {r \in 1 .. Len(repo.revs) : IsOf(repo.revs[r].by, a) /\ Test \in repo.revs[r].paths}
             charged == repo.anomaly[a].charged
  <2>1. Len(repo.revs) \in Nat /\ DOMAIN repo.revs = 1 .. Len(repo.revs)
    BY LenProperties DEF IInv, Good, RevsFit, IsList
  <2>2. charged \subseteq mine /\ repo.anomaly[a].weak = 2 * Cardinality(charged)
    BY DEF IInv, Good, ChargesFit
  <2>3. IsFiniteSet(1 .. Len(repo.revs))
    BY <2>1, FS_Interval
  <2>4. IsFiniteSet(mine)
    BY <2>3, FS_Subset
  <2> HIDE DEF mine, charged
  <2>5. /\ Cardinality(charged) <= Cardinality(mine)
        /\ Cardinality(charged) \in Nat /\ Cardinality(mine) \in Nat
    BY <2>2, <2>4, FS_Subset, FS_CardinalityType
  <2>6. repo.anomaly[a].weak <= 2 * Cardinality(mine)
    BY <2>2, <2>5
  <2> QED
    BY <2>1, <2>6 DEF mine
<1> QED
  BY <1>1, AgentsInvariant, PTL
=============================================================================
