------------------------------- MODULE Landing -------------------------------
(***************************************************************************)
(* From an edit in a workspace to a landed change: the verbs snapshot, try,*)
(* promote, undo, revert and workspace rewind of                           *)
(* crates/tessra-daemon/src/verbs.rs and the restack of stacked changes in *)
(* swarm.rs, on one daemon whose owner coordinates trunk.                  *)
(*                                                                         *)
(* A verb runs under the repository lock and is one step, except a landing *)
(* and the frontier pass (promote --to landed --all), which hold the lock  *)
(* over several ops: `job` is what they have left to do, and no other verb *)
(* runs meanwhile.  Agents write their files at any time, the lock held or *)
(* not.                                                                    *)
(*                                                                         *)
(* Revisions are numbered in the order they are stored, which is the order *)
(* of their times.  A change is named by its first revision.  A file is    *)
(* the set of the versions it holds: one, or several for a conflict entry. *)
(* A path stands for a unit, what the merge treats as a whole; files do    *)
(* not come or go.  Whether the standard of trunk is met is left open:     *)
(* any landing may be refused.                                             *)
(***************************************************************************)
EXTENDS Naturals, FiniteSets, Sequences

CONSTANTS
  Workspace,  \* the workspaces, each of one agent
  Root,       \* the owner's workspace; its owner coordinates trunk
  Path,       \* units of the tree
  Key,        \* idempotency keys of calls that are repeated
  Plays,      \* what a behaviour calls: verbs, those of them with such a key, the
              \* workspaces that act, the bound on revisions after the first
  MaxRev,     \* the largest of these bounds
  MaxEdit     \* bound: edits of a file

Once == "once"  \* a call without a key: the daemon draws a random one

ASSUME LandingAssumption ==
  /\ Root \in Workspace
  /\ Once \notin Key
  /\ MaxRev \in Nat /\ MaxEdit \in Nat
  /\ \A x \in Plays : Root \in x.spaces /\ x.spaces \subseteq Workspace /\ x.revs \in 0..MaxRev

RevId == 0..MaxRev

VARIABLES
  revs,      \* the revisions stored, by number
  tip,       \* tip[c]: the revision the view points change c at, {} for none
  proposed,  \* the view's proposed set
  trunk,     \* head and seq of trunk
  ws,        \* each workspace's current revision and files
  edits,     \* how many versions of files were written
  ops,       \* the ops an undo may name
  recorded,  \* recorded[w][k]: what the op of w's agent with key k points at first
  job,       \* what a landing or a pass in progress has left to do
  play       \* what this behaviour calls: its verbs, workspaces and bound

vars == <<revs, tip, proposed, trunk, ws, edits, ops, recorded, job, play>>

-----------------------------------------------------------------------------
(***************************************************************************)
(* Revisions and their merge.                                              *)
(***************************************************************************)
Least(S) == CHOOSE n \in S : \A m \in S : n <= m

\* Every revision reachable through parents, with the least number of links.
\* What it reaches is fixed when a revision is stored; the code walks.
ReachOf(id, parents) ==
  LET up == {parents[i] : i \in DOMAIN parents}
      all == UNION {DOMAIN revs[p].reach : p \in up}
  IN [r \in all \cup {id} |->
        IF r = id THEN 0
        ELSE 1 + Least({revs[p].reach[r] : p \in {q \in up : r \in DOMAIN revs[q].reach}})]

NewRev(id, change, prev, parents, files) ==
  [change |-> change, prev |-> prev, parents |-> parents,
   files |-> files, reach |-> ReachOf(id, parents)]

NextId == Cardinality(DOMAIN revs)

Store(id, rev) == [r \in DOMAIN revs \cup {id} |-> IF r = id THEN rev ELSE revs[r]]

\* landed_revisions: the head and what it reaches.
Landed == DOMAIN revs[trunk.head].reach

\* trunk_history: the first-parent chain of the head, here oldest first.
Chain ==
  LET upTo[n \in DOMAIN revs] ==
        IF revs[n].parents = <<>> THEN <<n>> ELSE Append(upTo[revs[n].parents[1]], n)
  IN upTo[trunk.head]

History == {Chain[i] : i \in DOMAIN Chain}

\* revision_lca: least combined depth.  Ties break on the ID, a hash.
CommonBases(a, b) ==
  LET both == DOMAIN revs[a].reach \cap DOMAIN revs[b].reach
      far(r) == revs[a].reach[r] + revs[b].reach[r]
  IN {r \in both : \A s \in both : far(r) <= far(s)}

Clashes(b, x, y) == {p \in Path : x[p] # b[p] /\ y[p] # b[p] /\ x[p] # y[p]}

Merged(b, x, y) ==
  [p \in Path |-> IF x[p] = b[p] THEN y[p]
                  ELSE IF p \in Clashes(b, x, y) THEN x[p] \cup y[p] ELSE x[p]]

Conflicted(files) == \E p \in Path : Cardinality(files[p]) > 1

-----------------------------------------------------------------------------
(***************************************************************************)
(* Ops.  A repeated key answers with the earlier op and records nothing.   *)
(***************************************************************************)
Repeated(w, k) == k # Once /\ recorded[w][k] # {}

Record(w, k, first) ==
  recorded' = IF k = Once \/ Repeated(w, k) THEN recorded
              ELSE [recorded EXCEPT ![w][k] = {first}]

\* Faulty variant of PointLegal: the version it replaces is not looked at.
PointLegalAny(change, prev) == tip[change] = {} \/ prev # {}

\* check_legality of a point: a landed change stays, and a new revision names
\* the version it replaces.
PointLegal(change, prev) ==
  tip[change] # {} => prev = tip[change] /\ tip[change] \cap Landed = {}

\* An op as an undo reads it: its point as <<change, to, from>>, and the
\* proposals it added and removed.  A final op is never undone.
OpOf(w, point, adds, drops, final) ==
  [author |-> w, point |-> point, adds |-> adds, drops |-> drops, final |-> final]

Log(op) == ops' = IF "undo" \in play.verbs THEN ops \cup {op} ELSE ops

Idle == job.todo = {} /\ job.left = {}

NoJob == [todo |-> {}, tried |-> {}, left |-> {}, rev |-> 0, landing |-> 0, key |-> Once]

\* What is left once the workspaces of `left` are to be restacked.
Left(j, left) ==
  IF left # {} THEN [j EXCEPT !.left = left]
  ELSE IF j.todo = {} THEN NoJob ELSE [j EXCEPT !.left = {}, !.rev = 0, !.landing = 0]

-----------------------------------------------------------------------------
(***************************************************************************)
(* Workspaces.                                                             *)
(***************************************************************************)

\* Any tool writes a file of a workspace; a conflicted one is resolved by it.
Edit(w, p) ==
  /\ edits < MaxEdit
  /\ edits' = edits + 1
  /\ ws' = [ws EXCEPT ![w].files[p] = {edits'}]
  /\ UNCHANGED <<revs, tip, proposed, trunk, ops, recorded, job, play>>

\* The revision a snapshot of w records: a new change on a landed revision,
\* the next version of the change otherwise.
SnapshotOf(w, id) ==
  LET cur == ws[w].current
  IN IF cur \in Landed
     THEN NewRev(id, id, {}, <<cur>>, ws[w].files)
     ELSE NewRev(id, revs[cur].change, {cur}, revs[cur].parents, ws[w].files)

Snapshot(w, k) ==
  LET id == NextId
      rev == SnapshotOf(w, id)
      kept == IF Repeated(w, k) THEN recorded[w][k] \cap RevId ELSE {}
  IN /\ Idle /\ "snapshot" \in play.verbs /\ id <= play.revs
     /\ ws[w].files # revs[ws[w].current].files
     /\ Repeated(w, k) \/ PointLegal(rev.change, rev.prev)
     /\ revs' = Store(id, rev)
     /\ tip' = IF Repeated(w, k) THEN tip ELSE [tip EXCEPT ![rev.change] = {id}]
     /\ ws' = [ws EXCEPT ![w].current = IF kept = {} THEN id ELSE Least(kept)]
     /\ Record(w, k, id)
     /\ IF Repeated(w, k) THEN UNCHANGED ops
        ELSE Log(OpOf(w, {<<rev.change, id, tip[rev.change]>>}, {}, {}, FALSE))
     /\ UNCHANGED <<proposed, trunk, edits, job, play>>

\* A candidate edit as a change of its own on the current revision.
Try(w, p) ==
  LET id == NextId
      cur == ws[w].current
  IN /\ Idle /\ "try" \in play.verbs /\ id <= play.revs /\ edits < MaxEdit
     /\ edits' = edits + 1
     /\ revs' = Store(id, NewRev(id, id, {}, <<cur>>,
                                 [revs[cur].files EXCEPT ![p] = {edits'}]))
     /\ tip' = [tip EXCEPT ![id] = {id}]
     /\ Log(OpOf(w, {<<id, id, {}>>}, {}, {}, FALSE))
     /\ UNCHANGED <<proposed, trunk, ws, recorded, job, play>>

\* workspace --action rewind, or create --from, to any stored revision.
Rewind(w, r) ==
  /\ Idle /\ "rewind" \in play.verbs
  /\ ws' = [ws EXCEPT ![w] = [current |-> r, files |-> revs[r].files]]
  /\ UNCHANGED <<revs, tip, proposed, trunk, edits, ops, recorded, job, play>>

\* promote --to proposed.
Propose(w, k) ==
  LET r == ws[w].current
  IN /\ Idle /\ "propose" \in play.verbs
     /\ r \notin Landed /\ r \notin proposed /\ ~Conflicted(revs[r].files)
     /\ ~Repeated(w, k)
     /\ proposed' = proposed \cup {r}
     /\ Record(w, k, MaxRev + 1)
     /\ Log(OpOf(w, {}, {r}, {}, FALSE))
     /\ UNCHANGED <<revs, tip, trunk, ws, edits, job, play>>

-----------------------------------------------------------------------------
(***************************************************************************)
(* Landing.  LandOne lands revision r, held by workspace w; `rest` is what *)
(* the caller has to do afterwards.  An op that is rejected ends it with   *)
(* nothing changed.                                                        *)
(***************************************************************************)
\* Faulty variant of Hold: a workspace that proposed the revision keeps it.
HoldUnproposed(from, to) ==
  [v \in Workspace |-> IF ws[v].current = from /\ from \notin proposed
                       THEN [ws[v] EXCEPT !.current = to] ELSE ws[v]]

Hold(from, to) ==
  [v \in Workspace |-> IF ws[v].current = from THEN [ws[v] EXCEPT !.current = to] ELSE ws[v]]

SameChange(r) == {q \in proposed : revs[q].change = revs[r].change}

\* Faulty variant of Advance: an earlier proposal of the change is left.
AdvanceOneProposal(r, files, k, rest) ==
  LET id == NextId IN
  /\ revs' = Store(id, NewRev(id, revs[r].change, {r}, <<trunk.head, r>>, files))
  /\ IF Repeated(Root, k)
     THEN UNCHANGED <<tip, proposed, trunk, ops>>
     ELSE /\ tip' = [tip EXCEPT ![revs[r].change] = {id}]
          /\ proposed' = proposed \ {r}
          /\ trunk' = [head |-> id, seq |-> trunk.seq + 1]
          /\ Log(OpOf(Root, {<<revs[r].change, id, tip[revs[r].change]>>}, {}, {}, TRUE))
  /\ ws' = Hold(r, id)
  /\ Record(Root, k, id)
  /\ job' = [rest EXCEPT !.left = play.spaces, !.rev = r, !.landing = id]

\* The landing op: the head moves, every proposal of the change leaves, the
\* change is pointed at the landing; then the workspaces that held r move to
\* the landing, keeping their files.
Advance(r, files, k, rest) ==
  LET id == NextId IN
  /\ revs' = Store(id, NewRev(id, revs[r].change, {r}, <<trunk.head, r>>, files))
  /\ IF Repeated(Root, k)
     THEN UNCHANGED <<tip, proposed, trunk, ops>>
     ELSE /\ tip' = [tip EXCEPT ![revs[r].change] = {id}]
          /\ proposed' = proposed \ SameChange(r)
          /\ trunk' = [head |-> id, seq |-> trunk.seq + 1]
          /\ Log(OpOf(Root, {<<revs[r].change, id, tip[revs[r].change]>>},
                      {}, SameChange(r), TRUE))
  /\ ws' = Hold(r, id)
  /\ Record(Root, k, id)
  /\ job' = [rest EXCEPT !.left = play.spaces, !.rev = r, !.landing = id]

\* record_conflict: the change is pointed at the conflicted merge, which
\* workspace w's files become; nothing lands.
RecordConflict(w, r, files, k, rest) ==
  LET id == NextId IN
  /\ revs' = Store(id, NewRev(id, revs[r].change, {r}, <<trunk.head, r>>, files))
  /\ IF Repeated(Root, k)
     THEN UNCHANGED <<tip, ops>>
     ELSE /\ tip' = [tip EXCEPT ![revs[r].change] = {id}]
          /\ Log(OpOf(Root, {<<revs[r].change, id, tip[revs[r].change]>>}, {}, {}, FALSE))
  /\ ws' = [Hold(r, id) EXCEPT ![w].files = files]
  /\ Record(Root, k, id)
  /\ job' = Left(rest, {})
  /\ UNCHANGED <<proposed, trunk>>

LandOne(w, r, k, rest) ==
  LET head == revs[trunk.head].files
      mine == revs[r].files
  IN /\ NextId <= play.revs
     /\ Repeated(Root, k) \/ PointLegal(revs[r].change, {r})
     /\ \/ /\ revs[r].parents[1] = trunk.head
           /\ Advance(r, mine, k, rest)
        \/ /\ revs[r].parents[1] # trunk.head
           /\ \E b \in CommonBases(trunk.head, r) :
                LET base == revs[b].files
                IN IF Clashes(base, head, mine) = {}
                   THEN Advance(r, Merged(base, head, mine), k, rest)
                   ELSE RecordConflict(w, r, Merged(base, head, mine), k, rest)
     /\ UNCHANGED <<edits, play>>

\* promote --to landed, by the owner from the owner's workspace.
LandOwn(k) ==
  LET r == ws[Root].current
  IN /\ Idle /\ "land" \in play.verbs
     /\ r \notin Landed /\ ~Conflicted(revs[r].files)
     /\ LandOne(Root, r, k, NoJob)

\* promote --to landed --all: the proposals that have not landed, by time.
StartPass(k) ==
  /\ Idle /\ "all" \in play.verbs
  /\ proposed \ Landed # {}
  /\ job' = [NoJob EXCEPT !.todo = proposed \ Landed, !.key = k]
  /\ UNCHANGED <<revs, tip, proposed, trunk, ws, edits, ops, recorded, play>>

\* Faulty variant of Untried: every proposed revision is tried.
UntriedRevision(change) == TRUE

Untried(change) == change \notin job.tried

\* The pass takes the next proposal: of a change it has not tried, at the
\* version the change is at now, in a workspace that holds it.  Any of the
\* landings may be refused.
PassNext ==
  LET first == Least(job.todo)
      change == revs[first].change
      r == IF Cardinality(tip[change]) = 1 THEN Least(tip[change]) ELSE first
      rest == [job EXCEPT !.todo = @ \ {first}, !.tried = @ \cup {change}]
      skip == /\ job' = Left(rest, {})
              /\ UNCHANGED <<revs, tip, proposed, trunk, ws, edits, ops, recorded, play>>
  IN /\ job.todo # {} /\ job.left = {}
     /\ \/ skip
        \/ /\ Untried(change)
           /\ \E w \in Workspace : ws[w].current = r /\ LandOne(w, r, job.key, rest)

\* restack_children, one workspace: the revision it holds, if it was built on
\* the one that landed and its files are as recorded, is merged onto the
\* landing.  The rule on landed changes excepts a restack; an op rejected for
\* the version it replaces ends the landing it follows.
Restack(w) ==
  LET x == ws[w].current
      id == NextId
      base == revs[job.rev].files
      onto == revs[job.landing].files
      mine == revs[x].files
      applies == /\ x \notin {job.rev, job.landing} \cup Landed
                 /\ revs[x].parents[1] = job.rev
                 /\ ws[w].files = mine
                 /\ Clashes(base, onto, mine) = {}
      files == Merged(base, onto, mine)
      change == revs[x].change
  IN /\ w \in job.left
     /\ \/ /\ ~applies
           /\ job' = Left(job, job.left \ {w})
           /\ UNCHANGED <<revs, tip, proposed, ws, ops>>
        \/ /\ applies /\ tip[change] \notin {{}, {x}}
           /\ job' = Left(job, {})
           /\ UNCHANGED <<revs, tip, proposed, ws, ops>>
        \/ /\ applies /\ tip[change] \in {{}, {x}} /\ id <= play.revs
           /\ revs' = Store(id, NewRev(id, change, {x}, <<job.landing, x>>, files))
           /\ tip' = [tip EXCEPT ![change] = {id}]
           /\ proposed' = IF x \in proposed THEN (proposed \ {x}) \cup {id} ELSE proposed
           /\ ws' = [ws EXCEPT ![w] = [current |-> id, files |-> files]]
           /\ Log(OpOf(Root, {<<change, id, tip[change]>>},
                       {id} \cap proposed', proposed \cap {x}, FALSE))
           /\ job' = Left(job, job.left \ {w})
     /\ UNCHANGED <<trunk, edits, recorded, play>>

\* Faulty variant of WithoutChange: the landed revision and what was before it
\* change places.
WithoutChangeSwapped(r) ==
  Merged(revs[revs[r].parents[1]].files, revs[trunk.head].files, revs[r].files)

\* The head without what landing r brought, at unit granularity.
WithoutChange(r) ==
  Merged(revs[r].files, revs[trunk.head].files, revs[revs[r].parents[1]].files)

\* revert of a landed change by the owner: a change of its own, which lands at
\* once under the key of the call.
Revert(r, k) ==
  LET id == NextId
      head == revs[trunk.head]
      undone == NewRev(id, id, {}, <<trunk.head>>, WithoutChange(r))
      landing == [undone EXCEPT !.prev = {id}, !.parents = <<trunk.head, id>>,
                    !.reach = [q \in Landed \cup {id, id + 1} |->
                                 CASE q = id + 1 -> 0 [] q = id -> 1
                                   [] OTHER -> 1 + head.reach[q]]]
  IN /\ Idle /\ "revert" \in play.verbs /\ id < play.revs
     /\ r \in History \ {0}
     /\ Clashes(revs[r].files, head.files, revs[revs[r].parents[1]].files) = {}
     /\ ~Repeated(Root, k)
     /\ revs' = [q \in DOMAIN revs \cup {id, id + 1} |->
                   CASE q = id -> undone [] q = id + 1 -> landing [] OTHER -> revs[q]]
     /\ Record(Root, k, id)
     /\ tip' = [tip EXCEPT ![id] = {IF k = Once THEN id + 1 ELSE id}]
     /\ trunk' = IF k = Once THEN [head |-> id + 1, seq |-> trunk.seq + 1] ELSE trunk
     /\ UNCHANGED <<proposed, ws, edits, ops, job, play>>

-----------------------------------------------------------------------------
(***************************************************************************)
(* undo of an op of one's own.                                             *)
(***************************************************************************)

\* The change is where the op left it.
Unmoved(pt) == tip[pt[1]] = {pt[2]}

\* A workspace on the revision the op pointed at goes back to what the op moved
\* from, or to that revision's parent, with its files.
FallBack(w, points) ==
  IF \E pt \in points : pt[2] = ws[w].current
  THEN LET pt == CHOOSE x \in points : x[2] = ws[w].current
           back == IF pt[3] = {} THEN revs[pt[2]].parents[1] ELSE Least(pt[3])
       IN [current |-> back, files |-> revs[back].files]
  ELSE ws[w]

\* Refused for a landing, for what has no inverse (an unpoint), and when the
\* change has moved on.  The inverse of a first point is an unpoint.
Undo(w, op) ==
  /\ Idle /\ "undo" \in play.verbs
  /\ op.author = w /\ ~op.final
  /\ \A pt \in op.point :
       /\ Unmoved(pt)
       /\ \A from \in pt[3] : PointLegal(pt[1], revs[from].prev)
  /\ tip' = [c \in RevId |-> IF \E pt \in op.point : pt[1] = c
                             THEN (CHOOSE pt \in op.point : pt[1] = c)[3] ELSE tip[c]]
  /\ proposed' = (proposed \ op.adds) \cup op.drops
  /\ ws' = [ws EXCEPT ![w] = FallBack(w, op.point)]
  /\ ops' = ops \cup {OpOf(w, {<<pt[1], Least(pt[3]), {pt[2]}>> :
                                 pt \in {q \in op.point : q[3] # {}}},
                           op.drops, op.adds, \E pt \in op.point : pt[3] = {})}
  /\ UNCHANGED <<revs, trunk, edits, recorded, job, play>>

-----------------------------------------------------------------------------
Init ==
  LET start == [p \in Path |-> {0}]
  IN /\ revs = [r \in {0} |-> [change |-> 0, prev |-> {}, parents |-> <<>>,
                               files |-> start, reach |-> [q \in {0} |-> 0]]]
     /\ tip = [c \in RevId |-> IF c = 0 THEN {0} ELSE {}]
     /\ proposed = {}
     /\ trunk = [head |-> 0, seq |-> 0]
     /\ ws = [w \in Workspace |-> [current |-> 0, files |-> start]]
     /\ edits = 0
     /\ ops = {}
     /\ recorded = [w \in Workspace |-> [k \in Key |-> {}]]
     /\ job = NoJob
     /\ play \in Plays

\* The keys a verb is called with.
Keys(verb) == IF verb \in play.keyed THEN Key \cup {Once} ELSE {Once}

Next ==
  \/ \E w \in play.spaces, p \in Path : Edit(w, p) \/ Try(w, p)
  \/ \E w \in play.spaces, k \in Keys("snapshot") : Snapshot(w, k)
  \/ \E w \in play.spaces, k \in Keys("propose") : Propose(w, k)
  \/ \E k \in Keys("land") : LandOwn(k)
  \/ \E k \in Keys("all") : StartPass(k)
  \/ PassNext
  \/ \E w \in play.spaces : Restack(w)
  \/ \E r \in DOMAIN revs, k \in Keys("revert") : Revert(r, k)
  \/ \E w \in play.spaces, r \in DOMAIN revs : Rewind(w, r)
  \/ \E w \in play.spaces, op \in ops : Undo(w, op)

Spec == Init /\ [][Next]_vars

-----------------------------------------------------------------------------
(***************************************************************************)
(* Correctness.                                                            *)
(***************************************************************************)
\* Trunk is one serial history: what land_one builds (a merge onto the head it
\* read, one head effect with the next seq) implements the abstract line, where
\* a change lands once and nothing landed is taken away, whatever workspaces
\* rewound, tried, restacked, undid or reverted in between.
Line == INSTANCE Trunk WITH
  Change <- RevId,
  First <- 0,
  log <- [i \in DOMAIN Chain |-> revs[Chain[i]].change],
  seq <- trunk.seq
SerialTrunk == Line!Spec

\* A landed revision is immutable (spec/03-operations.md, stages): once a change
\* is at a landed revision, no snapshot, conflict, restack or undo moves it,
\* from whatever revision a workspace was put on.  One that landed under a change
\* stacked on it, and has no landing of its own, can still lose its pointer:
\* check_legality has no rule for the unpoint that undoes its first snapshot.
LandedIsImmutable ==
  [][\A c \in RevId : tip[c] # {} /\ tip[c] \subseteq Landed =>
       \/ tip'[c] = tip[c]
       \/ tip'[c] = {} /\ \A l \in History : revs[l].change # c]_vars

\* A workspace goes nowhere but with what it holds: it is not rewound, and no
\* snapshot and no landing is repeated under its key.
Undisturbed ==
  "rewind" \notin play.verbs /\ play.keyed \cap {"snapshot", "land", "all"} = {}

\* land_one withdraws every proposal of the change it lands, those a conflict or
\* a later snapshot left behind included: no change of trunk stays proposed.
\* (An old version can be proposed again by the undo of an undo, from a rewound
\* workspace, or from one that a repeated snapshot or landing put on a version the
\* view does not point at.)
ProposalsAreOpen ==
  Undisturbed /\ "undo" \notin play.verbs =>
  \A p \in proposed, l \in History : revs[p].change # revs[l].change

\* An agent that never rewinds its workspace can always snapshot: the workspace is on
\* a landed revision, or on the version its change is at, whatever landed, conflicted,
\* was undone or restacked under it, and also in the middle of a pass.  (A snapshot
\* repeated late puts the workspace on what its key first recorded.  A landing whose key
\* was used before is taken for a retry and lands nothing, and its workspaces move to
\* the revision that did not land.)
WorkspaceIsAtTip ==
  Undisturbed =>
  \A w \in Workspace :
    LET cur == ws[w].current
    IN cur \notin Landed => tip[revs[cur].change] = {cur}

\* The frontier pass tries a change once (land_all, `attempted`): a change it
\* ran into a conflict with does not land in the same pass.
OneAttemptPerPass ==
  [][job.todo # {} /\ trunk'.head # trunk.head
       => revs'[trunk'.head].change \notin job.tried]_vars

\* revert takes back what the change brought and nothing else: a unit of the
\* head that the change wrote is as it was before the change, and every other
\* unit keeps what landed since.
RevertKeepsTheRest ==
  [][\A r \in History \ {0} : Revert(r, Once) =>
       LET head == revs[trunk.head].files
           before == revs[revs[r].parents[1]].files
           after == revs'[trunk'.head].files
       IN \A p \in Path : after[p] = IF before[p] = revs[r].files[p] THEN head[p] ELSE before[p]]_vars

-----------------------------------------------------------------------------
(***************************************************************************)
(* What the documentation says and the code does not do.                   *)
(***************************************************************************)

\* Agents that edit different units never conflict and both edits hold: no
\* landing puts an older version of a unit back on trunk.  (Versions are
\* numbered in the order they are written; a conflict holds several.)
TrunkNeverGoesBack ==
  [][\A p \in Path : \A old \in revs[trunk.head].files[p] :
       \E new \in revs'[trunk'.head].files[p] : new >= old]_vars
=============================================================================
