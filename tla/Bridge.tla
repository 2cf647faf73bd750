------------------------------- MODULE Bridge -------------------------------
(***************************************************************************)
(* The Git bridge (bridge.rs, gitimport.rs): trunk exported to a branch,   *)
(* one commit per landed revision, and the commits of a branch imported as *)
(* landings.                                                               *)
(*                                                                         *)
(* trunk is the chain of landed revisions, oldest first; from is the       *)
(* commit the body of an imported revision names.  keys is what the        *)
(* store's metadata says: the commit of a revision, the revision of a      *)
(* commit, and the commit a refused export wrote.  git is outside the      *)
(* repository: its commits, branches, the files of the checkout of Main    *)
(* and what it ignores.  root is the workspace of that checkout: the       *)
(* landed revision it is at, and the files of a snapshot that has not      *)
(* landed.                                                                 *)
(*                                                                         *)
(* A tree gives each path the version it holds, Absent for none; versions  *)
(* are numbered as they are written.  A commit is named by what it holds,  *)
(* as in git: writing the same one again gives the same commit.  0 stands  *)
(* for no commit and no revision.  A call is one step, under the lock; a   *)
(* daemon that stops in one leaves the writes it made.                     *)
(***************************************************************************)
EXTENDS Naturals, FiniteSets, Sequences, SequencesExt

CONSTANTS Path, Branch,
          Main,                   \* the branch that is checked out and imported
          Plays,                  \* what happens in a behaviour
          MaxTrunk, MaxCommit, MaxEdit   \* bounds

ASSUME BridgeAssumption ==
    /\ Main \in Branch
    /\ {MaxTrunk, MaxCommit, MaxEdit} \subseteq Nat

VARIABLES trunk, keys, git, root,
          edits,                  \* the versions written so far
          exported,               \* how much of trunk the last export to a branch covered
          play

vars == <<trunk, keys, git, root, edits, exported, play>>

Absent == 0
-----------------------------------------------------------------------------
(* Git.                                                                    *)

(* A commit and those it was made on. *)
Ancestors(commits, c) ==
    LET line[i \in 0 .. Len(commits)] == IF i = 0 THEN {} ELSE {i} \cup line[commits[i].parent]
    IN  line[c]

HeadOf(g) == g.refs[Main]

TreeOf(g, c) == g.commits[c].tree

(* The commit with this content, written if there is none. *)
Written(commits, c) ==
    IF \E i \in DOMAIN commits : commits[i] = c
    THEN [commits |-> commits, id |-> CHOOSE i \in DOMAIN commits : commits[i] = c]
    ELSE [commits |-> Append(commits, c), id |-> Len(commits) + 1]

(* What git ignores, a path it already tracks exempt. *)
Ignores(g) == {p \in g.ignored : TreeOf(g, HeadOf(g))[p] = Absent}

Changed(g, a, b) == {p \in Path : TreeOf(g, a)[p] # TreeOf(g, b)[p]}

(* merge --ff-only: whether git takes it.  A file that is not as in HEAD is not
   overwritten. *)
FastForwards(g, tip) ==
    \/ tip \in Ancestors(g.commits, HeadOf(g))
    \/ /\ HeadOf(g) \in Ancestors(g.commits, tip)
       /\ \A p \in Changed(g, HeadOf(g), tip) : g.work[p] = TreeOf(g, HeadOf(g))[p]

FastForward(g, tip) ==
    IF tip \in Ancestors(g.commits, HeadOf(g)) THEN g
    ELSE [g EXCEPT !.refs[Main] = tip,
                   !.work = [p \in Path |-> IF p \in Changed(g, HeadOf(g), tip)
                                            THEN TreeOf(g, tip)[p] ELSE @[p]]]

-----------------------------------------------------------------------------
(* Revisions and their commits.                                            *)

(* Faulty variant of CommitOf: the mapping alone. *)
CommitOfMapped(r) == keys.rev[r]

(* The mapping, or else the commit the body names. *)
CommitOf(r) == IF keys.rev[r] # 0 THEN keys.rev[r] ELSE trunk[r].from

RevisionOf(c) == keys.commit[c]

(* Three writes for each revision mapped: its commit, the commit's revision, and
   that nothing is pending.  Those the daemon made before it stopped. *)
Remember(k, mapped, writes) ==
    [rev     |-> [r \in DOMAIN k.rev |->
                    IF \E i \in DOMAIN mapped : mapped[i][1] = r /\ writes > 3 * (i - 1)
                    THEN (CHOOSE m \in Range(mapped) : m[1] = r)[2] ELSE k.rev[r]],
     commit  |-> [c \in DOMAIN k.commit |->
                    IF \E i \in DOMAIN mapped : mapped[i][2] = c /\ writes > 3 * (i - 1) + 1
                    THEN (CHOOSE m \in Range(mapped) : m[2] = c)[1] ELSE k.commit[c]],
     pending |-> [r \in DOMAIN k.pending |->
                    IF \E i \in DOMAIN mapped : mapped[i][1] = r /\ writes > 3 * (i - 1) + 2
                    THEN 0 ELSE k.pending[r]]]

Pend(k, mapped) ==
    [k EXCEPT !.pending = [r \in DOMAIN @ |-> IF \E m \in Range(mapped) : m[1] = r
                                              THEN (CHOOSE m \in Range(mapped) : m[1] = r)[2]
                                              ELSE @[r]]]

(* Faulty variant of FollowCheckout: it goes to the head of trunk. *)
FollowCheckoutToHead(k, g) ==
    IF k.commit[HeadOf(g)] = 0 \/ root.unlanded # << >> THEN root ELSE [root EXCEPT !.at = Len(trunk)]

(* The workspace of the checkout goes to the revision HEAD's commit maps to,
   unless it holds work that has not landed. *)
FollowCheckout(k, g) ==
    IF k.commit[HeadOf(g)] = 0 \/ root.unlanded # << >> THEN root
    ELSE [root EXCEPT !.at = k.commit[HeadOf(g)]]

-----------------------------------------------------------------------------
(* Export.                                                                 *)

(* Faulty variant of OnBranch: what the branch is at. *)
OnBranchTip(c, b) == IF git.refs[b] # 0 THEN c = git.refs[b] ELSE \E o \in Branch : c = git.refs[o]

(* A branch that does not exist yet starts from what the others have. *)
OnBranch(c, b) ==
    IF git.refs[b] # 0 THEN c \in Ancestors(git.commits, git.refs[b])
    ELSE \E o \in Branch : c \in Ancestors(git.commits, git.refs[o])

(* The newest revision that is a commit on the branch. *)
Start(b) ==
    LET there == {r \in DOMAIN trunk : CommitOf(r) # 0 /\ OnBranch(CommitOf(r), b)}
    IN  CHOOSE r \in there \cup {0} : \A o \in there : o <= r

WriteGitTree(r) == [p \in Path |-> IF p \in Ignores(git) THEN Absent ELSE trunk[r].tree[p]]

(* Faulty variant of CommitIs: the parent alone is compared. *)
CommitIsOnParent(commits, c, tree, parent) == c # 0 /\ commits[c].parent = parent

CommitIs(commits, c, tree, parent) ==
    /\ c # 0
    /\ commits[c].tree = tree /\ commits[c].parent = parent

(* The commits of the revisions after the newest on the branch, in trunk order;
   a pending one is taken when it is what would be written now. *)
ExportOf(b) ==
    LET start == Start(b)
        upTo[r \in start .. Len(trunk)] ==
            IF r = start
            THEN [commits |-> git.commits, tip |-> IF start = 0 THEN 0 ELSE CommitOf(start),
                  mapped |-> << >>, created |-> 0]
            ELSE LET w     == upTo[r - 1]
                     tree  == WriteGitTree(r)
                     reuse == CommitIs(w.commits, keys.pending[r], tree, w.tip)
                     new   == IF reuse THEN [commits |-> w.commits, id |-> keys.pending[r]]
                              ELSE Written(w.commits, [tree |-> tree, parent |-> w.tip, of |-> r])
                 IN  [commits |-> new.commits, tip |-> new.id,
                      mapped  |-> Append(w.mapped, <<r, new.id>>),
                      created |-> w.created + (IF reuse THEN 0 ELSE 1)]
    IN  upTo[Len(trunk)]

(* Whether the files of the checkout are the tip's already, as far as it tracks
   them. *)
CheckoutHolds(g, tip) ==
    \A p \in Path : TreeOf(g, tip)[p] # Absent => g.work[p] = TreeOf(g, tip)[p]

(* Where git is once the branch is to be at the tip, and whether it is. *)
MoveBranch(g, b, tip) ==
    IF b # Main THEN [ok |-> TRUE, git |-> [g EXCEPT !.refs[b] = tip]]
    ELSE IF FastForwards(g, tip) THEN [ok |-> TRUE, git |-> FastForward(g, tip)]
    ELSE IF CheckoutHolds(g, tip) THEN [ok |-> TRUE, git |-> [g EXCEPT !.refs[Main] = tip]]
    ELSE [ok |-> FALSE, git |-> g]

(* export --format git: the branch moves, and only then are the commits the
   revisions'.  A refused export leaves them pending. *)
Export(b, writes) ==
    \E out \in {ExportOf(b)} :
      /\ Len(out.commits) <= MaxCommit
      /\ \E moved \in {MoveBranch([git EXCEPT !.commits = out.commits], b, out.tip)} :
           LET done == writes = 3 * Len(out.mapped)
           IN  /\ git' = moved.git
               /\ \/ /\ ~moved.ok /\ writes = 0
                     /\ keys' = Pend(keys, out.mapped)
                     /\ UNCHANGED <<root, exported>>
                  \/ /\ moved.ok /\ writes <= 3 * Len(out.mapped)
                     /\ ~done => "export" \in play.cuts
                     /\ keys' = Remember(keys, out.mapped, writes)
                     /\ root' = IF done /\ b = Main THEN FollowCheckout(keys', git') ELSE root
                     /\ exported' = IF done THEN [exported EXCEPT ![b] = Len(trunk)] ELSE exported
      /\ UNCHANGED <<trunk, edits, play>>

-----------------------------------------------------------------------------
(* Import.                                                                 *)

(* The commits after the one of the newest revision that has any, oldest first,
   but for those trunk knows. *)
Unknown ==
    LET with  == {r \in DOMAIN trunk : CommitOf(r) # 0}
        known == IF with = {} THEN 0 ELSE CommitOf(CHOOSE r \in with : \A o \in with : o <= r)
        range == Ancestors(git.commits, HeadOf(git)) \ Ancestors(git.commits, known)
    IN  SelectSeq(SetToSortSeq(range, LAMBDA a, b : a \in Ancestors(git.commits, b)),
                  LAMBDA c : RevisionOf(c) = 0)

(* The commit's tree on the head: the content of the commit is the next trunk
   revision. *)
RevisionFor(c) == [tree |-> TreeOf(git, c), from |-> c]

(* import: the first n commits land, and the next, if any, is refused; each is
   remembered once it has landed.  A daemon that stops does so in the writes of
   the last one. *)
Import(n, cut, writes) ==
    \E commits \in {Unknown} :
      /\ n <= Len(commits) /\ Len(trunk) + n <= MaxTrunk
      /\ IF cut THEN n > 0 /\ "import" \in play.cuts /\ writes \in 0 .. 1 ELSE writes = 2
      /\ LET mapped == [i \in 1 .. n |-> <<Len(trunk) + i, commits[i]>>]
             before == Remember(keys, SubSeq(mapped, 1, n - 1), 3 * n)
         IN  /\ trunk' = trunk \o [i \in 1 .. n |-> RevisionFor(commits[i])]
             /\ keys' = IF n = 0 THEN keys ELSE Remember(before, <<mapped[n]>>, writes)
             /\ root' = IF cut THEN root ELSE FollowCheckout(keys', git)
      /\ UNCHANGED <<git, edits, exported, play>>

-----------------------------------------------------------------------------
(* Landings, and what is done with git itself.                             *)

LandTree(tree) ==
    /\ Len(trunk) < MaxTrunk
    /\ trunk' = Append(trunk, [tree |-> tree, from |-> 0])

(* An agent lands an edit of a unit, from a workspace of its own. *)
LandElsewhere(p) ==
    /\ edits < MaxEdit /\ p \notin git.ignored
    /\ edits' = edits + 1
    /\ LandTree([Last(trunk).tree EXCEPT ![p] = edits'])
    /\ UNCHANGED <<keys, git, root, exported, play>>

(* The owner edits the checkout, and records it: all but what git ignores. *)
Edit(p) ==
    /\ edits < MaxEdit
    /\ edits' = edits + 1
    /\ git' = [git EXCEPT !.work[p] = edits']
    /\ UNCHANGED <<trunk, keys, root, exported, play>>

Snapshot ==
    /\ LET base  == IF root.unlanded # << >> THEN root.unlanded[1] ELSE trunk[root.at].tree
           files == [p \in Path |-> IF p \in git.ignored THEN base[p] ELSE git.work[p]]
       IN  /\ files # base
           /\ root' = [root EXCEPT !.unlanded = <<files>>]
    /\ UNCHANGED <<trunk, keys, git, edits, exported, play>>

(* The owner's change lands, merged with what landed since. *)
LandHere ==
    /\ root.unlanded # << >>
    /\ LET base == trunk[root.at].tree
           mine == root.unlanded[1]
           head == Last(trunk).tree
       IN  /\ \A p \in Path : mine[p] = base[p] \/ head[p] \in {base[p], mine[p]}
           /\ LandTree([p \in Path |-> IF mine[p] = base[p] THEN head[p] ELSE mine[p]])
    /\ root' = [at |-> Len(trunk'), unlanded |-> << >>]
    /\ UNCHANGED <<keys, git, edits, exported, play>>

(* Commits made with git: pulled, or of the files of the checkout. *)
Pull(b, p) ==
    /\ play.git /\ git.refs[b] # 0
    /\ edits < MaxEdit /\ Len(git.commits) < MaxCommit
    /\ edits' = edits + 1
    /\ LET tree == [TreeOf(git, git.refs[b]) EXCEPT ![p] = edits']
           new  == Written(git.commits, [tree |-> tree, parent |-> git.refs[b], of |-> 0])
           g    == [git EXCEPT !.commits = new.commits]
       IN  IF b = Main THEN FastForwards(g, new.id) /\ git' = FastForward(g, new.id)
           ELSE git' = [g EXCEPT !.refs[b] = new.id]
    /\ UNCHANGED <<trunk, keys, root, exported, play>>

GitCommit ==
    /\ play.git /\ Len(git.commits) < MaxCommit
    /\ LET tree == [p \in Path |-> IF p \in Ignores(git) THEN Absent ELSE git.work[p]]
           new  == Written(git.commits, [tree |-> tree, parent |-> HeadOf(git), of |-> 0])
       IN  /\ tree # TreeOf(git, HeadOf(git))
           /\ git' = [git EXCEPT !.commits = new.commits, !.refs[Main] = new.id]
    /\ UNCHANGED <<trunk, keys, root, edits, exported, play>>

Ignore(p) ==
    /\ play.ignores /\ p \notin git.ignored
    /\ git' = [git EXCEPT !.ignored = @ \cup {p}]
    /\ UNCHANGED <<trunk, keys, root, edits, exported, play>>

-----------------------------------------------------------------------------
(* init of a checkout with one commit. *)
Init ==
    LET first == [p \in Path |-> Absent]
    IN  /\ play \in Plays
        /\ trunk = <<[tree |-> first, from |-> 1]>>
        /\ keys = [rev |-> [r \in 1 .. MaxTrunk |-> 0], commit |-> [c \in 1 .. MaxCommit |-> 0],
                   pending |-> [r \in 1 .. MaxTrunk |-> 0]]
        /\ git = [commits |-> <<[tree |-> first, parent |-> 0, of |-> 0]>>,
                  refs |-> [b \in Branch |-> IF b = Main THEN 1 ELSE 0],
                  work |-> first, ignored |-> {}]
        /\ root = [at |-> 1, unlanded |-> << >>]
        /\ edits = 0
        /\ exported = [b \in Branch |-> 0]

Next ==
    \/ \E p \in Path : LandElsewhere(p) \/ Edit(p) \/ Ignore(p)
    \/ Snapshot
    \/ LandHere
    \/ \E b \in play.branches, writes \in 0 .. 3 * MaxTrunk : Export(b, writes)
    \/ \E n \in 0 .. MaxTrunk, cut \in BOOLEAN, writes \in 0 .. 2 : Import(n, cut, writes)
    \/ \E b \in play.branches, p \in Path : Pull(b, p)
    \/ GitCommit

Spec == Init /\ [][Next]_vars

-----------------------------------------------------------------------------
(* Correctness.                                                            *)

(* A tree of trunk and the tree of a commit hold the same, but for what git
   ignores and the commit leaves out. *)
Agree(tree, commit) ==
    \A p \in Path : commit[p] = tree[p] \/ (commit[p] = Absent /\ p \in git.ignored)

(* A commit becomes a revision's by an export only if it is what an export would
   write now: the revision's content without what git ignores at this moment, on
   the commit of the revision before it.  Also when it is one a refused export
   left pending and the rules or the branch changed since (commit_is). *)
ExportIsExact ==
    [][\A r \in DOMAIN trunk : trunk' = trunk /\ keys'.rev[r] \notin {0, keys.rev[r]} =>
         LET c == git'.commits[keys'.rev[r]]
         IN  /\ c.tree = WriteGitTree(r)
             /\ c.parent = IF r = 1 THEN 0 ELSE CommitOf(r - 1)']_vars

(* The workspace of the checkout is moved to the revision whose files git put
   there, wherever trunk is by then: on any other, the next snapshot of the files
   would record the difference as the owner's change (follow_checkout). *)
FollowsFiles ==
    [][root'.unlanded = root.unlanded /\ root'.at # root.at =>
         Agree(trunk'[root'.at].tree, TreeOf(git', HeadOf(git')))]_vars

(* A commit lands once, however often it is imported and wherever the daemon
   stopped; and what an export wrote does not come back as a landing, unless
   the daemon stopped between the branch and the maps. *)
LandsOnce ==
    /\ \A i, j \in DOMAIN trunk : trunk[i].from # 0 /\ trunk[i].from = trunk[j].from => i = j
    /\ "export" \notin play.cuts =>
         \A i \in DOMAIN trunk : trunk[i].from # 0 => git.commits[trunk[i].from].of = 0

(* A second export of the same trunk to the branch creates nothing, whatever git
   and the other exports did in between. *)
SecondExportCreatesNothing ==
    \A b \in play.branches : exported[b] = Len(trunk) => ExportOf(b).created = 0

-----------------------------------------------------------------------------
(* What the documentation says and the code does not do.                   *)

(* An import merges a commit that was not made on the head (bridge.rs): a unit the
   commit leaves as its parent has it stays as it is on trunk. *)
ImportMerges ==
    [][\A i \in DOMAIN trunk' \ DOMAIN trunk :
         trunk'[i].from # 0 =>
           LET c == git.commits[trunk'[i].from]
           IN  \A p \in Path : c.parent # 0 /\ c.tree[p] = TreeOf(git, c.parent)[p]
                                 => trunk'[i].tree[p] = trunk'[i - 1].tree[p]]_vars

=============================================================================
