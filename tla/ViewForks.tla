------------------------------ MODULE ViewForks ------------------------------
(***************************************************************************)
(* Concurrent writers and the merge of what they wrote.  A base view is    *)
(* written from the state init leaves; then each side writes on its own    *)
(* copy, knowing nothing of the others, as writers at the op log's heads   *)
(* do.  The properties say what the merge owes to the sides.               *)
(***************************************************************************)
EXTENDS ViewMerge

CONSTANTS
  Sides,       \* number of concurrent writers; a writer's number orders its op ID
  InitLine,    \* the line init creates (trunk)
  Campaign     \* what is explored: the kinds of effects the writers use (kinds),
               \* the IDs they name (ids), and bounds on the effects and joins
               \* written while there is one head (maxBase) and on the effects
               \* written by each side (maxSide)

ASSUME ForkAssumption ==
  /\ InitLine \in Line
  /\ 1 \in Principal /\ 1 \in Id
  /\ Sides \in Nat \ {0}
  /\ \A c \in Campaign : c.ids \subseteq Id /\ c.maxBase \in Nat /\ c.maxSide \in Nat

Side == 1..Sides

VARIABLES
  base,     \* the view of the latest common ancestor
  side,     \* the view of each side
  written,  \* how many effects each side has written; 0 is the base
  forked,   \* whether the sides have parted
  campaign  \* the one this behaviour belongs to

vars == <<base, side, written, forked, campaign>>

-----------------------------------------------------------------------------
(***************************************************************************)
(* The effects an op may carry on view v: those that pass check_legality   *)
(* (verify.rs, step 7).  A point may resolve a conflict to one of its      *)
(* sides or to another version.                                            *)
(***************************************************************************)
LegalEffects(v) ==
  LET of(kind, effects) == IF kind \in campaign.kinds THEN effects ELSE {}
  IN UNION {
    of("point", {[kind |-> "point", entity |-> n, to |-> i] :
                   n \in Entity, i \in campaign.ids}),
    of("unpoint", {[kind |-> "unpoint", entity |-> n] :
                     n \in {m \in Entity : v.entities[m] # {}}}),
    of("propose", {[kind |-> "propose", rev |-> i] : i \in campaign.ids \ v.proposed}),
    of("unpropose", {[kind |-> "unpropose", rev |-> i] : i \in v.proposed}),
    of("revoke", {[kind |-> "revoke", principal |-> p] : p \in Principal \ v.revoked}),
    of("head", UNION {{[kind |-> "head", line |-> l, to |-> i,
                        seq |-> IF v.lines[l] = NoLine THEN 0 ELSE v.lines[l].seq + 1] :
                         i \in campaign.ids \ v.lines[l].head} : l \in Line}),
    of("coordinator", {[kind |-> "coordinator", line |-> l, to |-> p] :
                         l \in Line, p \in Principal}),
    of("owner", {[kind |-> "owner", principal |-> p] : p \in Principal \ v.owners}),
    of("unowner", {[kind |-> "unowner", principal |-> p] : p \in v.owners}),
    of("deploy", {[kind |-> "deploy", target |-> t, to |-> i] : t \in Target, i \in campaign.ids}),
    of("pause", {[kind |-> "pause", scope |-> s] : s \in Scope \ v.paused}),
    of("resume", {[kind |-> "resume", scope |-> s] : s \in v.paused}) }

\* What init leaves: an owner, and the line it coordinates at seq 0.
InitView ==
  [EmptyView EXCEPT !.owners = {1},
                    !.lines[InitLine] = [head |-> {1}, seq |-> 0, coordinator |-> 1]]

Init ==
  /\ base = InitView
  /\ side = [s \in Side |-> InitView]
  /\ written = [s \in Side \cup {0} |-> 0]
  /\ forked = FALSE
  /\ campaign \in Campaign

\* An op before the fork: every writer sees it.
WriteBase ==
  /\ ~forked /\ written[0] < campaign.maxBase
  /\ \E e \in LegalEffects(base) : base' = Apply(base, e)
  /\ side' = [s \in Side |-> base']
  /\ written' = [written EXCEPT ![0] = @ + 1]
  /\ UNCHANGED <<forked, campaign>>

Fork ==
  /\ ~forked
  /\ forked' = TRUE
  /\ UNCHANGED <<base, side, written, campaign>>

\* An op of one side, which the others do not see.
WriteSide(s) ==
  /\ forked /\ written[s] < campaign.maxSide
  /\ \E e \in LegalEffects(side[s]) : side' = [side EXCEPT ![s] = Apply(@, e)]
  /\ written' = [written EXCEPT ![s] = @ + 1]
  /\ UNCHANGED <<base, forked, campaign>>

\* The heads folded pairwise in ascending ID (dag.rs, merged_view), the base
\* being the one common ancestor of them all.
FoldSides ==
  LET fold[n \in Side] ==
        IF n = 1 THEN side[1] ELSE Merge(base, fold[n - 1], side[n])
  IN fold[Sides]

\* A writer that knows every head writes an op on all of them; every writer
\* goes on from there.
Join ==
  /\ forked /\ written[0] < campaign.maxBase
  /\ base' = FoldSides
  /\ side' = [s \in Side |-> base']
  /\ written' = [s \in Side \cup {0} |-> IF s = 0 THEN written[0] + 1 ELSE 0]
  /\ UNCHANGED <<forked, campaign>>

Next == WriteBase \/ Fork \/ Join \/ \E s \in Side : WriteSide(s)

Spec == Init /\ [][Next]_vars

-----------------------------------------------------------------------------
(***************************************************************************)
(* Properties.                                                             *)
(***************************************************************************)

\* Rule 1 of the view merge for every part but `paused`: a side that left a
\* part as the base had it does not undo what the other side did to it.
OneSideYields ==
  \A s, t \in Side :
    LET m == Merge(base, side[s], side[t]) IN
    /\ \A e \in Entity :
         side[s].entities[e] = base.entities[e] => m.entities[e] = side[t].entities[e]
    /\ side[s].proposed = base.proposed => m.proposed = side[t].proposed
    /\ side[s].owners = base.owners => m.owners = side[t].owners
    /\ \A l \in Line : side[s].lines[l] = base.lines[l] => m.lines[l] = side[t].lines[l]
    /\ \A d \in Target :
         side[s].deployed[d] = base.deployed[d] => m.deployed[d] = side[t].deployed[d]

\* Rule 3: two sides that moved one pointer to different versions leave both in
\* the merged value, unless one of them removed the entity; and two that moved a
\* line the base knows leave both heads.  Of a line both created one head is lost.
ConcurrentMovesKept ==
  \A s, t \in Side :
    LET m == Merge(base, side[s], side[t]) IN
    /\ \A e \in Entity :
         LET x == side[s].entities[e]
             y == side[t].entities[e]
         IN base.entities[e] \notin {x, y}
              => m.entities[e] = IF {} \in {x, y} THEN {} ELSE x \cup y
    /\ \A l \in Line :
         LET x == side[s].lines[l].head
             y == side[t].lines[l].head
         IN base.lines[l] # NoLine /\ base.lines[l].head \notin {x, y}
              => m.lines[l].head = x \cup y

\* No line is created by both sides, differently.
NoRivalLines(b, x, y) ==
  \A l \in Line :
    b.lines[l] = NoLine => NoLine \in {x.lines[l], y.lines[l]} \/ x.lines[l] = y.lines[l]

\* A view without conflicts, neither of an entity nor of a line.
Settled(v) ==
  /\ \A e \in Entity : Cardinality(v.entities[e]) <= 1
  /\ \A l \in Line : Cardinality(v.lines[l].head) <= 1

\* Which head is folded first depends on op IDs, which are hashes.  Unless two
\* created one line, the merge of two heads does not depend on it (view.rs,
\* ViewState::merge), and the fold of three does not (dag.rs, merged_view), as
\* long as no head resolved a conflict the base held: a resolution to the two
\* sides of a conflict rebuilds the base's value and is taken for no change at
\* all.
FoldOrderIrrelevant ==
  (\A s, t \in Side : NoRivalLines(base, side[s], side[t])) =>
    /\ \A s, t \in Side : Merge(base, side[s], side[t]) = Merge(base, side[t], side[s])
    /\ Settled(base) =>
         \A s, t, u \in Side :
           Merge(base, Merge(base, side[s], side[t]), side[u])
             = Merge(base, Merge(base, side[s], side[u]), side[t])
=============================================================================
