------------------------------ MODULE ViewMerge ------------------------------
(***************************************************************************)
(* The view of crates/tessra-oplog/src/view.rs: the mutable state of a     *)
(* repository at one op, the effects that change it, and the three-way     *)
(* merge that joins the views of concurrent ops.                           *)
(*                                                                         *)
(* Data is abstracted to what the merge tells apart.  An object ID is a    *)
(* natural number (IDs are totally ordered, and some rules pick the lower  *)
(* one); 0 is "no object".  A pointer is the SET of the versions it names: *)
(* empty when the entity is absent, a singleton for Pointer::Id, larger    *)
(* for Pointer::Conflict.  A persistent trie is the function or the set it *)
(* represents; its structural merge is the keywise merge of the values.    *)
(*   entities   stands for the maps merged with MergePolicy::Pointers      *)
(*              (entities, claims)                                         *)
(*   proposed   stands for the tries merged with MergePolicy::Set          *)
(*              (proposed, caps)                                           *)
(*   revoked    stands for the sets that only grow (revoked, tombstoned)   *)
(*   owners     stands for the sorted lists merged by merge_set_vec        *)
(*              (owners, roots)                                            *)
(***************************************************************************)
EXTENDS Naturals, FiniteSets

CONSTANTS
  Id,         \* object IDs that effects may name
  Entity,     \* entities with a current version
  Line,       \* line names
  Principal,  \* principals, ordered as their IDs are
  Target,     \* deployment targets
  Scope       \* scopes a pause may name

ASSUME ViewAssumption ==
  /\ Id \subseteq Nat \ {0}
  /\ Principal \subseteq Nat \ {0}

-----------------------------------------------------------------------------
Lower(x, y) == IF x <= y THEN x ELSE y
Higher(x, y) == IF x <= y THEN y ELSE x

\* A line is a record; a line that does not exist has no head.
LineState == [head : SUBSET (Id \cup {0}), seq : Nat, coordinator : Principal \cup {0}]
NoLine == [head |-> {}, seq |-> 0, coordinator |-> 0]

View == [entities : [Entity -> SUBSET (Id \cup {0})],
         proposed : SUBSET (Id \cup {0}),
         revoked  : SUBSET Principal,
         lines    : [Line -> LineState],
         owners   : SUBSET Principal,
         deployed : [Target -> Id \cup {0}],
         paused   : SUBSET Scope]

\* The view before init: every map empty.
EmptyView ==
  [entities |-> [e \in Entity |-> {}], proposed |-> {}, revoked |-> {},
   lines |-> [l \in Line |-> NoLine], owners |-> {},
   deployed |-> [t \in Target |-> 0], paused |-> {}]

-----------------------------------------------------------------------------
(***************************************************************************)
(* Effects.  `from`, `attests` and the like are checked before an effect   *)
(* is applied and do not reach the view.                                   *)
(***************************************************************************)
FirstOwner(v) ==
  IF v.owners = {} THEN 0 ELSE CHOOSE p \in v.owners : \A q \in v.owners : p <= q

\* A head effect on an existing line moves head and seq and keeps the
\* coordinator; on a new one the first owner becomes the coordinator.
AdvanceLine(v, to, seq, old) ==
  [head |-> {to}, seq |-> seq,
   coordinator |-> IF old = NoLine THEN FirstOwner(v) ELSE old.coordinator]

Apply(v, e) ==
  CASE e.kind = "point"       -> [v EXCEPT !.entities[e.entity] = {e.to}]
    [] e.kind = "unpoint"     -> [v EXCEPT !.entities[e.entity] = {}]
    [] e.kind = "propose"     -> [v EXCEPT !.proposed = @ \cup {e.rev}]
    [] e.kind = "unpropose"   -> [v EXCEPT !.proposed = @ \ {e.rev}]
    [] e.kind = "revoke"      -> [v EXCEPT !.revoked = @ \cup {e.principal}]
    [] e.kind = "head"        -> [v EXCEPT !.lines[e.line] = AdvanceLine(v, e.to, e.seq, @)]
    [] e.kind = "coordinator" -> IF v.lines[e.line] = NoLine THEN v
                                 ELSE [v EXCEPT !.lines[e.line].coordinator = e.to]
    [] e.kind = "owner"       -> [v EXCEPT !.owners = @ \cup {e.principal}]
    [] e.kind = "unowner"     -> [v EXCEPT !.owners = @ \ {e.principal}]
    [] e.kind = "deploy"      -> [v EXCEPT !.deployed[e.target] = e.to]
    [] e.kind = "pause"       -> [v EXCEPT !.paused = @ \cup {e.scope}]
    [] e.kind = "resume"      -> [v EXCEPT !.paused = @ \ {e.scope}]

-----------------------------------------------------------------------------
(***************************************************************************)
(* The three-way merge.  Every part follows one pattern: a side that did   *)
(* not change yields to the other, equal sides are taken, and only when    *)
(* both changed, differently, does the part's own rule decide.             *)
(***************************************************************************)
ThreeWay(base, x, y, both) ==
  IF x = base THEN y ELSE IF y = base \/ x = y THEN x ELSE both

\* Faulty variant of BothPointers: the second side wins.
BothPointersLastWins(x, y) == IF x = {} \/ y = {} THEN {} ELSE y

\* MergePolicy::Pointers: a removal wins over a change, two changes conflict.
BothPointers(x, y) == IF x = {} \/ y = {} THEN {} ELSE x \cup y

MergePointer(base, x, y) == ThreeWay(base, x, y, BothPointers(x, y))

\* Faulty variant of MergeSet: removals are forgotten.
MergeSetUnion(base, x, y) == x \cup y

\* MergePolicy::Set and merge_set_vec: an element one side added or removed
\* is added or removed.
MergeSet(base, x, y) ==
  {m \in x \cup y : m \notin base \/ m \in x \cap y}

\* Faulty variant of MergeLineState: the first side's head wins.
MergeLineStateFirstHead(base, x, y) ==
  [head |-> x.head, seq |-> Higher(x.seq, y.seq),
   coordinator |-> Lower(x.coordinator, y.coordinator)]

MergeLineState(base, x, y) ==
  [head |-> ThreeWay(base.head, x.head, y.head, x.head \cup y.head),
   seq |-> Higher(x.seq, y.seq),
   coordinator |-> ThreeWay(base.coordinator, x.coordinator, y.coordinator,
                            Lower(x.coordinator, y.coordinator))]

\* A line both sides created, unknown to the base, is merged against the
\* first side as if that were the base.
MergeLine(base, x, y) ==
  IF x = NoLine THEN y
  ELSE IF y = NoLine THEN x
  ELSE LET from == IF base = NoLine THEN x ELSE base
       IN ThreeWay(base, x, y, MergeLineState(from, x, y))

\* Two deployments: the lower ID wins, a deployment wins over none.
MergeDeployed(base, x, y) ==
  ThreeWay(base, x, y,
           IF x = 0 THEN y ELSE IF y = 0 THEN x ELSE Lower(x, y))

\* The paused lists are joined; the base is not consulted.
MergePaused(x, y) == x \cup y

Merge(base, x, y) ==
  [entities |-> [e \in Entity |->
                   MergePointer(base.entities[e], x.entities[e], y.entities[e])],
   proposed |-> MergeSet(base.proposed, x.proposed, y.proposed),
   revoked  |-> base.revoked \cup x.revoked \cup y.revoked,
   lines    |-> [l \in Line |-> MergeLine(base.lines[l], x.lines[l], y.lines[l])],
   owners   |-> MergeSet(base.owners, x.owners, y.owners),
   deployed |-> [t \in Target |->
                   MergeDeployed(base.deployed[t], x.deployed[t], y.deployed[t])],
   paused   |-> MergePaused(x.paused, y.paused)]
=============================================================================
