--------------------------- MODULE ViewMergeProofs ---------------------------
(***************************************************************************)
(* What the three-way merge of views owes to any base and any sides, for   *)
(* every set of IDs, entities, lines, principals, targets and scopes; and  *)
(* the invariants of ViewForks, for any number of writers and writes.      *)
(* ForkInv is the inductive one: views are well formed, and no line of the *)
(* base is missing from a side or behind there.                            *)
(***************************************************************************)
EXTENDS ViewForks, Groundwork, FiniteSetTheorems, TLAPS

\* Object IDs and principals are ordered, as the rules that pick the lower one
\* (view.rs, deployed and coordinator) need.
LEMMA NumberedIds == 0 \in Nat /\ Id \cup {0} \subseteq Nat /\ Principal \cup {0} \subseteq Nat
BY ViewAssumption

\* The parts of a view, one by one.
LEMMA ViewParts ==
  ASSUME NEW v \in View
  PROVE  /\ v.entities \in [Entity -> SUBSET (Id \cup {0})]
         /\ v.proposed \in SUBSET (Id \cup {0})
         /\ v.revoked \in SUBSET Principal
         /\ v.lines \in [Line -> LineState]
         /\ v.owners \in SUBSET Principal
         /\ v.deployed \in [Target -> Id \cup {0}]
         /\ v.paused \in SUBSET Scope
BY DEF View

-----------------------------------------------------------------------------
\* The merge of one pointer does not depend on which side is folded first,
\* and is a set of versions.
LEMMA PointerSymmetric ==
  ASSUME NEW old, NEW x, NEW y
  PROVE  MergePointer(old, x, y) = MergePointer(old, y, x)
BY DEF MergePointer, ThreeWay, BothPointers

\* Nor does the merge of a line the base knows.
LEMMA LineSymmetric ==
  ASSUME NEW old \in LineState, NEW x \in LineState, NEW y \in LineState,
         old = NoLine => NoLine \in {x, y} \/ x = y
  PROVE  MergeLine(old, x, y) = MergeLine(old, y, x)
<1>1. /\ x.seq \in Nat /\ y.seq \in Nat
      /\ x.coordinator \in Nat /\ y.coordinator \in Nat
  BY NumberedIds DEF LineState
<1>2. MergeLineState(old, x, y) = MergeLineState(old, y, x)
  <2>1. Higher(x.seq, y.seq) = Higher(y.seq, x.seq)
    BY <1>1 DEF Higher
  <2>2. Lower(x.coordinator, y.coordinator) = Lower(y.coordinator, x.coordinator)
    BY <1>1 DEF Lower
  <2>3. ThreeWay(old.head, x.head, y.head, x.head \cup y.head)
          = ThreeWay(old.head, y.head, x.head, y.head \cup x.head)
    BY DEF ThreeWay
  <2>4. \A n : ThreeWay(old.coordinator, x.coordinator, y.coordinator, n)
                = ThreeWay(old.coordinator, y.coordinator, x.coordinator, n)
    BY DEF ThreeWay
  <2> QED
    BY <2>1, <2>2, <2>3, <2>4, Zenon DEF MergeLineState
<1> QED
  BY <1>2 DEF MergeLine, ThreeWay

\* Nor does the merge of a deployment, which picks the lower ID.
LEMMA DeployedSymmetric ==
  ASSUME NEW old, NEW x \in Id \cup {0}, NEW y \in Id \cup {0}
  PROVE  MergeDeployed(old, x, y) = MergeDeployed(old, y, x)
<1>1. x \in Nat /\ y \in Nat
  BY NumberedIds
<1> QED
  BY <1>1 DEF MergeDeployed, ThreeWay, Lower

\* Op IDs are hashes, so the order in which two heads are folded is as good
\* as random: the merged view does not depend on it, unless both sides
\* created a line the base does not know.
THEOREM MergeSymmetric ==
  ASSUME NEW old \in View, NEW x \in View, NEW y \in View, NoRivalLines(old, x, y)
  PROVE  Merge(old, x, y) = Merge(old, y, x)
<1>1. \A e \in Entity : MergePointer(old.entities[e], x.entities[e], y.entities[e])
                          = MergePointer(old.entities[e], y.entities[e], x.entities[e])
  BY PointerSymmetric
<1>2. \A l \in Line : MergeLine(old.lines[l], x.lines[l], y.lines[l])
                        = MergeLine(old.lines[l], y.lines[l], x.lines[l])
  <2> TAKE l \in Line
  <2>1. old.lines[l] \in LineState /\ x.lines[l] \in LineState /\ y.lines[l] \in LineState
    BY ViewParts
  <2> QED
    BY <2>1, LineSymmetric DEF NoRivalLines
<1>3. \A t \in Target : MergeDeployed(old.deployed[t], x.deployed[t], y.deployed[t])
                          = MergeDeployed(old.deployed[t], y.deployed[t], x.deployed[t])
  <2> TAKE t \in Target
  <2>1. x.deployed[t] \in Id \cup {0} /\ y.deployed[t] \in Id \cup {0}
    BY ViewParts
  <2> QED
    BY <2>1, DeployedSymmetric
<1>4. /\ MergeSet(old.proposed, x.proposed, y.proposed) = MergeSet(old.proposed, y.proposed, x.proposed)
      /\ MergeSet(old.owners, x.owners, y.owners) = MergeSet(old.owners, y.owners, x.owners)
  BY DEF MergeSet
<1>5. old.revoked \cup x.revoked \cup y.revoked = old.revoked \cup y.revoked \cup x.revoked
  OBVIOUS
<1>6. MergePaused(x.paused, y.paused) = MergePaused(y.paused, x.paused)
  BY DEF MergePaused
<1> QED
  BY <1>1, <1>2, <1>3, <1>4, <1>5, <1>6, Zenon DEF Merge

-----------------------------------------------------------------------------
\* Rule 1 of the view merge: the side that changed nothing gives way, in every
\* part but the paused scopes; those become the union, so that a resume is
\* lost.  The revoked principals are the other side's because they only grow.
THEOREM UnchangedSideYields ==
  ASSUME NEW old \in View, NEW y \in View, old.revoked \subseteq y.revoked,
         \A l \in Line : y.lines[l] = NoLine => old.lines[l] = NoLine
  PROVE  LET m == Merge(old, old, y)
         IN /\ m.entities = y.entities /\ m.proposed = y.proposed
            /\ m.revoked = y.revoked /\ m.lines = y.lines /\ m.owners = y.owners
            /\ m.deployed = y.deployed /\ m.paused = old.paused \cup y.paused
<1>1. \A e \in Entity : MergePointer(old.entities[e], old.entities[e], y.entities[e])
                          = y.entities[e]
  BY DEF MergePointer, ThreeWay
<1>2. \A l \in Line : MergeLine(old.lines[l], old.lines[l], y.lines[l]) = y.lines[l]
  BY DEF MergeLine, ThreeWay
<1>3. \A t \in Target : MergeDeployed(old.deployed[t], old.deployed[t], y.deployed[t])
                          = y.deployed[t]
  BY DEF MergeDeployed, ThreeWay
<1>4. /\ MergeSet(old.proposed, old.proposed, y.proposed) = y.proposed
      /\ MergeSet(old.owners, old.owners, y.owners) = y.owners
  BY DEF MergeSet
<1>5. old.revoked \cup old.revoked \cup y.revoked = y.revoked
  OBVIOUS
<1>6. /\ y.entities = [e \in Entity |-> y.entities[e]]
      /\ y.lines = [l \in Line |-> y.lines[l]]
      /\ y.deployed = [t \in Target |-> y.deployed[t]]
  BY ViewParts
<1>7. /\ [e \in Entity |-> MergePointer(old.entities[e], old.entities[e], y.entities[e])] = y.entities
      /\ [l \in Line |-> MergeLine(old.lines[l], old.lines[l], y.lines[l])] = y.lines
      /\ [t \in Target |-> MergeDeployed(old.deployed[t], old.deployed[t], y.deployed[t])] = y.deployed
  BY <1>1, <1>2, <1>3, <1>6
<1> QED
  BY <1>4, <1>5, <1>7 DEF Merge, MergePaused

-----------------------------------------------------------------------------
(***************************************************************************)
(* Folding three heads.  A merge is associative where the merge of two     *)
(* changed sides is itself a change: the base must hold no conflict.       *)
(***************************************************************************)

\* A view as writers and joins leave it: its sets are finite, and a line that
\* exists has a head.
Tidy(v) ==
  /\ v \in View
  /\ \A e \in Entity : IsFiniteSet(v.entities[e])
  /\ \A l \in Line : IsFiniteSet(v.lines[l].head)
                     /\ (v.lines[l] # NoLine => v.lines[l].head # {})

\* A line is never removed, and its number never falls.
LinesGrow(b, v) ==
  \A l \in Line :
    b.lines[l] # NoLine => v.lines[l] # NoLine /\ b.lines[l].seq <= v.lines[l].seq

\* Of a set with at most one element the subsets are itself and the empty set.
LEMMA NoConflict ==
  ASSUME NEW S, IsFiniteSet(S), Cardinality(S) <= 1, NEW w \in SUBSET S, w # {}
  PROVE  w = S
<1>1. /\ IsFiniteSet(w) /\ Cardinality(w) \in Nat /\ Cardinality(S) \in Nat
      /\ Cardinality(w) <= Cardinality(S)
      /\ (Cardinality(w) = Cardinality(S) => w = S)
  BY FS_Subset, FS_CardinalityType
<1>2. Cardinality(w) # 0
  BY <1>1, FS_EmptySet
<1> QED
  BY <1>1, <1>2

\* Three values of an entity fold in any order.
LEMMA PointerAssociative ==
  ASSUME NEW b, IsFiniteSet(b), Cardinality(b) <= 1, NEW x, NEW y, NEW z
  PROVE  MergePointer(b, MergePointer(b, x, y), z) = MergePointer(b, MergePointer(b, x, z), y)
<1>1. \A w : w \subseteq b /\ w # {} => w = b
  BY NoConflict
<1>2. \A u, v : u # {} /\ v # {} /\ u # b /\ v # b => u \cup v # b /\ u \cup v # {}
  BY <1>1
<1> QED
  BY <1>2 DEF MergePointer, ThreeWay, BothPointers

\* Three states of a set fold in any order.
LEMMA SetAssociative ==
  ASSUME NEW b, NEW x, NEW y, NEW z
  PROVE  MergeSet(b, MergeSet(b, x, y), z) = MergeSet(b, MergeSet(b, x, z), y)
BY DEF MergeSet

\* Three deployments fold in any order: the lowest ID of those that changed.
LEMMA DeployedAssociative ==
  ASSUME NEW b, NEW x \in Nat, NEW y \in Nat, NEW z \in Nat
  PROVE  MergeDeployed(b, MergeDeployed(b, x, y), z) = MergeDeployed(b, MergeDeployed(b, x, z), y)
BY DEF MergeDeployed, ThreeWay, Lower

\* A line the base knows is merged field by field: the rule for a side that did
\* nothing says the same, because numbers only rise.
LEMMA FieldByField ==
  ASSUME NEW b \in LineState, NEW x \in LineState, NEW y \in LineState,
         b # NoLine, x # NoLine, y # NoLine, b.seq <= x.seq, b.seq <= y.seq
  PROVE  MergeLine(b, x, y) = MergeLineState(b, x, y)
<1>1. /\ x = [head |-> x.head, seq |-> x.seq, coordinator |-> x.coordinator]
      /\ y = [head |-> y.head, seq |-> y.seq, coordinator |-> y.coordinator]
      /\ b.seq \in Nat /\ x.seq \in Nat /\ y.seq \in Nat
  BY DEF LineState
<1>2. CASE x = b
  BY <1>1, <1>2 DEF MergeLine, MergeLineState, ThreeWay, Higher
<1>3. CASE x # b /\ y = b
  BY <1>1, <1>3 DEF MergeLine, MergeLineState, ThreeWay, Higher
<1>4. CASE x # b /\ y # b /\ x = y
  BY <1>1, <1>4 DEF MergeLine, MergeLineState, ThreeWay, Higher
<1>5. CASE x # b /\ y # b /\ x # y
  BY <1>5 DEF MergeLine, ThreeWay
<1> QED
  BY <1>2, <1>3, <1>4, <1>5

\* The merge of a line is a line, which one the base knows stays.
LEMMA MergedLine ==
  ASSUME NEW b \in LineState, NEW x \in LineState, NEW y \in LineState,
         \A r \in {b, x, y} : IsFiniteSet(r.head) /\ (r # NoLine => r.head # {}),
         \A r \in {x, y} : b # NoLine => r # NoLine /\ b.seq <= r.seq
  PROVE  LET m == MergeLine(b, x, y)
         IN /\ m \in LineState /\ IsFiniteSet(m.head)
            /\ m # NoLine => m.head # {}
            /\ b # NoLine => m # NoLine /\ b.seq <= m.seq
<1>1. /\ b.seq \in Nat /\ x.seq \in Nat /\ y.seq \in Nat
      /\ x.coordinator \in Nat /\ y.coordinator \in Nat
      /\ x.coordinator \in Principal \cup {0} /\ y.coordinator \in Principal \cup {0}
      /\ x.head \in SUBSET (Id \cup {0}) /\ y.head \in SUBSET (Id \cup {0})
  BY NumberedIds DEF LineState
<1>2. ASSUME NEW from \in LineState, x.head # {}, y.head # {}, from.seq <= x.seq
      PROVE  LET m == MergeLineState(from, x, y)
             IN /\ m \in LineState /\ IsFiniteSet(m.head) /\ m.head # {}
                /\ from.seq <= m.seq /\ x.seq <= m.seq
  <2> DEFINE m == MergeLineState(from, x, y)
  <2>1. m.head \in {x.head, y.head, x.head \cup y.head}
    BY DEF MergeLineState, ThreeWay
  <2>2. IsFiniteSet(x.head \cup y.head)
    BY FS_Union
  <2>3. m.head \in SUBSET (Id \cup {0}) /\ IsFiniteSet(m.head) /\ m.head # {}
    BY <1>1, <1>2, <2>1, <2>2
  <2>4. m.seq \in Nat /\ x.seq <= m.seq
    BY <1>1 DEF MergeLineState, Higher
  <2>5. m.coordinator \in Principal \cup {0}
    BY <1>1 DEF MergeLineState, ThreeWay, Lower
  <2>6. from.seq \in Nat
    BY DEF LineState
  <2>7. m = [head |-> m.head, seq |-> m.seq, coordinator |-> m.coordinator]
    BY DEF MergeLineState
  <2> HIDE DEF m
  <2>8. m \in LineState
    BY <2>3, <2>4, <2>5, <2>7 DEF LineState
  <2>9. from.seq <= m.seq
    BY <1>1, <1>2, <2>4, <2>6
  <2> QED
    BY <2>3, <2>4, <2>8, <2>9 DEF m
<1>3. CASE x = NoLine \/ y = NoLine
  BY <1>3 DEF MergeLine
<1>4. CASE x # NoLine /\ y # NoLine /\ b = NoLine
  <2>1. MergeLine(b, x, y) \in {y, x, MergeLineState(x, x, y)}
    BY <1>4 DEF MergeLine, ThreeWay
  <2> QED
    BY <1>1, <1>2, <1>4, <2>1
<1>5. CASE x # NoLine /\ y # NoLine /\ b # NoLine
  <2>1. MergeLine(b, x, y) = MergeLineState(b, x, y)
    BY <1>5, FieldByField
  <2>2. MergeLineState(b, x, y).head # {} /\ NoLine.head = {}
    BY <1>2, <1>5 DEF NoLine
  <2> QED
    BY <1>2, <1>5, <2>1, <2>2
<1> QED
  BY <1>3, <1>4, <1>5

\* Three states of a line fold in any order.
LEMMA LineAssociative ==
  ASSUME NEW b \in LineState, NEW x \in LineState, NEW y \in LineState, NEW z \in LineState,
         Cardinality(b.head) <= 1,
         \A r \in {b, x, y, z} : IsFiniteSet(r.head) /\ (r # NoLine => r.head # {}),
         \A r \in {x, y, z} : b # NoLine => r # NoLine /\ b.seq <= r.seq,
         \A r, t \in {x, y, z} : b = NoLine => NoLine \in {r, t} \/ r = t
  PROVE  MergeLine(b, MergeLine(b, x, y), z) = MergeLine(b, MergeLine(b, x, z), y)
<1>1. CASE b = NoLine
  <2>1. x = y \/ x = NoLine \/ y = NoLine
    BY <1>1
  <2>2. x = z \/ x = NoLine \/ z = NoLine
    BY <1>1
  <2>3. y = z \/ y = NoLine \/ z = NoLine
    BY <1>1
  <2> QED
    BY <2>1, <2>2, <2>3 DEF MergeLine, ThreeWay
<1>2. CASE b # NoLine
  <2> DEFINE xy == MergeLineState(b, x, y)
             xz == MergeLineState(b, x, z)
  <2>1. MergeLine(b, x, y) = xy /\ MergeLine(b, x, z) = xz
    BY <1>2, FieldByField
  <2>2. xy \in LineState /\ xy # NoLine /\ b.seq <= xy.seq
    <3>1. MergeLine(b, x, y) \in LineState /\ MergeLine(b, x, y) # NoLine
            /\ b.seq <= MergeLine(b, x, y).seq
      BY <1>2, MergedLine
    <3> QED
      BY <2>1, <3>1
  <2>3. xz \in LineState /\ xz # NoLine /\ b.seq <= xz.seq
    <3>1. MergeLine(b, x, z) \in LineState /\ MergeLine(b, x, z) # NoLine
            /\ b.seq <= MergeLine(b, x, z).seq
      BY <1>2, MergedLine
    <3> QED
      BY <2>1, <3>1
  <2>4. /\ MergeLine(b, xy, z) = MergeLineState(b, xy, z)
        /\ MergeLine(b, xz, y) = MergeLineState(b, xz, y)
    <3> HIDE DEF xy, xz
    <3> QED
      BY <1>2, <2>2, <2>3, FieldByField
  <2>5. ThreeWay(b.head, xy.head, z.head, xy.head \cup z.head)
          = ThreeWay(b.head, xz.head, y.head, xz.head \cup y.head)
    <3>1. x.head # {} /\ y.head # {} /\ z.head # {}
      BY <1>2
    <3>2. \A w : w \subseteq b.head /\ w # {} => w = b.head
      BY NoConflict
    <3>3. \A u, v : u # {} /\ v # {} /\ u # b.head /\ v # b.head
                      => u \cup v # b.head /\ u \cup v # {}
      BY <3>2
    <3> QED
      BY <3>1, <3>3 DEF MergeLineState, ThreeWay
  <2>6. Higher(xy.seq, z.seq) = Higher(xz.seq, y.seq)
    <3>1. x.seq \in Nat /\ y.seq \in Nat /\ z.seq \in Nat
      BY DEF LineState
    <3> QED
      BY <3>1 DEF MergeLineState, Higher
  <2>7. ThreeWay(b.coordinator, xy.coordinator, z.coordinator,
                 Lower(xy.coordinator, z.coordinator))
          = ThreeWay(b.coordinator, xz.coordinator, y.coordinator,
                     Lower(xz.coordinator, y.coordinator))
    <3>1. x.coordinator \in Nat /\ y.coordinator \in Nat /\ z.coordinator \in Nat
      BY NumberedIds DEF LineState
    <3> QED
      BY <3>1 DEF MergeLineState, ThreeWay, Lower
  <2>8. MergeLineState(b, xy, z) = MergeLineState(b, xz, y)
    <3> HIDE DEF xy, xz
    <3> QED
      BY <2>5, <2>6, <2>7, Zenon DEF MergeLineState
  <2> QED
    BY <2>1, <2>4, <2>8
<1> QED
  BY <1>1, <1>2

\* The fold of three heads in whatever order of their IDs, over a base without
\* conflicts and without rival lines.
THEOREM MergeAssociative ==
  ASSUME NEW b, NEW x, NEW y, NEW z, Tidy(b), Tidy(x), Tidy(y), Tidy(z), Settled(b),
         \A r \in {x, y, z} : LinesGrow(b, r),
         \A r, t \in {x, y, z} : NoRivalLines(b, r, t)
  PROVE  Merge(b, Merge(b, x, y), z) = Merge(b, Merge(b, x, z), y)
<1> DEFINE xy == Merge(b, x, y)
           xz == Merge(b, x, z)
<1>1. \A e \in Entity : MergePointer(b.entities[e], xy.entities[e], z.entities[e])
                          = MergePointer(b.entities[e], xz.entities[e], y.entities[e])
  BY PointerAssociative DEF Merge, Tidy, Settled
<1>2. ASSUME NEW l \in Line
      PROVE  MergeLine(b.lines[l], xy.lines[l], z.lines[l])
               = MergeLine(b.lines[l], xz.lines[l], y.lines[l])
  <2>1. /\ b.lines[l] \in LineState /\ x.lines[l] \in LineState
        /\ y.lines[l] \in LineState /\ z.lines[l] \in LineState
    BY ViewParts DEF Tidy
  <2>2. \A r \in {b.lines[l], x.lines[l], y.lines[l], z.lines[l]} :
          IsFiniteSet(r.head) /\ (r # NoLine => r.head # {})
    BY DEF Tidy
  <2>3. \A r \in {x.lines[l], y.lines[l], z.lines[l]} :
          b.lines[l] # NoLine => r # NoLine /\ b.lines[l].seq <= r.seq
    BY DEF LinesGrow
  <2>4. \A r, t \in {x.lines[l], y.lines[l], z.lines[l]} :
          b.lines[l] = NoLine => NoLine \in {r, t} \/ r = t
    BY DEF NoRivalLines
  <2>5. Cardinality(b.lines[l].head) <= 1
    BY DEF Settled
  <2>6. MergeLine(b.lines[l], MergeLine(b.lines[l], x.lines[l], y.lines[l]), z.lines[l])
          = MergeLine(b.lines[l], MergeLine(b.lines[l], x.lines[l], z.lines[l]), y.lines[l])
    <3> DEFINE bl == b.lines[l]
               xl == x.lines[l]
               yl == y.lines[l]
               zl == z.lines[l]
    <3> HIDE DEF bl, xl, yl, zl
    <3>1. MergeLine(bl, MergeLine(bl, xl, yl), zl) = MergeLine(bl, MergeLine(bl, xl, zl), yl)
      <4>1. /\ bl \in LineState /\ xl \in LineState /\ yl \in LineState /\ zl \in LineState
            /\ \A r \in {bl, xl, yl, zl} : IsFiniteSet(r.head) /\ (r # NoLine => r.head # {})
        BY <2>1, <2>2 DEF bl, xl, yl, zl
      <4>2. /\ \A r \in {xl, yl, zl} : bl # NoLine => r # NoLine /\ bl.seq <= r.seq
            /\ \A r, t \in {xl, yl, zl} : bl = NoLine => NoLine \in {r, t} \/ r = t
            /\ Cardinality(bl.head) <= 1
        BY <2>3, <2>4, <2>5 DEF bl, xl, yl, zl
      <4> QED
        BY <4>1, <4>2, LineAssociative
    <3> QED
      BY <3>1 DEF bl, xl, yl, zl
  <2> QED
    BY <2>6 DEF Merge
<1>3. ASSUME NEW t \in Target
      PROVE  MergeDeployed(b.deployed[t], xy.deployed[t], z.deployed[t])
               = MergeDeployed(b.deployed[t], xz.deployed[t], y.deployed[t])
  <2>1. x.deployed[t] \in Nat /\ y.deployed[t] \in Nat /\ z.deployed[t] \in Nat
    BY ViewParts, NumberedIds DEF Tidy
  <2> QED
    BY <2>1, DeployedAssociative DEF Merge
<1>4. /\ MergeSet(b.proposed, xy.proposed, z.proposed) = MergeSet(b.proposed, xz.proposed, y.proposed)
      /\ MergeSet(b.owners, xy.owners, z.owners) = MergeSet(b.owners, xz.owners, y.owners)
  BY SetAssociative DEF Merge
<1>5. /\ b.revoked \cup xy.revoked \cup z.revoked = b.revoked \cup xz.revoked \cup y.revoked
      /\ MergePaused(xy.paused, z.paused) = MergePaused(xz.paused, y.paused)
  BY DEF Merge, MergePaused
<1> HIDE DEF xy, xz
<1>6. Merge(b, xy, z) = Merge(b, xz, y)
  BY <1>1, <1>2, <1>3, <1>4, <1>5, Zenon DEF Merge
<1> QED
  BY <1>6 DEF xy, xz

-----------------------------------------------------------------------------
(***************************************************************************)
(* Writers and joins keep views tidy (ViewForks).                          *)
(***************************************************************************)

\* A merge of tidy views is one, in which no line of the base is gone.
LEMMA MergeTidy ==
  ASSUME NEW b, NEW x, NEW y, Tidy(b), Tidy(x), Tidy(y), LinesGrow(b, x), LinesGrow(b, y)
  PROVE  Tidy(Merge(b, x, y)) /\ LinesGrow(b, Merge(b, x, y))
<1> DEFINE m == Merge(b, x, y)
<1>1. ASSUME NEW e \in Entity
      PROVE  m.entities[e] \in SUBSET (Id \cup {0}) /\ IsFiniteSet(m.entities[e])
  <2>1. m.entities[e] \in {{}, x.entities[e], y.entities[e], x.entities[e] \cup y.entities[e]}
    BY DEF Merge, MergePointer, ThreeWay, BothPointers
  <2>2. /\ x.entities[e] \in SUBSET (Id \cup {0}) /\ y.entities[e] \in SUBSET (Id \cup {0})
        /\ IsFiniteSet(x.entities[e]) /\ IsFiniteSet(y.entities[e])
    BY ViewParts DEF Tidy
  <2>3. IsFiniteSet(x.entities[e] \cup y.entities[e]) /\ IsFiniteSet({})
    BY <2>2, FS_Union, FS_EmptySet
  <2> QED
    BY <2>1, <2>2, <2>3
<1>2. ASSUME NEW l \in Line
      PROVE  /\ m.lines[l] \in LineState /\ IsFiniteSet(m.lines[l].head)
             /\ m.lines[l] # NoLine => m.lines[l].head # {}
             /\ b.lines[l] # NoLine
                  => m.lines[l] # NoLine /\ b.lines[l].seq <= m.lines[l].seq
  <2>1. b.lines[l] \in LineState /\ x.lines[l] \in LineState /\ y.lines[l] \in LineState
    BY ViewParts DEF Tidy
  <2>2. \A r \in {b.lines[l], x.lines[l], y.lines[l]} :
          IsFiniteSet(r.head) /\ (r # NoLine => r.head # {})
    BY DEF Tidy
  <2>3. \A r \in {x.lines[l], y.lines[l]} :
          b.lines[l] # NoLine => r # NoLine /\ b.lines[l].seq <= r.seq
    BY DEF LinesGrow
  <2>4. m.lines[l] = MergeLine(b.lines[l], x.lines[l], y.lines[l])
    BY DEF Merge
  <2> QED
    BY <2>1, <2>2, <2>3, <2>4, MergedLine
<1>3. ASSUME NEW t \in Target
      PROVE  m.deployed[t] \in Id \cup {0}
  <2>1. x.deployed[t] \in Id \cup {0} /\ y.deployed[t] \in Id \cup {0}
    BY ViewParts DEF Tidy
  <2>2. m.deployed[t] \in {x.deployed[t], y.deployed[t]}
    BY DEF Merge, MergeDeployed, ThreeWay, Lower
  <2> QED
    BY <2>1, <2>2
<1>4. /\ m.proposed \in SUBSET (Id \cup {0}) /\ m.revoked \in SUBSET Principal
      /\ m.owners \in SUBSET Principal /\ m.paused \in SUBSET Scope
  BY ViewParts DEF Tidy, Merge, MergeSet, MergePaused
<1>5. /\ m.entities \in [Entity -> SUBSET (Id \cup {0})]
      /\ m.lines \in [Line -> LineState]
      /\ m.deployed \in [Target -> Id \cup {0}]
  <2>1. /\ m.entities = [e \in Entity |-> m.entities[e]]
        /\ m.lines = [l \in Line |-> m.lines[l]]
        /\ m.deployed = [t \in Target |-> m.deployed[t]]
    BY DEF Merge
  <2> HIDE DEF m
  <2> QED
    BY <2>1, <1>1, <1>2, <1>3
<1>6. m = [entities |-> m.entities, proposed |-> m.proposed, revoked |-> m.revoked,
           lines |-> m.lines, owners |-> m.owners, deployed |-> m.deployed,
           paused |-> m.paused]
  BY DEF Merge
<1> HIDE DEF m
<1>7. m \in View
  BY <1>4, <1>5, <1>6 DEF View
<1>8. Tidy(m) /\ LinesGrow(b, m)
  BY <1>1, <1>2, <1>7 DEF Tidy, LinesGrow
<1> QED
  BY <1>8 DEF m

\* What an effect that is legal on a view names.
LegalOn(v, e) ==
  \/ e.kind = "point" /\ e.entity \in Entity /\ e.to \in Id
  \/ e.kind = "unpoint" /\ e.entity \in Entity
  \/ e.kind \in {"propose", "unpropose"} /\ e.rev \in Id \cup {0}
  \/ e.kind \in {"revoke", "owner", "unowner"} /\ e.principal \in Principal
  \/ e.kind = "head" /\ e.line \in Line /\ e.to \in Id
     /\ e.seq = IF v.lines[e.line] = NoLine THEN 0 ELSE v.lines[e.line].seq + 1
  \/ e.kind = "coordinator" /\ e.line \in Line /\ e.to \in Principal
  \/ e.kind = "deploy" /\ e.target \in Target /\ e.to \in Id
  \/ e.kind \in {"pause", "resume"} /\ e.scope \in Scope

\* The effects writers choose from are such effects.
LEMMA LegalNames ==
  ASSUME campaign \in Campaign, NEW v, Tidy(v), NEW e \in LegalEffects(v)
  PROVE  LegalOn(v, e)
<1>1. campaign.ids \subseteq Id
  BY ForkAssumption
<1>2. /\ v.proposed \subseteq Id \cup {0} /\ v.owners \subseteq Principal
      /\ v.paused \subseteq Scope
  BY ViewParts DEF Tidy
<1>3. \/ \E n \in Entity, i \in campaign.ids : e = [kind |-> "point", entity |-> n, to |-> i]
      \/ \E n \in Entity : e = [kind |-> "unpoint", entity |-> n]
      \/ \E i \in campaign.ids : e = [kind |-> "propose", rev |-> i]
      \/ \E i \in v.proposed : e = [kind |-> "unpropose", rev |-> i]
      \/ \E p \in Principal : e = [kind |-> "revoke", principal |-> p]
      \/ \E l \in Line, i \in campaign.ids :
           e = [kind |-> "head", line |-> l, to |-> i,
                seq |-> IF v.lines[l] = NoLine THEN 0 ELSE v.lines[l].seq + 1]
      \/ \E l \in Line, p \in Principal : e = [kind |-> "coordinator", line |-> l, to |-> p]
      \/ \E p \in Principal : e = [kind |-> "owner", principal |-> p]
      \/ \E p \in v.owners : e = [kind |-> "unowner", principal |-> p]
      \/ \E t \in Target, i \in campaign.ids : e = [kind |-> "deploy", target |-> t, to |-> i]
      \/ \E s \in Scope : e = [kind |-> "pause", scope |-> s]
      \/ \E s \in v.paused : e = [kind |-> "resume", scope |-> s]
  BY SMTT(60) DEF LegalEffects
<1> QED
  BY <1>1, <1>2, <1>3 DEF LegalOn

\* The first owner, who becomes the coordinator of a new line, is a principal.
LEMMA OwnerIsPrincipal ==
  ASSUME NEW v \in View
  PROVE  FirstOwner(v) \in Principal \cup {0}
<1>1. v.owners \subseteq Principal /\ Principal \subseteq Nat
  BY ViewParts, ViewAssumption
<1>2. CASE v.owners # {}
  <2>1. v.owners \in SUBSET Nat
    BY <1>1
  <2>2. \E p \in v.owners : \A q \in v.owners : p <= q
    BY <1>2, <2>1, LeastNatural
  <2> QED
    BY <1>1, <1>2, <2>2 DEF FirstOwner
<1>3. CASE v.owners = {}
  BY <1>3 DEF FirstOwner
<1> QED
  BY <1>2, <1>3

\* A legal effect leaves a tidy view tidy and removes no line.
LEMMA ApplyTidy ==
  ASSUME NEW v, Tidy(v), NEW e, LegalOn(v, e)
  PROVE  Tidy(Apply(v, e)) /\ LinesGrow(v, Apply(v, e))
<1>1. /\ v \in View
      /\ v.entities \in [Entity -> SUBSET (Id \cup {0})]
      /\ v.proposed \in SUBSET (Id \cup {0})
      /\ v.revoked \in SUBSET Principal
      /\ v.lines \in [Line -> LineState]
      /\ v.owners \in SUBSET Principal
      /\ v.deployed \in [Target -> Id \cup {0}]
      /\ v.paused \in SUBSET Scope
  BY ViewParts DEF Tidy
<1>2. \A l \in Line : v.lines[l].seq \in Nat /\ v.lines[l].seq <= v.lines[l].seq
  BY <1>1 DEF LineState
<1>3. CASE e.kind \in {"point", "unpoint"}
  <2> DEFINE s == IF e.kind = "point" THEN {e.to} ELSE {}
  <2>1. s \in SUBSET (Id \cup {0}) /\ IsFiniteSet(s) /\ e.entity \in Entity
    BY <1>3, FS_EmptySet, FS_Singleton DEF LegalOn
  <2>2. Apply(v, e) = [v EXCEPT !.entities[e.entity] = s]
    BY <1>3 DEF Apply
  <2> HIDE DEF s
  <2>3. Apply(v, e) \in View
    BY <1>1, <2>1, <2>2 DEF View
  <2>4. /\ \A n \in Entity : Apply(v, e).entities[n] \in {s, v.entities[n]}
        /\ Apply(v, e).lines = v.lines
    BY <1>1, <2>1, <2>2 DEF View
  <2> QED
    BY <1>2, <2>1, <2>3, <2>4 DEF Tidy, LinesGrow
<1>4. CASE e.kind \in {"propose", "unpropose", "revoke", "owner", "unowner", "pause", "resume"}
  <2>1. Apply(v, e) \in View
    BY <1>1, <1>4 DEF View, Apply, LegalOn
  <2>2. Apply(v, e).entities = v.entities /\ Apply(v, e).lines = v.lines
    BY <1>1, <1>4 DEF View, Apply, LegalOn
  <2> QED
    BY <1>2, <2>1, <2>2 DEF Tidy, LinesGrow
<1>5. CASE e.kind = "deploy"
  <2>1. Apply(v, e) = [v EXCEPT !.deployed[e.target] = e.to]
    BY <1>5 DEF Apply
  <2>2. Apply(v, e) \in View
    BY <1>1, <1>5, <2>1 DEF View, LegalOn
  <2>3. Apply(v, e).entities = v.entities /\ Apply(v, e).lines = v.lines
    BY <1>1, <2>1 DEF View
  <2> QED
    BY <1>2, <2>2, <2>3 DEF Tidy, LinesGrow
<1>6. ASSUME NEW l \in Line, NEW r \in LineState, IsFiniteSet(r.head), r.head # {},
             v.lines[l] # NoLine => v.lines[l].seq <= r.seq,
             Apply(v, e) = [v EXCEPT !.lines[l] = r]
      PROVE  Tidy(Apply(v, e)) /\ LinesGrow(v, Apply(v, e))
  <2>1. Apply(v, e) \in View
    BY <1>1, <1>6 DEF View
  <2>2. /\ Apply(v, e).entities = v.entities /\ Apply(v, e).lines[l] = r
        /\ \A k \in Line : k # l => Apply(v, e).lines[k] = v.lines[k]
    BY <1>1, <1>6 DEF View
  <2>3. r # NoLine
    BY <1>6 DEF NoLine
  <2> QED
    BY <1>2, <1>6, <2>1, <2>2, <2>3 DEF Tidy, LinesGrow
<1>7. CASE e.kind = "head"
  <2> DEFINE r == AdvanceLine(v, e.to, e.seq, v.lines[e.line])
  <2>1. e.line \in Line /\ e.to \in Id
        /\ e.seq = IF v.lines[e.line] = NoLine THEN 0 ELSE v.lines[e.line].seq + 1
    BY <1>7 DEF LegalOn
  <2>2. e.seq \in Nat /\ (v.lines[e.line] # NoLine => v.lines[e.line].seq <= e.seq)
    BY <1>2, <2>1
  <2>3. FirstOwner(v) \in Principal \cup {0}
        /\ v.lines[e.line].coordinator \in Principal \cup {0}
    BY <1>1, <2>1, OwnerIsPrincipal DEF LineState
  <2>4. /\ r \in LineState /\ r.head = {e.to} /\ r.seq = e.seq
        /\ IsFiniteSet({e.to})
    BY <2>1, <2>2, <2>3, FS_Singleton DEF AdvanceLine, LineState
  <2>5. Apply(v, e) = [v EXCEPT !.lines[e.line] = r]
    BY <1>1, <1>7 DEF Apply
  <2> HIDE DEF r
  <2> QED
    BY <1>6, <2>1, <2>2, <2>4, <2>5
<1>8. CASE e.kind = "coordinator" /\ v.lines[e.line] # NoLine
  <2> DEFINE r == [v.lines[e.line] EXCEPT !.coordinator = e.to]
  <2>1. e.line \in Line /\ e.to \in Principal
    BY <1>8 DEF LegalOn
  <2>2. /\ r \in LineState /\ r.head = v.lines[e.line].head /\ r.seq = v.lines[e.line].seq
    BY <1>1, <2>1 DEF LineState
  <2>3. Apply(v, e) = [v EXCEPT !.lines[e.line] = r]
    BY <1>1, <1>8, <2>1 DEF Apply
  <2>4. IsFiniteSet(v.lines[e.line].head) /\ v.lines[e.line].head # {}
    BY <1>8, <2>1 DEF Tidy
  <2> HIDE DEF r
  <2> QED
    BY <1>2, <1>6, <2>1, <2>2, <2>3, <2>4
<1>9. CASE e.kind = "coordinator" /\ v.lines[e.line] = NoLine
  <2>1. Apply(v, e) = v
    BY <1>9 DEF Apply
  <2> QED
    BY <1>2, <2>1 DEF LinesGrow
<1> QED
  BY <1>3, <1>4, <1>5, <1>7, <1>8, <1>9 DEF LegalOn

\* One step of the fold of the sides.
FoldOne(f, n) == IF n = 1 THEN side[1] ELSE Merge(base, f[n - 1], side[n])

\* The sides, folded, are a tidy view in which no line of the base is gone.
LEMMA FoldTidy ==
  ASSUME Tidy(base), \A s \in Side : Tidy(side[s]) /\ LinesGrow(base, side[s])
  PROVE  Tidy(FoldSides)
<1> DEFINE Upto(g, k) == g = [n \in 1..k |-> FoldOne(g, n)]
           Good(w) == Tidy(w) /\ LinesGrow(base, w)
           T == {k \in Side : ~ \E g : Upto(g, k) /\ Good(g[k])}
<1>1. Sides \in Nat \ {0} /\ Sides \in Side /\ Side \subseteq Nat \ {0}
  BY ForkAssumption DEF Side
<1>2. T = {}
  <2> SUFFICES ASSUME T # {} PROVE FALSE
    OBVIOUS
  <2>1. PICK k \in T : \A j \in T : k <= j
    <3>1. T \in SUBSET Nat
      BY <1>1
    <3> HIDE DEF T
    <3> QED
      BY <3>1, LeastNatural
  <2>2. k \in Side /\ k \in Nat \ {0} /\ ~ \E g : Upto(g, k) /\ Good(g[k])
    BY <1>1, <2>1
  <2>3. CASE k = 1
    <3> DEFINE g == [n \in 1..1 |-> side[1]]
    <3>1. Upto(g, 1) /\ g[1] = side[1]
      BY DEF FoldOne
    <3> QED
      BY <2>2, <2>3, <3>1
  <2>4. CASE k # 1
    <3>1. k - 1 \in Side /\ k - 1 \notin T
      <4>1. k - 1 \in Side /\ ~(k <= k - 1)
        BY <1>1, <2>2, <2>4 DEF Side
      <4> HIDE DEF T
      <4> QED
        BY <2>1, <4>1
    <3>2. PICK g : Upto(g, k - 1) /\ Good(g[k - 1])
      BY <3>1
    <3> DEFINE h == [n \in 1..k |-> IF n = k THEN Merge(base, g[k - 1], side[k]) ELSE g[n]]
    <3>3. h[k] = Merge(base, g[k - 1], side[k]) /\ h[k - 1] = g[k - 1]
      BY <2>2, <2>4
    <3>4. Good(h[k])
      BY <2>2, <3>2, <3>3, MergeTidy
    <3>5. \A n \in 1..k : h[n] = FoldOne(h, n)
      <4> SUFFICES ASSUME NEW n \in 1..k PROVE h[n] = FoldOne(h, n)
        OBVIOUS
      <4>1. CASE n = k
        BY <2>4, <3>3, <4>1 DEF FoldOne
      <4>2. CASE n # k
        <5>1. n \in 1..(k - 1) /\ (n # 1 => n - 1 \in 1..k /\ n - 1 # k)
          BY <2>2, <4>2
        <5>2. h[n] = g[n] /\ (n # 1 => h[n - 1] = g[n - 1])
          BY <4>2, <5>1
        <5>3. g[n] = FoldOne(g, n)
          BY <3>2, <5>1
        <5> QED
          BY <5>2, <5>3 DEF FoldOne
      <4> QED
        BY <4>1, <4>2
    <3>6. Upto(h, k)
      BY <3>5
    <3> QED
      BY <2>2, <3>4, <3>6
  <2> QED
    BY <2>3, <2>4
<1>3. PICK g : Upto(g, Sides) /\ Good(g[Sides])
  BY <1>1, <1>2
<1> DEFINE IsFold(f) == f = [n \in Side |-> FoldOne(f, n)]
           f == CHOOSE f : IsFold(f)
<1>4. IsFold(g)
  BY <1>3 DEF Side
<1>5. IsFold(f)
  BY <1>4
<1>6. FoldSides = f[Sides]
  BY DEF FoldSides, FoldOne
<1> DEFINE D == {k \in Side : f[k] # g[k]}
<1>7. D = {}
  <2> SUFFICES ASSUME D # {} PROVE FALSE
    OBVIOUS
  <2>1. PICK k \in D : \A j \in D : k <= j
    <3>1. D \in SUBSET Nat
      BY <1>1
    <3> HIDE DEF D
    <3> QED
      BY <3>1, LeastNatural
  <2>2. k \in Side /\ k \in Nat \ {0} /\ f[k] # g[k]
    BY <1>1, <2>1
  <2> HIDE DEF f
  <2>3. f[k] = FoldOne(f, k) /\ g[k] = FoldOne(g, k)
    BY <1>4, <1>5, <2>2
  <2>4. k # 1 => f[k - 1] = g[k - 1]
    <3>1. k # 1 => k - 1 \in Side /\ ~(k <= k - 1)
      BY <1>1, <2>2 DEF Side
    <3>2. k # 1 => k - 1 \in Side /\ k - 1 \notin D
      BY <2>1, <3>1
    <3> QED
      BY <3>2
  <2> QED
    BY <2>2, <2>3, <2>4 DEF FoldOne
<1> HIDE DEF f
<1>8. f[Sides] = g[Sides]
  BY <1>1, <1>7
<1> QED
  BY <1>3, <1>6, <1>8

\* The base and the sides are tidy, and no side has lost a line of the base.
ForkInv ==
  /\ campaign \in Campaign
  /\ Tidy(base)
  /\ DOMAIN side = Side
  /\ \A s \in Side : Tidy(side[s]) /\ LinesGrow(base, side[s])

\* Init establishes it.
LEMMA ForkInit == Init => ForkInv
<1> SUFFICES ASSUME Init PROVE ForkInv
  OBVIOUS
<1> DEFINE r == [head |-> {1}, seq |-> 0, coordinator |-> 1]
           noLines == [l \in Line |-> NoLine]
<1>1. NoLine \in LineState /\ r \in LineState /\ InitLine \in Line /\ 1 \in Principal
  BY ForkAssumption DEF NoLine, LineState
<1>2. /\ InitView.entities = [e \in Entity |-> {}] /\ InitView.proposed = {}
      /\ InitView.revoked = {} /\ InitView.owners = {1} /\ InitView.paused = {}
      /\ InitView.deployed = [t \in Target |-> 0]
      /\ InitView.lines = [l \in Line |-> IF l = InitLine THEN r ELSE NoLine]
  <2>1. EmptyView.lines = noLines
    BY DEF EmptyView
  <2>2. InitView.lines = [noLines EXCEPT ![InitLine] = r]
    BY <2>1 DEF InitView, EmptyView
  <2>3. [noLines EXCEPT ![InitLine] = r] = [l \in Line |-> IF l = InitLine THEN r ELSE NoLine]
    BY <1>1
  <2> QED
    BY <2>2, <2>3 DEF InitView, EmptyView
<1>8. InitView = [entities |-> InitView.entities, proposed |-> InitView.proposed,
                  revoked |-> InitView.revoked, lines |-> InitView.lines,
                  owners |-> InitView.owners, deployed |-> InitView.deployed,
                  paused |-> InitView.paused]
  <2>1. InitView = [EmptyView EXCEPT !.owners = {1}, !.lines = InitView.lines]
    BY DEF InitView, EmptyView
  <2>2. EmptyView = [entities |-> EmptyView.entities, proposed |-> EmptyView.proposed,
                     revoked |-> EmptyView.revoked, lines |-> EmptyView.lines,
                     owners |-> EmptyView.owners, deployed |-> EmptyView.deployed,
                     paused |-> EmptyView.paused]
    BY DEF EmptyView
  <2> QED
    BY <2>1, <2>2
<1> HIDE DEF r
<1>3. InitView \in View
  BY <1>1, <1>2, <1>8 DEF View
<1>4. \A l \in Line : InitView.lines[l] \in {r, NoLine}
  BY <1>2
<1>5. IsFiniteSet(r.head) /\ r.head # {} /\ IsFiniteSet(NoLine.head) /\ IsFiniteSet({})
  BY FS_Singleton, FS_EmptySet DEF r, NoLine
<1>6. Tidy(InitView)
  BY <1>2, <1>3, <1>4, <1>5 DEF Tidy
<1>7. LinesGrow(InitView, InitView)
  BY <1>1, <1>4 DEF LinesGrow, LineState
<1> QED
  BY <1>6, <1>7 DEF Init, ForkInv

\* Every step keeps it.
LEMMA ForkStep == ForkInv /\ [Next]_vars => ForkInv'
<1> SUFFICES ASSUME ForkInv, [Next]_vars PROVE ForkInv'
  OBVIOUS
<1>1. ASSUME NEW w, Tidy(w)
      PROVE  LinesGrow(w, w)
  <2>1. \A l \in Line : w.lines[l] \in LineState
    BY <1>1, ViewParts DEF Tidy
  <2> QED
    BY <2>1 DEF LinesGrow, LineState
<1>2. CASE WriteBase
  <2>1. Tidy(base')
    BY <1>2, LegalNames, ApplyTidy DEF WriteBase, ForkInv
  <2> QED
    BY <1>1, <1>2, <2>1 DEF WriteBase, ForkInv
<1>3. CASE Fork
  BY <1>3 DEF Fork, ForkInv
<1>4. CASE Join
  <2>1. Tidy(base')
    BY <1>4, FoldTidy DEF Join, ForkInv
  <2> QED
    BY <1>1, <1>4, <2>1 DEF Join, ForkInv
<1>5. ASSUME NEW s \in Side, WriteSide(s)
      PROVE  ForkInv'
  <2>1. PICK e \in LegalEffects(side[s]) : side' = [side EXCEPT ![s] = Apply(@, e)]
    BY <1>5 DEF WriteSide
  <2> DEFINE w == Apply(side[s], e)
  <2>2. Tidy(w) /\ LinesGrow(side[s], w)
    BY <2>1, LegalNames, ApplyTidy DEF ForkInv
  <2>3. side' = [side EXCEPT ![s] = w]
    BY <2>1
  <2> HIDE DEF w
  <2>4. LinesGrow(base, w)
    <3>1. LinesGrow(base, side[s])
      BY DEF ForkInv
    <3>2. \A l \in Line : /\ base.lines[l].seq \in Nat /\ side[s].lines[l].seq \in Nat
                          /\ w.lines[l].seq \in Nat
      BY <2>2, ViewParts DEF Tidy, ForkInv, LineState
    <3> QED
      BY <2>2, <3>1, <3>2 DEF LinesGrow
  <2> QED
    BY <1>5, <2>2, <2>3, <2>4 DEF WriteSide, ForkInv
<1>6. CASE UNCHANGED vars
  BY <1>6 DEF vars, ForkInv
<1> QED
  BY <1>2, <1>3, <1>4, <1>5, <1>6 DEF Next

\* Views stay tidy, whatever the writers write and however often they join.
THEOREM ViewsStayTidy == Spec => []ForkInv
BY ForkInit, ForkStep, PTL DEF Spec

\* The rule by which a side that did nothing gives way, for any number of
\* writers and writes: in each part, a change of one side survives the merge.
THEOREM OneSideWins == Spec => []OneSideYields
<1>1. ForkInv => OneSideYields
  <2> SUFFICES ASSUME ForkInv, NEW s \in Side, NEW t \in Side
               PROVE  LET m == Merge(base, side[s], side[t])
                      IN /\ \A e \in Entity : side[s].entities[e] = base.entities[e]
                                                => m.entities[e] = side[t].entities[e]
                         /\ side[s].proposed = base.proposed => m.proposed = side[t].proposed
                         /\ side[s].owners = base.owners => m.owners = side[t].owners
                         /\ \A l \in Line : side[s].lines[l] = base.lines[l]
                                              => m.lines[l] = side[t].lines[l]
                         /\ \A d \in Target : side[s].deployed[d] = base.deployed[d]
                                                => m.deployed[d] = side[t].deployed[d]
    BY DEF OneSideYields
  <2> DEFINE m == Merge(base, side[s], side[t])
  <2>1. \A e \in Entity : side[s].entities[e] = base.entities[e]
                            => m.entities[e] = side[t].entities[e]
    BY DEF Merge, MergePointer, ThreeWay
  <2>2. /\ side[s].proposed = base.proposed => m.proposed = side[t].proposed
        /\ side[s].owners = base.owners => m.owners = side[t].owners
    BY DEF Merge, MergeSet
  <2>3. \A l \in Line : side[s].lines[l] = base.lines[l] => m.lines[l] = side[t].lines[l]
    BY DEF Merge, MergeLine, ThreeWay, ForkInv, LinesGrow
  <2>4. \A d \in Target : side[s].deployed[d] = base.deployed[d]
                            => m.deployed[d] = side[t].deployed[d]
    BY DEF Merge, MergeDeployed, ThreeWay
  <2> QED
    BY <2>1, <2>2, <2>3, <2>4
<1> QED
  BY <1>1, ViewsStayTidy, PTL

\* The rule by which concurrent moves conflict: no version of an entity that
\* nobody removed, and no head of a line the base knows, is lost in a merge.
THEOREM ConcurrentMovesStay == Spec => []ConcurrentMovesKept
<1>1. ForkInv => ConcurrentMovesKept
  <2> SUFFICES ASSUME ForkInv, NEW s \in Side, NEW t \in Side
               PROVE  LET m == Merge(base, side[s], side[t])
                      IN /\ \A e \in Entity :
                              LET x == side[s].entities[e]
                                  y == side[t].entities[e]
                              IN base.entities[e] \notin {x, y}
                                   => m.entities[e] = IF {} \in {x, y} THEN {} ELSE x \cup y
                         /\ \A l \in Line :
                              LET x == side[s].lines[l].head
                                  y == side[t].lines[l].head
                              IN base.lines[l] # NoLine /\ base.lines[l].head \notin {x, y}
                                   => m.lines[l].head = x \cup y
    BY DEF ConcurrentMovesKept
  <2>1. ASSUME NEW e \in Entity, base.entities[e] \notin {side[s].entities[e], side[t].entities[e]}
        PROVE  Merge(base, side[s], side[t]).entities[e]
                 = IF {} \in {side[s].entities[e], side[t].entities[e]} THEN {}
                   ELSE side[s].entities[e] \cup side[t].entities[e]
    BY <2>1 DEF Merge, MergePointer, ThreeWay, BothPointers
  <2>2. ASSUME NEW l \in Line, base.lines[l] # NoLine,
               base.lines[l].head \notin {side[s].lines[l].head, side[t].lines[l].head}
        PROVE  Merge(base, side[s], side[t]).lines[l].head
                 = side[s].lines[l].head \cup side[t].lines[l].head
    <3>1. side[s].lines[l] # NoLine /\ side[t].lines[l] # NoLine
      BY <2>2 DEF ForkInv, LinesGrow
    <3>2. side[s].lines[l] # base.lines[l] /\ side[t].lines[l] # base.lines[l]
      BY <2>2
    <3> QED
      BY <2>2, <3>1, <3>2 DEF Merge, MergeLine, MergeLineState, ThreeWay
  <2> QED
    BY <2>1, <2>2
<1> QED
  BY <1>1, ViewsStayTidy, PTL

\* The merged view of two heads, and of three over a base without conflicts, is
\* the same in whatever order their IDs put them.
THEOREM FoldOrderFree == Spec => []FoldOrderIrrelevant
<1>1. ForkInv => FoldOrderIrrelevant
  <2> SUFFICES ASSUME ForkInv, \A s, t \in Side : NoRivalLines(base, side[s], side[t])
               PROVE  /\ \A s, t \in Side :
                           Merge(base, side[s], side[t]) = Merge(base, side[t], side[s])
                      /\ Settled(base) =>
                           \A s, t, u \in Side :
                             Merge(base, Merge(base, side[s], side[t]), side[u])
                               = Merge(base, Merge(base, side[s], side[u]), side[t])
    BY DEF FoldOrderIrrelevant
  <2>1. ASSUME NEW s \in Side, NEW t \in Side
        PROVE  Merge(base, side[s], side[t]) = Merge(base, side[t], side[s])
    BY MergeSymmetric DEF ForkInv, Tidy
  <2>2. ASSUME Settled(base), NEW s \in Side, NEW t \in Side, NEW u \in Side
        PROVE  Merge(base, Merge(base, side[s], side[t]), side[u])
                 = Merge(base, Merge(base, side[s], side[u]), side[t])
    <3>1. /\ Tidy(base) /\ Tidy(side[s]) /\ Tidy(side[t]) /\ Tidy(side[u])
          /\ \A r \in {side[s], side[t], side[u]} : LinesGrow(base, r)
          /\ \A r, q \in {side[s], side[t], side[u]} : NoRivalLines(base, r, q)
      BY DEF ForkInv
    <3> QED
      BY <2>2, <3>1, MergeAssociative
  <2> QED
    BY <2>1, <2>2
<1> QED
  BY <1>1, ViewsStayTidy, PTL
=============================================================================
