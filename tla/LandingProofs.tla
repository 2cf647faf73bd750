---------------------------- MODULE LandingProofs ----------------------------
(***************************************************************************)
(* Theorems about Landing, for any workspaces, units, keys, plays and      *)
(* bounds.                                                                 *)
(***************************************************************************)
EXTENDS Landing, Groundwork, FiniteSetTheorems, SequenceTheorems, TLAPS

Files == [Path -> SUBSET Nat]

\* A revision as a verb stores it: later than all it names, and reaching what
\* its first parent reaches, down to the first revision.
Good(R, id, rev) ==
  /\ rev.change \in 0..id /\ rev.prev \subseteq 0..id
  /\ rev.files \in Files
  /\ rev.parents \in Seq(Nat) /\ (id = 0 <=> rev.parents = <<>>)
  /\ \A i \in DOMAIN rev.parents : rev.parents[i] \in 0..(id - 1)
  /\ {0, id} \subseteq DOMAIN rev.reach /\ DOMAIN rev.reach \subseteq 0..id
  /\ id # 0 => DOMAIN R[rev.parents[1]].reach \subseteq DOMAIN rev.reach

\* The revisions stored are numbered without gaps, and well built.
Stored(R, n) == n \in Nat /\ DOMAIN R = 0..n /\ \A r \in 0..n : Good(R, r, R[r])

Extends(R, S, n) == \A r \in 0..n : S[r] = R[r]

-----------------------------------------------------------------------------
(***************************************************************************)
(* The walk down the first parents.                                        *)
(***************************************************************************)
WalkStep(R, f, n) ==
  IF R[n].parents = <<>> THEN <<n>> ELSE Append(f[R[n].parents[1]], n)

IsWalk(R, f) == f = [n \in DOMAIN R |-> WalkStep(R, f, n)]

Walk(R) == CHOOSE f : IsWalk(R, f)

\* The first parent of a revision is an earlier one.
LEMMA FirstParent ==
  ASSUME NEW R, NEW n, Stored(R, n), NEW r \in 0..n, R[r].parents # <<>>
  PROVE  R[r].parents[1] \in 0..(r - 1) /\ R[r].parents[1] \in 0..n /\ r # 0
<1>1. /\ R[r].parents \in Seq(Nat) /\ r \in Nat /\ n \in Nat
      /\ \A i \in DOMAIN R[r].parents : R[r].parents[i] \in 0..(r - 1)
  BY DEF Stored, Good
<1>2. 1 \in DOMAIN R[r].parents
  BY <1>1
<1>3. R[r].parents[1] \in 0..(r - 1)
  BY <1>1, <1>2
<1> QED
  BY <1>1, <1>3

\* trunk_history ends: the walk is defined at every revision.
LEMMA WalkDefined ==
  ASSUME NEW R, NEW n, Stored(R, n)
  PROVE  \A r \in 0..n : Walk(R)[r] = WalkStep(R, Walk(R), r)
<1> DEFINE Upto(g, k) == g = [m \in 0..k |-> WalkStep(R, g, m)]
           T == {k \in 0..n : ~ \E g : Upto(g, k)}
<1>0. n \in Nat /\ DOMAIN R = 0..n
  BY DEF Stored
<1>1. T = {}
  <2> SUFFICES ASSUME T # {} PROVE FALSE
    OBVIOUS
  <2>1. PICK k \in T : \A j \in T : k <= j
    <3>1. T \in SUBSET Nat
      BY <1>0
    <3> HIDE DEF T
    <3> QED
      BY <3>1, LeastNatural
  <2>2. k \in 0..n /\ k \in Nat /\ ~ \E g : Upto(g, k)
    BY <1>0, <2>1
  <2>3. CASE k = 0
    <3>1. R[0].parents = <<>>
      BY <1>0 DEF Stored, Good
    <3>2. Upto([m \in 0..0 |-> <<0>>], 0)
      <4> DEFINE g == [m \in 0..0 |-> <<0>>]
      <4>1. \A m \in 0..0 : m = 0
        OBVIOUS
      <4>2. WalkStep(R, g, 0) = <<0>>
        BY <3>1 DEF WalkStep
      <4>3. \A m \in 0..0 : WalkStep(R, g, m) = <<0>>
        BY <4>1, <4>2
      <4> QED
        BY <4>3
    <3> QED
      BY <2>2, <2>3, <3>2
  <2>4. CASE k # 0
    <3>1. k - 1 \in 0..n /\ ~(k <= k - 1)
      BY <1>0, <2>2, <2>4
    <3>2. k - 1 \notin T
      <4> HIDE DEF T
      <4> QED
        BY <2>1, <3>1
    <3>3. PICK g : Upto(g, k - 1)
      BY <3>1, <3>2
    <3> DEFINE h == [m \in 0..k |-> IF m = k THEN WalkStep(R, g, k) ELSE g[m]]
    <3>4. \A m \in 0..k : h[m] = WalkStep(R, h, m)
      <4> SUFFICES ASSUME NEW m \in 0..k PROVE h[m] = WalkStep(R, h, m)
        OBVIOUS
      <4>1. R[m].parents # <<>> => R[m].parents[1] \in 0..(m - 1) /\ R[m].parents[1] \in 0..(k - 1)
        <5>1. m \in 0..n /\ m \in Nat /\ m <= k
          BY <1>0, <2>2
        <5>2. R[m].parents # <<>> => R[m].parents[1] \in 0..(m - 1)
          BY <5>1, FirstParent
        <5> QED
          BY <2>2, <5>1, <5>2
      <4>2. R[m].parents # <<>> => h[R[m].parents[1]] = g[R[m].parents[1]]
        BY <2>2, <4>1
      <4>3. CASE m = k
        BY <4>2, <4>3 DEF WalkStep
      <4>4. CASE m # k
        <5>1. m \in 0..(k - 1)
          BY <2>2, <4>4
        <5>2. g[m] = WalkStep(R, g, m)
          BY <3>3, <5>1
        <5> QED
          BY <4>2, <4>4, <5>2 DEF WalkStep
      <4> QED
        BY <4>3, <4>4
    <3>5. Upto(h, k)
      BY <3>4
    <3> QED
      BY <2>2, <3>5
  <2> QED
    BY <2>3, <2>4
<1>2. n \in 0..n /\ n \notin T
  BY <1>0, <1>1
<1>3. PICK g : Upto(g, n)
  BY <1>2
<1>4. IsWalk(R, g)
  BY <1>0, <1>3 DEF IsWalk
<1>5. IsWalk(R, Walk(R))
  BY <1>4 DEF Walk
<1> QED
  BY <1>0, <1>5 DEF IsWalk

\* A walk stays within what the revision reaches, and is not empty.
LEMMA WalkReaches ==
  ASSUME NEW R, NEW n, Stored(R, n), NEW r \in 0..n
  PROVE  /\ Walk(R)[r] \in Seq(0..n)
         /\ \A i \in DOMAIN Walk(R)[r] : Walk(R)[r][i] \in DOMAIN R[r].reach
<1> DEFINE Ok(k) == /\ Walk(R)[k] \in Seq(0..n)
                    /\ \A i \in DOMAIN Walk(R)[k] : Walk(R)[k][i] \in DOMAIN R[k].reach
           T == {k \in 0..n : ~Ok(k)}
<1>0. n \in Nat
  BY DEF Stored
<1>1. ASSUME NEW k \in 0..n, R[k].parents # <<>> => Ok(R[k].parents[1])
      PROVE  Ok(k)
  <2>1. Walk(R)[k] = WalkStep(R, Walk(R), k)
    BY WalkDefined
  <2>2. k \in DOMAIN R[k].reach
    BY DEF Stored, Good
  <2>3. CASE R[k].parents = <<>>
    BY <2>1, <2>2, <2>3 DEF WalkStep
  <2>4. CASE R[k].parents # <<>>
    <3> DEFINE p == R[k].parents[1]
               s == Walk(R)[p]
    <3>1. DOMAIN R[p].reach \subseteq DOMAIN R[k].reach
      BY <2>4, FirstParent DEF Stored, Good
    <3>2. s \in Seq(0..n) /\ \A i \in DOMAIN s : s[i] \in DOMAIN R[p].reach
      BY <1>1, <2>4
    <3>3. Walk(R)[k] = Append(s, k)
      BY <2>1, <2>4 DEF WalkStep
    <3> HIDE DEF s, p
    <3>4. Append(s, k) \in Seq(0..n)
      BY <3>2
    <3>5. \A i \in DOMAIN Append(s, k) : Append(s, k)[i] \in DOMAIN R[k].reach
      <4> TAKE i \in DOMAIN Append(s, k)
      <4>1. i \in 1..(Len(s) + 1) /\ Len(s) \in Nat
        BY <3>2
      <4>2. CASE i = Len(s) + 1
        BY <2>2, <3>2, <4>2
      <4>3. CASE i # Len(s) + 1
        <5>1. i \in DOMAIN s
          BY <3>2, <4>1, <4>3
        <5> QED
          BY <3>1, <3>2, <4>3, <5>1
      <4> QED
        BY <4>2, <4>3
    <3> QED
      BY <3>3, <3>4, <3>5
  <2> QED
    BY <2>3, <2>4
<1> HIDE DEF Ok
<1>2. T = {}
  <2> SUFFICES ASSUME T # {} PROVE FALSE
    OBVIOUS
  <2>1. PICK k \in T : \A j \in T : k <= j
    <3>1. T \in SUBSET Nat
      BY <1>0
    <3> HIDE DEF T
    <3> QED
      BY <3>1, LeastNatural
  <2>2. R[k].parents # <<>> => R[k].parents[1] \in 0..n /\ ~(k <= R[k].parents[1])
    BY <1>0, <2>1, FirstParent
  <2>3. R[k].parents # <<>> => R[k].parents[1] \notin T
    <3> HIDE DEF T
    <3> QED
      BY <2>1, <2>2
  <2> QED
    BY <1>1, <2>1, <2>2, <2>3
<1> QED
  BY <1>2 DEF Ok

\* What is stored later changes no walk.
LEMMA WalkKept ==
  ASSUME NEW R, NEW n, Stored(R, n), NEW S, NEW m, Stored(S, m), n <= m, Extends(R, S, n),
         NEW r \in 0..n
  PROVE  Walk(S)[r] = Walk(R)[r]
<1> DEFINE T == {k \in 0..n : Walk(S)[k] # Walk(R)[k]}
<1>0. n \in Nat /\ m \in Nat
  BY DEF Stored
<1>1. T = {}
  <2> SUFFICES ASSUME T # {} PROVE FALSE
    OBVIOUS
  <2>1. PICK k \in T : \A j \in T : k <= j
    <3>1. T \in SUBSET Nat
      BY <1>0
    <3> HIDE DEF T
    <3> QED
      BY <3>1, LeastNatural
  <2>2. k \in 0..n /\ k \in 0..m /\ S[k] = R[k] /\ Walk(S)[k] # Walk(R)[k]
    BY <1>0, <2>1 DEF Extends
  <2>3. Walk(S)[k] = WalkStep(S, Walk(S), k) /\ Walk(R)[k] = WalkStep(R, Walk(R), k)
    BY <2>2, WalkDefined
  <2>4. R[k].parents # <<>> => R[k].parents[1] \in 0..n /\ ~(k <= R[k].parents[1])
    BY <1>0, <2>2, FirstParent
  <2>5. R[k].parents # <<>> => R[k].parents[1] \notin T
    <3> HIDE DEF T
    <3> QED
      BY <2>1, <2>4
  <2> QED
    BY <2>2, <2>3, <2>4, <2>5 DEF WalkStep
<1> QED
  BY <1>1

-----------------------------------------------------------------------------
(***************************************************************************)
(* The invariant.                                                          *)
(***************************************************************************)
Last == NextId - 1

\* The types of the variables: everything named is stored.
Tips == [RevId -> SUBSET DOMAIN revs]
Heads == [head : DOMAIN revs, seq : Nat]
Spaces == [Workspace -> [current : DOMAIN revs, files : Files]]
Records == [Workspace -> [Key -> SUBSET (DOMAIN revs \cup {MaxRev + 1})]]
Jobs == [todo : SUBSET DOMAIN revs, tried : SUBSET RevId, left : SUBSET Workspace,
         rev : DOMAIN revs, landing : DOMAIN revs, key : Key \cup {Once}]

\* What an op moved, as an undo reads it: one change at most, from a version of
\* it or from none to a version of it.
OpOK(R, op) ==
  /\ op.author \in Workspace /\ op.final \in BOOLEAN
  /\ op.adds \subseteq DOMAIN R /\ op.drops \subseteq DOMAIN R
  /\ \A pt, qt \in op.point : pt = qt
  /\ \A pt \in op.point :
       /\ pt[1] \in RevId /\ pt[2] \in DOMAIN R \ {0} /\ R[pt[2]].change = pt[1]
       /\ \A from \in pt[3] : from \in DOMAIN R /\ R[from].change = pt[1]
       /\ \A x, y \in pt[3] : x = y

Points == \A op \in ops : OpOK(revs, op)

Typed ==
  /\ play \in Plays
  /\ Stored(revs, Last) /\ Last <= MaxRev
  /\ tip \in Tips
  /\ proposed \subseteq DOMAIN revs
  /\ trunk \in Heads
  /\ ws \in Spaces
  /\ edits \in Nat
  /\ recorded \in Records
  /\ job \in Jobs
  /\ Points

\* The view points a change at one of its versions, or at none.
TipsTrue ==
  \A c \in RevId : /\ \A r \in tip[c] : revs[r].change = c
                   /\ \A r, q \in tip[c] : r = q

\* A change that landed is where it landed.
HistoryTips == \A l \in History : tip[revs[l].change] = {l}

\* An op that may be undone is not a landing.
LandingsAreFinal ==
  \A op \in ops : ~op.final => \A pt \in op.point : pt[2] \notin History

IInv == Typed /\ TipsTrue /\ HistoryTips /\ LandingsAreFinal

-----------------------------------------------------------------------------
(***************************************************************************)
(* Storing revisions.                                                      *)
(***************************************************************************)

\* The number the next revision takes is the one after the last.
LEMMA Numbers ==
  ASSUME Typed
  PROVE  /\ Last \in Nat /\ NextId = Last + 1 /\ NextId \in Nat \ {0}
         /\ DOMAIN revs = 0..Last /\ NextId \notin DOMAIN revs
         /\ DOMAIN revs \subseteq RevId
<1>1. Last \in Nat /\ DOMAIN revs = 0..Last
  BY DEF Typed, Stored
<1>2. 0 \in Int /\ Last \in Int
  BY <1>1
<1>3. Cardinality(0..Last) = Last + 1
  BY <1>1, <1>2, FS_Interval
<1>4. NextId = Last + 1
  BY <1>1, <1>3 DEF NextId
<1>5. MaxRev \in Nat /\ Last <= MaxRev
  BY LandingAssumption DEF Typed
<1> QED
  BY <1>1, <1>4, <1>5 DEF RevId

\* The same, of any range.
LEMMA CountOf ==
  ASSUME NEW n \in Nat
  PROVE  Cardinality(0..n) = n + 1
<1>1. 0 \in Int /\ n \in Int
  OBVIOUS
<1> QED
  BY <1>1, FS_Interval

\* One more revision.
LEMMA OneMore ==
  ASSUME Typed, NEW rev, Good(revs, NextId, rev), NextId <= MaxRev, revs' = Store(NextId, rev)
  PROVE  /\ Stored(revs', NextId) /\ Extends(revs, revs', Last) /\ revs'[NextId] = rev
         /\ DOMAIN revs' = DOMAIN revs \cup {NextId} /\ Last' = NextId
<1>1. /\ Last \in Nat /\ NextId = Last + 1 /\ DOMAIN revs = 0..Last /\ Stored(revs, Last)
  BY Numbers DEF Typed
<1>2. PICK id : id = NextId
  OBVIOUS
<1>3. /\ DOMAIN revs' = 0..id /\ revs'[id] = rev
      /\ \A r \in 0..Last : revs'[r] = revs[r]
  BY <1>1, <1>2 DEF Store
<1>4. \A r \in 0..id : Good(revs', r, revs'[r])
  <2> TAKE r \in 0..id
  <2>1. PICK q : q = revs'[r]
    OBVIOUS
  <2>2. Good(revs, r, q)
    <3>1. CASE r = id
      BY <1>2, <1>3, <2>1, <3>1
    <3>2. CASE r # id
      <4>1. r \in 0..Last
        BY <1>1, <1>2, <3>2
      <4> QED
        BY <1>1, <1>3, <2>1, <4>1 DEF Stored
    <3> QED
      BY <3>1, <3>2
  <2>3. r # 0 => q.parents[1] \in 0..(r - 1)
    <3>1. r # 0 => q.parents # <<>> /\ q.parents \in Seq(Nat)
      BY <2>2 DEF Good
    <3>2. r # 0 => 1 \in DOMAIN q.parents
      BY <3>1
    <3> QED
      BY <2>2, <3>2 DEF Good
  <2>4. r # 0 => q.parents[1] \in 0..Last
    BY <1>1, <1>2, <2>3
  <2> QED
    BY <1>3, <2>1, <2>2, <2>4 DEF Good
<1>5. Cardinality(0..id) = id + 1
  BY <1>1, <1>2, CountOf
<1>6. Last' = id
  BY <1>1, <1>2, <1>3, <1>5 DEF Last, NextId
<1>7. Stored(revs', id) /\ Extends(revs, revs', Last)
  BY <1>1, <1>2, <1>3, <1>4 DEF Stored, Extends
<1>8. DOMAIN revs' = DOMAIN revs \cup {id}
  BY <1>2 DEF Store
<1> QED
  BY <1>2, <1>3, <1>6, <1>7, <1>8

\* What ReachOf computes is what Good asks of a new revision.
LEMMA NewIsGood ==
  ASSUME Typed, NEW change \in 0..NextId, NEW prev, prev \subseteq 0..NextId,
         NEW parents \in Seq(Nat), parents # <<>>,
         \A i \in DOMAIN parents : parents[i] \in DOMAIN revs, NEW files \in Files
  PROVE  Good(revs, NextId, NewRev(NextId, change, prev, parents, files))
<1> DEFINE up == {parents[i] : i \in DOMAIN parents}
           rev == NewRev(NextId, change, prev, parents, files)
<1>1. /\ Last \in Nat /\ NextId = Last + 1 /\ DOMAIN revs = 0..Last /\ Stored(revs, Last)
      /\ NextId \in Nat \ {0}
  BY Numbers DEF Typed
<1>2. 1 \in DOMAIN parents /\ \A i \in DOMAIN parents : parents[i] \in 0..Last
  BY <1>1
<1>3. \A i \in DOMAIN parents : parents[i] \in 0..(NextId - 1)
  BY <1>1, <1>2
<1>4. DOMAIN rev.reach = (UNION {DOMAIN revs[p].reach : p \in up}) \cup {NextId}
  BY DEF NewRev, ReachOf
<1>5. \A p \in up : p \in 0..Last /\ 0 \in DOMAIN revs[p].reach
                    /\ DOMAIN revs[p].reach \subseteq 0..p
  BY <1>1, <1>2 DEF Stored, Good
<1>6. parents[1] \in up
  BY <1>2
<1>7. DOMAIN revs[parents[1]].reach \subseteq DOMAIN rev.reach
  BY <1>4, <1>6
<1>8. 0 \in DOMAIN rev.reach /\ NextId \in DOMAIN rev.reach
  BY <1>4, <1>5, <1>6
<1>9. DOMAIN rev.reach \subseteq 0..NextId
  BY <1>1, <1>4, <1>5
<1>10. /\ rev.change = change /\ rev.prev = prev /\ rev.files = files /\ rev.parents = parents
  BY DEF NewRev
<1> HIDE DEF rev
<1>11. Good(revs, NextId, rev)
  BY <1>1, <1>3, <1>7, <1>8, <1>9, <1>10 DEF Good
<1> QED
  BY <1>11 DEF rev

-----------------------------------------------------------------------------
(***************************************************************************)
(* Trunk.                                                                  *)
(***************************************************************************)

\* trunk_history is the walk from the head, and stays within what has landed.
LEMMA ChainFacts ==
  ASSUME Typed
  PROVE  /\ Chain = Walk(revs)[trunk.head] /\ Chain \in Seq(DOMAIN revs)
         /\ History \subseteq Landed /\ Landed \subseteq DOMAIN revs
         /\ 0 \in Landed /\ trunk.head \in Landed
<1>1. /\ Last \in Nat /\ DOMAIN revs = 0..Last /\ Stored(revs, Last)
      /\ trunk.head \in 0..Last
  BY Numbers DEF Typed, Heads
<1>2. Chain = Walk(revs)[trunk.head]
  BY DEF Chain, Walk, IsWalk, WalkStep
<1>3. /\ Chain \in Seq(DOMAIN revs)
      /\ \A i \in DOMAIN Chain : Chain[i] \in Landed
  BY <1>1, <1>2, WalkReaches DEF Landed
<1>4. {0, trunk.head} \subseteq Landed /\ Landed \subseteq 0..trunk.head
  BY <1>1 DEF Stored, Good, Landed
<1>5. Landed \subseteq DOMAIN revs
  BY <1>1, <1>4
<1> QED
  BY <1>2, <1>3, <1>4, <1>5 DEF History

\* A step stores revisions and changes none.
Grows == Stored(revs', Last') /\ Last <= Last' /\ Extends(revs, revs', Last)

\* A step lands revision id: it is new, and built on the head.
Lands(id) ==
  /\ id \in DOMAIN revs' \ DOMAIN revs
  /\ trunk' = [head |-> id, seq |-> trunk.seq + 1]
  /\ revs'[id].parents[1] = trunk.head
  /\ tip'[revs'[id].change] = {id}
  /\ \A l \in History : revs[l].change # revs'[id].change

\* While the head stays, so does the history, whatever is stored.
LEMMA ChainStays ==
  ASSUME Typed, Grows, trunk' = trunk
  PROVE  Chain' = Chain /\ History' = History /\ Landed' = Landed
<1>1. /\ Last \in Nat /\ DOMAIN revs = 0..Last /\ Stored(revs, Last)
      /\ trunk.head \in 0..Last
  BY Numbers DEF Typed, Heads
<1>2. Chain = Walk(revs)[trunk.head] /\ Chain' = Walk(revs')[trunk'.head]
  BY DEF Chain, Walk, IsWalk, WalkStep
<1>3. Walk(revs')[trunk.head] = Walk(revs)[trunk.head]
  BY <1>1, WalkKept DEF Grows
<1>4. Chain' = Chain
  BY <1>2, <1>3
<1>5. revs'[trunk.head] = revs[trunk.head]
  BY <1>1 DEF Grows, Extends
<1> QED
  BY <1>4, <1>5 DEF History, Landed

\* A landing is added to the history and takes nothing out of it.
LEMMA ChainExtended ==
  ASSUME Typed, Grows, NEW id, Lands(id)
  PROVE  /\ Chain' = Append(Chain, id) /\ History' = History \cup {id}
         /\ Landed \subseteq Landed' /\ id \in Landed'
<1>1. /\ Last \in Nat /\ DOMAIN revs = 0..Last /\ Stored(revs, Last)
      /\ trunk.head \in 0..Last
  BY Numbers DEF Typed, Heads
<1>2. Chain = Walk(revs)[trunk.head] /\ Chain' = Walk(revs')[trunk'.head]
  BY DEF Chain, Walk, IsWalk, WalkStep
<1>3. Last' \in Nat /\ DOMAIN revs' = 0..Last' /\ id \in 0..Last' /\ id # 0
  BY <1>1 DEF Grows, Stored, Lands
<1>4. Walk(revs')[trunk.head] = Walk(revs)[trunk.head]
  BY <1>1, WalkKept DEF Grows
<1>5. Good(revs', id, revs'[id])
  BY <1>3 DEF Grows, Stored
<1>6. revs'[id].parents # <<>>
  BY <1>3, <1>5 DEF Good
<1>7. Walk(revs')[id] = WalkStep(revs', Walk(revs'), id)
  BY <1>3, WalkDefined DEF Grows
<1>8. Chain' = Append(Chain, id)
  BY <1>2, <1>4, <1>6, <1>7 DEF WalkStep, Lands
<1>9. History' = History \cup {id}
  <2>1. Chain \in Seq(DOMAIN revs)
    BY ChainFacts
  <2>2. PICK s : s = Chain
    OBVIOUS
  <2>3. /\ DOMAIN Append(s, id) = 1..(Len(s) + 1) /\ DOMAIN s = 1..Len(s) /\ Len(s) \in Nat
        /\ \A i \in DOMAIN s : Append(s, id)[i] = s[i]
        /\ Append(s, id)[Len(s) + 1] = id
    BY <2>1, <2>2
  <2>4. {Append(s, id)[i] : i \in DOMAIN Append(s, id)} = {s[i] : i \in DOMAIN s} \cup {id}
    BY <2>3
  <2> QED
    BY <1>8, <2>2, <2>4 DEF History
<1>10. /\ DOMAIN revs'[trunk.head].reach \subseteq DOMAIN revs'[id].reach
       /\ id \in DOMAIN revs'[id].reach
  BY <1>3, <1>5 DEF Good, Lands
<1>11. revs'[trunk.head] = revs[trunk.head]
  BY <1>1 DEF Grows, Extends
<1> QED
  BY <1>8, <1>9, <1>10, <1>11 DEF Landed, Lands

\* The rule of check_legality on landed changes, and what is outside of it: an
\* unpoint, of a change without a landing of its own.
Guarded ==
  \A c \in RevId :
    \/ tip'[c] = tip[c]
    \/ tip[c] \cap Landed = {}
    \/ tip'[c] = {} /\ \A l \in History : revs[l].change # c

\* Under it, a change that landed stays where it landed.
LEMMA TipsFollow ==
  ASSUME Typed, HistoryTips, Grows, Guarded, trunk' = trunk \/ \E id : Lands(id)
  PROVE  HistoryTips'
<1>1. /\ DOMAIN revs = 0..Last /\ History \subseteq Landed /\ Landed \subseteq DOMAIN revs
      /\ DOMAIN revs \subseteq RevId /\ Last \in Nat
  BY Numbers, ChainFacts
<1>2. ASSUME NEW l \in History
      PROVE  tip'[revs'[l].change] = {l}
  <2>1. l \in 0..Last /\ revs'[l] = revs[l] /\ l \in Landed
    BY <1>1, <1>2 DEF Grows, Extends
  <2>2. revs[l].change \in 0..l
    BY <2>1 DEF Typed, Stored, Good
  <2>3. revs[l].change \in RevId
    BY <1>1, <2>1, <2>2
  <2>4. tip[revs[l].change] = {l}
    BY DEF HistoryTips
  <2>5. tip'[revs[l].change] = tip[revs[l].change]
    BY <2>1, <2>3, <2>4 DEF Guarded
  <2> QED
    BY <2>1, <2>4, <2>5
<1>3. CASE trunk' = trunk
  BY <1>2, <1>3, ChainStays DEF HistoryTips
<1>4. ASSUME NEW id, Lands(id)
      PROVE  HistoryTips'
  <2>1. History' = History \cup {id}
    BY <1>4, ChainExtended
  <2> QED
    BY <1>2, <1>4, <2>1 DEF HistoryTips, Lands
<1> QED
  BY <1>3, <1>4

-----------------------------------------------------------------------------
(***************************************************************************)
(* What steps have in common.                                              *)
(***************************************************************************)

\* What a step must do for the invariant, and for the properties of steps.
StepOK ==
  /\ Typed' /\ TipsTrue' /\ LandingsAreFinal'
  /\ Grows /\ Guarded
  /\ trunk' = trunk \/ \E id : Lands(id)

\* Least picks a member.
LEMMA LeastIn ==
  ASSUME NEW S \in SUBSET Nat, S # {}
  PROVE  Least(S) \in S
<1>1. \E n \in S : \A m \in S : n <= m
  BY LeastNatural
<1> QED
  BY <1>1 DEF Least

\* A merge of files is files.
LEMMA MergedFiles ==
  ASSUME NEW b, NEW x \in Files, NEW y \in Files
  PROVE  Merged(b, x, y) \in Files
<1>1. \A p \in Path : x[p] \in SUBSET Nat /\ y[p] \in SUBSET Nat /\ x[p] \cup y[p] \in SUBSET Nat
  BY DEF Files
<1> QED
  BY <1>1 DEF Merged, Files

\* A change that has no revision yet is nowhere.
LEMMA NewChange ==
  ASSUME Typed, TipsTrue, NEW c \in RevId, c \notin DOMAIN revs
  PROVE  tip[c] = {}
<1>1. \A r \in DOMAIN revs : revs[r].change \in 0..r /\ r \in 0..Last /\ DOMAIN revs = 0..Last
  BY Numbers DEF Typed, Stored, Good
<1>2. c \in Nat /\ Last \in Nat
  BY Numbers DEF RevId
<1>3. ASSUME NEW r \in tip[c]
      PROVE  FALSE
  <2>1. r \in DOMAIN revs /\ revs[r].change = c
    BY DEF Typed, Tips, TipsTrue
  <2> QED
    BY <1>1, <1>2, <2>1
<1> QED
  BY <1>3

\* What a step leaves alone keeps its type, while revisions are added.
LEMMA Carried ==
  ASSUME Typed, Grows
  PROVE  /\ DOMAIN revs \subseteq DOMAIN revs'
         /\ \A r \in DOMAIN revs : revs'[r] = revs[r]
         /\ (tip' = tip => tip' \in Tips')
         /\ (proposed' = proposed => proposed' \subseteq DOMAIN revs')
         /\ (trunk' = trunk => trunk' \in Heads')
         /\ (ws' = ws => ws' \in Spaces')
         /\ (recorded' = recorded => recorded' \in Records')
         /\ (job' = job => job' \in Jobs')
         /\ \A op : OpOK(revs, op) => OpOK(revs', op)
         /\ (ops' = ops => Points')
<1>1. DOMAIN revs = 0..Last /\ DOMAIN revs' = 0..Last' /\ Last \in Nat /\ Last' \in Nat
  BY Numbers DEF Grows, Stored
<1>2. DOMAIN revs \subseteq DOMAIN revs' /\ \A r \in DOMAIN revs : revs'[r] = revs[r]
  BY <1>1 DEF Grows, Extends
<1>3. tip' = tip => tip' \in Tips'
  BY <1>2 DEF Typed, Tips
<1>4. (trunk' = trunk => trunk' \in Heads') /\ (ws' = ws => ws' \in Spaces')
  BY <1>2 DEF Typed, Heads, Spaces
<1>5. recorded' = recorded => recorded' \in Records'
  BY <1>2 DEF Typed, Records
<1>6. job' = job => job' \in Jobs'
  BY <1>2 DEF Typed, Jobs
<1>7. \A op : OpOK(revs, op) => OpOK(revs', op)
  BY <1>2 DEF OpOK
<1>8. ops' = ops => Points'
  BY <1>7 DEF Typed, Points
<1>9. proposed' = proposed => proposed' \subseteq DOMAIN revs'
  BY <1>2 DEF Typed
<1> QED
  BY <1>2, <1>3, <1>4, <1>5, <1>6, <1>7, <1>8, <1>9

\* A change is pointed at a version of it.
LEMMA TipMoved ==
  ASSUME Typed, TipsTrue, Grows, NEW id \in DOMAIN revs', NEW c \in RevId,
         revs'[id].change = c, tip' = [tip EXCEPT ![c] = {id}]
  PROVE  tip' \in Tips' /\ TipsTrue' /\ tip'[c] = {id}
<1>1. DOMAIN revs \subseteq DOMAIN revs' /\ \A r \in DOMAIN revs : revs'[r] = revs[r]
  BY Carried
<1>2. tip \in [RevId -> SUBSET DOMAIN revs]
  BY DEF Typed, Tips
<1>3. tip' \in Tips' /\ tip'[c] = {id} /\ \A d \in RevId : d # c => tip'[d] = tip[d]
  BY <1>1, <1>2 DEF Tips
<1>4. TipsTrue'
  BY <1>1, <1>2, <1>3 DEF TipsTrue
<1> QED
  BY <1>3, <1>4

\* No change is pointed elsewhere.
LEMMA TipsStay ==
  ASSUME Typed, TipsTrue, Grows, tip' = tip
  PROVE  tip' \in Tips' /\ TipsTrue' /\ Guarded
<1>1. \A r \in DOMAIN revs : revs'[r] = revs[r]
  BY Carried
<1>2. tip \in [RevId -> SUBSET DOMAIN revs]
  BY DEF Typed, Tips
<1> QED
  BY <1>1, <1>2, Carried DEF TipsTrue, Guarded

\* What a step records under a key is stored, or is no revision at all.
LEMMA Recorded ==
  ASSUME Typed, Grows, NEW w \in Workspace, NEW k \in Key \cup {Once},
         NEW first \in DOMAIN revs' \cup {MaxRev + 1}, Record(w, k, first)
  PROVE  recorded' \in Records'
<1>1. DOMAIN revs \subseteq DOMAIN revs'
  BY Carried
<1>2. CASE k = Once \/ Repeated(w, k)
  BY <1>2, Carried DEF Record
<1>3. CASE ~(k = Once \/ Repeated(w, k))
  <2>1. recorded' = [recorded EXCEPT ![w][k] = {first}] /\ k \in Key
    BY <1>3 DEF Record
  <2>2. recorded \in [Workspace -> [Key -> SUBSET (DOMAIN revs \cup {MaxRev + 1})]]
    BY DEF Typed, Records
  <2>3. recorded' \in [Workspace -> [Key -> SUBSET (DOMAIN revs' \cup {MaxRev + 1})]]
    BY <1>1, <2>1, <2>2
  <2> QED
    BY <2>3 DEF Records
<1> QED
  BY <1>2, <1>3

\* The ops an undo may name, after one more or none.
LEMMA Logged ==
  ASSUME Typed, LandingsAreFinal, Grows, trunk' = trunk \/ \E id : Lands(id),
         NEW op, OpOK(revs', op), op.final \/ \A pt \in op.point : pt[2] \notin History',
         ops' \subseteq ops \cup {op}
  PROVE  Points' /\ LandingsAreFinal'
<1>1. Points'
  BY Carried DEF Typed, Points
<1>2. \A l \in History' : l \in History \/ l \notin DOMAIN revs
  BY ChainStays, ChainExtended DEF Lands
<1>3. ASSUME NEW q \in ops, ~q.final, NEW pt \in q.point
      PROVE  pt[2] \notin History'
  <2>1. pt[2] \in DOMAIN revs
    BY DEF Typed, Points, OpOK
  <2>2. pt[2] \notin History
    BY <1>3 DEF LandingsAreFinal
  <2> QED
    BY <1>2, <2>1, <2>2
<1>4. LandingsAreFinal'
  BY <1>3 DEF LandingsAreFinal
<1> QED
  BY <1>1, <1>4

\* The same, when nothing is logged.
LEMMA NothingLogged ==
  ASSUME Typed, LandingsAreFinal, Grows, trunk' = trunk \/ \E id : Lands(id), ops' = ops
  PROVE  Points' /\ LandingsAreFinal'
<1>1. \A l \in History' : l \in History \/ l \notin DOMAIN revs
  BY ChainStays, ChainExtended DEF Lands
<1>2. ASSUME NEW q \in ops, ~q.final, NEW pt \in q.point
      PROVE  pt[2] \notin History'
  <2>1. pt[2] \in DOMAIN revs
    BY DEF Typed, Points, OpOK
  <2>2. pt[2] \notin History
    BY <1>2 DEF LandingsAreFinal
  <2> QED
    BY <1>1, <2>1, <2>2
<1>3. LandingsAreFinal'
  BY <1>2 DEF LandingsAreFinal
<1> QED
  BY <1>3, Carried

\* A step that stores nothing.
LEMMA NothingStored ==
  ASSUME Typed, revs' = revs
  PROVE  Grows /\ Last' = Last /\ Last' <= MaxRev
<1>1. Last' = Last /\ Last \in Nat
  BY Numbers DEF Last, NextId
<1> QED
  BY <1>1 DEF Typed, Grows, Extends

\* A step that stores one revision.
LEMMA OneStored ==
  ASSUME Typed, NEW change \in 0..NextId, NEW prev, prev \subseteq 0..NextId,
         NEW parents \in Seq(Nat), parents # <<>>,
         \A i \in DOMAIN parents : parents[i] \in DOMAIN revs, NEW files \in Files,
         NextId <= play.revs,
         revs' = Store(NextId, NewRev(NextId, change, prev, parents, files))
  PROVE  /\ Grows /\ Last' <= MaxRev
         /\ NextId \in DOMAIN revs' \ DOMAIN revs /\ NextId # 0 /\ NextId \in RevId
         /\ revs'[NextId].change = change /\ revs'[NextId].parents = parents
         /\ change \in RevId
<1>1. /\ Last \in Nat /\ NextId = Last + 1 /\ NextId \in Nat \ {0} /\ NextId \notin DOMAIN revs
  BY Numbers
<1>2. play.revs \in 0..MaxRev /\ MaxRev \in Nat
  BY LandingAssumption DEF Typed
<1>3. NextId <= MaxRev
  BY <1>1, <1>2
<1> DEFINE rev == NewRev(NextId, change, prev, parents, files)
<1>4. Good(revs, NextId, rev)
  BY NewIsGood
<1>5. rev.change = change /\ rev.parents = parents
  BY DEF NewRev
<1> HIDE DEF rev
<1>6. /\ Stored(revs', NextId) /\ Extends(revs, revs', Last) /\ revs'[NextId] = rev
      /\ DOMAIN revs' = DOMAIN revs \cup {NextId} /\ Last' = NextId
  BY <1>3, <1>4, OneMore DEF rev
<1> QED
  BY <1>1, <1>2, <1>3, <1>5, <1>6 DEF Grows, RevId

\* What a behaviour calls is within the constants.
LEMMA Playing ==
  ASSUME Typed
  PROVE  /\ Root \in Workspace /\ play.spaces \subseteq Workspace /\ Once \notin Key
         /\ MaxRev \in Nat /\ play.revs \in 0..MaxRev
         /\ \A verb : Keys(verb) \subseteq Key \cup {Once}
<1> QED
  BY LandingAssumption DEF Typed, Keys

\* A workspace's revision and files, and what is known of a stored revision.
LEMMA Known ==
  ASSUME Typed
  PROVE  /\ \A w \in Workspace : ws[w].current \in DOMAIN revs /\ ws[w].files \in Files
         /\ \A r \in DOMAIN revs :
              /\ r \in Nat /\ r \in 0..Last /\ r < NextId
              /\ revs[r].change \in 0..r /\ revs[r].change \in RevId
              /\ revs[r].change \in 0..NextId
              /\ revs[r].files \in Files /\ revs[r].parents \in Seq(Nat)
              /\ \A i \in DOMAIN revs[r].parents : revs[r].parents[i] \in DOMAIN revs
              /\ r # 0 => revs[r].parents # <<>> /\ revs[r].parents[1] \in DOMAIN revs
<1>1. /\ Last \in Nat /\ NextId = Last + 1 /\ DOMAIN revs = 0..Last /\ DOMAIN revs \subseteq RevId
      /\ MaxRev \in Nat /\ Last <= MaxRev
  BY Numbers, Playing DEF Typed
<1>2. \A w \in Workspace : ws[w].current \in DOMAIN revs /\ ws[w].files \in Files
  BY DEF Typed, Spaces
<1>3. ASSUME NEW r \in DOMAIN revs
      PROVE  /\ r \in Nat /\ r \in 0..Last /\ r < NextId
             /\ revs[r].change \in 0..r /\ revs[r].change \in RevId
             /\ revs[r].change \in 0..NextId
             /\ revs[r].files \in Files /\ revs[r].parents \in Seq(Nat)
             /\ \A i \in DOMAIN revs[r].parents : revs[r].parents[i] \in DOMAIN revs
             /\ r # 0 => revs[r].parents # <<>> /\ revs[r].parents[1] \in DOMAIN revs
  <2>1. r \in 0..Last /\ Good(revs, r, revs[r])
    BY <1>1, <1>3 DEF Typed, Stored
  <2>2. PICK rev : rev = revs[r]
    OBVIOUS
  <2>3. /\ rev.change \in 0..r /\ rev.files \in Files /\ rev.parents \in Seq(Nat)
        /\ \A i \in DOMAIN rev.parents : rev.parents[i] \in 0..(r - 1)
        /\ r # 0 => rev.parents # <<>>
    BY <2>1, <2>2 DEF Good
  <2>4. \A i \in DOMAIN rev.parents : rev.parents[i] \in DOMAIN revs
    BY <1>1, <2>1, <2>3
  <2>5. r # 0 => 1 \in DOMAIN rev.parents
    BY <2>3
  <2>6. rev.change \in RevId /\ rev.change \in 0..NextId
    BY <1>1, <2>1, <2>3 DEF RevId
  <2> QED
    BY <1>1, <2>1, <2>2, <2>3, <2>4, <2>5, <2>6
<1> QED
  BY <1>2, <1>3

\* Where the rule is asked, it holds.
LEMMA Legal ==
  ASSUME Typed, NEW c \in RevId, NEW prev, PointLegal(c, prev), NEW to,
         tip' = [tip EXCEPT ![c] = to]
  PROVE  Guarded
<1>1. tip[c] = {} \/ tip[c] \cap Landed = {}
  BY DEF PointLegal
<1>2. \A d \in RevId : d # c => tip'[d] = tip[d]
  BY DEF Typed, Tips
<1> QED
  BY <1>1, <1>2 DEF Guarded

\* The op of a step that points a change at what it stores.
IsPoint(op, w, c, id) ==
  /\ op.author = w /\ op.final \in BOOLEAN /\ op.point = {<<c, id, tip[c]>>}
  /\ op.adds \subseteq DOMAIN revs' /\ op.drops \subseteq DOMAIN revs'

\* Such an op is as the invariant asks.
LEMMA OpPoints ==
  ASSUME Typed, TipsTrue, Grows, NEW w \in Workspace, NEW c \in RevId,
         NEW id \in DOMAIN revs' \ DOMAIN revs, id # 0, revs'[id].change = c,
         NEW op, IsPoint(op, w, c, id)
  PROVE  OpOK(revs', op)
<1>1. DOMAIN revs \subseteq DOMAIN revs' /\ \A r \in DOMAIN revs : revs'[r] = revs[r]
  BY Carried
<1>2. /\ \A from \in tip[c] : from \in DOMAIN revs' /\ revs'[from].change = c
      /\ \A x, y \in tip[c] : x = y
  BY <1>1 DEF Typed, Tips, TipsTrue
<1> QED
  BY <1>2 DEF OpOK, IsPoint

\* A step that points a change at a revision it stores, trunk left alone.
LEMMA Pointed ==
  ASSUME Typed, TipsTrue, LandingsAreFinal, Grows, NEW w \in Workspace, NEW c \in RevId,
         NEW id \in DOMAIN revs' \ DOMAIN revs, id # 0, revs'[id].change = c,
         tip' = [tip EXCEPT ![c] = {id}], trunk' = trunk,
         NEW op, IsPoint(op, w, c, id), ops' \subseteq ops \cup {op}
  PROVE  tip' \in Tips' /\ TipsTrue' /\ Points' /\ LandingsAreFinal'
<1>1. tip' \in Tips' /\ TipsTrue'
  BY TipMoved
<1>2. OpOK(revs', op)
  BY OpPoints
<1>3. History' = History /\ History \subseteq DOMAIN revs
  BY ChainStays, ChainFacts
<1>4. \A pt \in op.point : pt[2] \notin History'
  BY <1>3 DEF IsPoint
<1> QED
  BY <1>1, <1>2, <1>4, Logged

-----------------------------------------------------------------------------
(***************************************************************************)
(* Each action.                                                            *)
(***************************************************************************)

\* Writing a file.
LEMMA EditOK ==
  ASSUME IInv, NEW w \in play.spaces, NEW p \in Path, Edit(w, p)
  PROVE  StepOK
<1> USE DEF IInv
<1>1. /\ edits' = edits + 1 /\ ws' = [ws EXCEPT ![w].files[p] = {edits'}]
      /\ UNCHANGED <<revs, tip, proposed, trunk, ops, recorded, job, play>>
  BY DEF Edit
<1>2. Grows /\ Last' = Last /\ Last' <= MaxRev
  BY <1>1, NothingStored
<1>3. edits' \in Nat /\ w \in Workspace
  BY <1>1, Playing DEF Typed
<1>4. ws' \in Spaces'
  <2>1. ws \in [Workspace -> [current : DOMAIN revs, files : [Path -> SUBSET Nat]]]
    BY DEF Typed, Spaces, Files
  <2>2. [ws[w].files EXCEPT ![p] = {edits'}] \in [Path -> SUBSET Nat]
    BY <1>3, <2>1
  <2>3. PICK files : files = [ws[w].files EXCEPT ![p] = {edits'}]
    OBVIOUS
  <2>4. ws' = [ws EXCEPT ![w].files = files]
    BY <1>1, <2>3
  <2>5. ws' \in [Workspace -> [current : DOMAIN revs, files : [Path -> SUBSET Nat]]]
    BY <1>3, <2>1, <2>2, <2>3, <2>4
  <2> QED
    BY <1>1, <2>5 DEF Spaces, Files
<1>5. Points' /\ LandingsAreFinal'
  BY <1>1, <1>2, NothingLogged
<1>6. tip' \in Tips' /\ TipsTrue' /\ Guarded
  BY <1>1, <1>2, TipsStay
<1>7. Typed'
  BY <1>1, <1>2, <1>3, <1>4, <1>5, <1>6, Carried DEF Typed, Grows
<1> QED
  BY <1>1, <1>2, <1>5, <1>6, <1>7 DEF StepOK

\* A candidate edit.
LEMMA TryOK ==
  ASSUME IInv, NEW w \in play.spaces, NEW p \in Path, Try(w, p)
  PROVE  StepOK
<1> USE DEF IInv
<1> DEFINE id == NextId
           cur == ws[w].current
           files == [revs[cur].files EXCEPT ![p] = {edits'}]
<1>1. /\ id <= play.revs /\ edits' = edits + 1
      /\ revs' = Store(id, NewRev(id, id, {}, <<cur>>, files))
      /\ tip' = [tip EXCEPT ![id] = {id}]
      /\ Log(OpOf(w, {<<id, id, {}>>}, {}, {}, FALSE))
      /\ UNCHANGED <<proposed, trunk, ws, recorded, job, play>>
  BY DEF Try
<1>2. /\ w \in Workspace /\ edits' \in Nat /\ cur \in DOMAIN revs /\ cur \in Nat
      /\ revs[cur].files \in Files /\ id \in Nat
  BY <1>1, Playing, Known, Numbers DEF Typed
<1>3. files \in Files
  BY <1>2 DEF Files
<1> HIDE DEF files
<1>4. <<cur>> \in Seq(Nat) /\ <<cur>> # <<>> /\ \A i \in DOMAIN <<cur>> : <<cur>>[i] \in DOMAIN revs
  BY <1>2
<1>5. id \in 0..NextId
  BY <1>2
<1>6. /\ Grows /\ Last' <= MaxRev
      /\ id \in DOMAIN revs' \ DOMAIN revs /\ id # 0 /\ id \in RevId
      /\ revs'[id].change = id
  BY <1>1, <1>3, <1>4, <1>5, OneStored
<1>7. tip[id] = {}
  BY <1>6, NewChange
<1>8. tip' \in Tips' /\ TipsTrue' /\ Points' /\ LandingsAreFinal'
  <2>1. PICK op : op = OpOf(w, {<<id, id, tip[id]>>}, {}, {}, FALSE)
    OBVIOUS
  <2>2. IsPoint(op, w, id, id)
    BY <2>1 DEF IsPoint, OpOf
  <2>3. ops' \subseteq ops \cup {op}
    BY <1>1, <1>7, <2>1 DEF Log
  <2> QED
    BY <1>1, <1>2, <1>6, <2>2, <2>3, Pointed
<1>9. Guarded
  BY <1>1, <1>6, <1>7, Legal DEF PointLegal
<1>10. Typed'
  BY <1>1, <1>2, <1>6, <1>8, Carried DEF Typed, Grows
<1> QED
  BY <1>1, <1>6, <1>8, <1>9, <1>10 DEF StepOK

\* A snapshot, the repeat of one included.
LEMMA SnapshotOK ==
  ASSUME IInv, NEW w \in play.spaces, NEW k \in Keys("snapshot"), Snapshot(w, k)
  PROVE  StepOK
<1> USE DEF IInv
<1> DEFINE id == NextId
           rev == SnapshotOf(w, id)
           cur == ws[w].current
           kept == IF Repeated(w, k) THEN recorded[w][k] \cap RevId ELSE {}
<1>1. /\ id <= play.revs
      /\ Repeated(w, k) \/ PointLegal(rev.change, rev.prev)
      /\ revs' = Store(id, rev)
      /\ tip' = IF Repeated(w, k) THEN tip ELSE [tip EXCEPT ![rev.change] = {id}]
      /\ ws' = [ws EXCEPT ![w].current = IF kept = {} THEN id ELSE Least(kept)]
      /\ Record(w, k, id)
      /\ IF Repeated(w, k) THEN UNCHANGED ops
         ELSE Log(OpOf(w, {<<rev.change, id, tip[rev.change]>>}, {}, {}, FALSE))
      /\ UNCHANGED <<proposed, trunk, edits, job, play>>
  BY DEF Snapshot
<1>2. /\ w \in Workspace /\ k \in Key \cup {Once} /\ cur \in DOMAIN revs /\ cur \in Nat
      /\ ws[w].files \in Files /\ id \in Nat /\ cur < id
  BY Playing, Known, Numbers
<1> DEFINE Built(change, prev, parents) ==
             /\ rev = NewRev(id, change, prev, parents, ws[w].files)
             /\ change \in 0..id /\ prev \subseteq 0..id
             /\ parents \in Seq(Nat) /\ parents # <<>>
             /\ \A i \in DOMAIN parents : parents[i] \in DOMAIN revs
<1>3. PICK change, prev, parents : Built(change, prev, parents)
  <2>1. CASE cur \in Landed
    <3>1. /\ <<cur>> \in Seq(Nat) /\ <<cur>> # <<>>
          /\ \A i \in DOMAIN <<cur>> : <<cur>>[i] \in DOMAIN revs
      BY <1>2
    <3>2. id \in 0..id /\ {} \subseteq 0..id
      BY <1>2
    <3>3. rev = NewRev(id, id, {}, <<cur>>, ws[w].files)
      BY <2>1 DEF SnapshotOf
    <3> HIDE DEF rev
    <3>4. Built(id, {}, <<cur>>)
      BY <3>1, <3>2, <3>3
    <3> HIDE DEF Built
    <3> QED
      BY <3>4
  <2>2. CASE cur \notin Landed
    <3>1. cur # 0
      BY <2>2, ChainFacts
    <3>2. /\ revs[cur].change \in 0..id
          /\ revs[cur].parents \in Seq(Nat) /\ revs[cur].parents # <<>>
          /\ \A i \in DOMAIN revs[cur].parents : revs[cur].parents[i] \in DOMAIN revs
      BY <1>2, <3>1, Known
    <3>3. {cur} \subseteq 0..id
      BY <1>2
    <3>4. Built(revs[cur].change, {cur}, revs[cur].parents)
      BY <2>2, <3>2, <3>3 DEF SnapshotOf
    <3> HIDE DEF Built
    <3> QED
      BY <3>4
  <2> QED
    BY <2>1, <2>2
<1>4. rev.change = change /\ rev.prev = prev
  BY <1>3 DEF NewRev
<1> HIDE DEF rev, kept
<1>5. /\ Grows /\ Last' <= MaxRev
      /\ id \in DOMAIN revs' \ DOMAIN revs /\ id # 0 /\ id \in RevId
      /\ revs'[id].change = change /\ change \in RevId
  BY <1>1, <1>2, <1>3, OneStored
<1>6. recorded' \in Records'
  BY <1>1, <1>2, <1>5, Recorded
<1>7. ws' \in Spaces'
  <2>1. kept \subseteq DOMAIN revs
    <3>1. k # Once => recorded[w][k] \subseteq DOMAIN revs \cup {MaxRev + 1}
      BY <1>2 DEF Typed, Records
    <3>2. MaxRev + 1 \notin RevId
      BY Playing DEF RevId
    <3> QED
      BY <3>1, <3>2 DEF kept, Repeated
  <2>2. kept # {} => Least(kept) \in DOMAIN revs
    BY <2>1, LeastIn, Known
  <2>3. PICK to \in DOMAIN revs' : ws' = [ws EXCEPT ![w].current = to]
    BY <1>1, <1>5, <2>2, Carried
  <2>4. DOMAIN revs \subseteq DOMAIN revs'
    BY <1>5, Carried
  <2>5. ws \in [Workspace -> [current : DOMAIN revs', files : Files]]
    BY <2>4 DEF Typed, Spaces
  <2>6. ws' \in [Workspace -> [current : DOMAIN revs', files : Files]]
    BY <1>2, <2>3, <2>5
  <2> QED
    BY <2>6 DEF Spaces
<1>8. CASE Repeated(w, k)
  <2>1. tip' = tip /\ ops' = ops /\ trunk' = trunk
    BY <1>1, <1>8
  <2>2. tip' \in Tips' /\ TipsTrue' /\ Guarded
    BY <1>5, <2>1, TipsStay
  <2>3. Points' /\ LandingsAreFinal'
    BY <1>5, <2>1, NothingLogged
  <2>4. Typed'
    BY <1>1, <1>5, <1>6, <1>7, <2>2, <2>3, Carried DEF Typed, Grows
  <2> QED
    BY <1>5, <2>1, <2>2, <2>3, <2>4 DEF StepOK
<1>9. CASE ~Repeated(w, k)
  <2>1. /\ tip' = [tip EXCEPT ![change] = {id}] /\ trunk' = trunk
        /\ Log(OpOf(w, {<<change, id, tip[change]>>}, {}, {}, FALSE))
        /\ PointLegal(change, prev)
    BY <1>1, <1>4, <1>9
  <2>2. tip' \in Tips' /\ TipsTrue' /\ Points' /\ LandingsAreFinal'
    <3>1. PICK op : op = OpOf(w, {<<change, id, tip[change]>>}, {}, {}, FALSE)
      OBVIOUS
    <3>2. IsPoint(op, w, change, id)
      BY <3>1 DEF IsPoint, OpOf
    <3>3. ops' \subseteq ops \cup {op}
      BY <2>1, <3>1 DEF Log
    <3> QED
      BY <1>2, <1>5, <2>1, <3>2, <3>3, Pointed
  <2>3. Guarded
    BY <1>5, <2>1, Legal
  <2>4. Typed'
    BY <1>1, <1>5, <1>6, <1>7, <2>2, Carried DEF Typed, Grows
  <2> QED
    BY <1>5, <2>1, <2>2, <2>3, <2>4 DEF StepOK
<1> QED
  BY <1>8, <1>9

\* A rewind to any stored revision.
LEMMA RewindOK ==
  ASSUME IInv, NEW w \in play.spaces, NEW r \in DOMAIN revs, Rewind(w, r)
  PROVE  StepOK
<1> USE DEF IInv
<1>1. /\ ws' = [ws EXCEPT ![w] = [current |-> r, files |-> revs[r].files]]
      /\ UNCHANGED <<revs, tip, proposed, trunk, edits, ops, recorded, job, play>>
  BY DEF Rewind
<1>2. Grows /\ Last' = Last /\ Last' <= MaxRev
  BY <1>1, NothingStored
<1>3. ws' \in Spaces'
  <2>1. revs[r].files \in Files
    BY Known
  <2>2. [current |-> r, files |-> revs[r].files] \in [current : DOMAIN revs, files : Files]
    BY <2>1
  <2> QED
    BY <1>1, <2>2 DEF Typed, Spaces
<1>4. Points' /\ LandingsAreFinal'
  BY <1>1, <1>2, NothingLogged
<1>5. tip' \in Tips' /\ TipsTrue' /\ Guarded
  BY <1>1, <1>2, TipsStay
<1>6. Typed'
  BY <1>1, <1>2, <1>3, <1>4, <1>5, Carried DEF Typed, Grows
<1> QED
  BY <1>1, <1>2, <1>4, <1>5, <1>6 DEF StepOK

\* A proposal.
LEMMA ProposeOK ==
  ASSUME IInv, NEW w \in play.spaces, NEW k \in Keys("propose"), Propose(w, k)
  PROVE  StepOK
<1> USE DEF IInv
<1> DEFINE r == ws[w].current
           op == OpOf(w, {}, {r}, {}, FALSE)
<1>1. /\ proposed' = proposed \cup {r}
      /\ Record(w, k, MaxRev + 1)
      /\ Log(op)
      /\ UNCHANGED <<revs, tip, trunk, ws, edits, job, play>>
  BY DEF Propose
<1>2. Grows /\ Last' = Last /\ Last' <= MaxRev
  BY <1>1, NothingStored
<1>3. w \in Workspace /\ k \in Key \cup {Once} /\ r \in DOMAIN revs
  BY Playing, Known
<1>4. recorded' \in Records'
  BY <1>1, <1>2, <1>3, Recorded
<1>5. OpOK(revs', op) /\ op.point = {}
  BY <1>1, <1>3 DEF OpOK, OpOf
<1>6. ops' \subseteq ops \cup {op}
  BY <1>1 DEF Log
<1>7. proposed' \subseteq DOMAIN revs'
  BY <1>1, <1>3 DEF Typed
<1> HIDE DEF op, r
<1>8. Points' /\ LandingsAreFinal'
  BY <1>1, <1>2, <1>5, <1>6, Logged
<1>9. tip' \in Tips' /\ TipsTrue' /\ Guarded
  BY <1>1, <1>2, TipsStay
<1>10. Typed'
  BY <1>1, <1>2, <1>4, <1>7, <1>8, <1>9, Carried DEF Typed, Grows
<1> QED
  BY <1>1, <1>2, <1>8, <1>9, <1>10 DEF StepOK

\* A pass begins.
LEMMA StartPassOK ==
  ASSUME IInv, NEW k \in Keys("all"), StartPass(k)
  PROVE  StepOK
<1> USE DEF IInv
<1>1. /\ job' = [NoJob EXCEPT !.todo = proposed \ Landed, !.key = k]
      /\ UNCHANGED <<revs, tip, proposed, trunk, ws, edits, ops, recorded, play>>
  BY DEF StartPass
<1>2. Grows /\ Last' = Last /\ Last' <= MaxRev
  BY <1>1, NothingStored
<1>3. job' \in Jobs'
  <2>1. k \in Key \cup {Once} /\ 0 \in DOMAIN revs
    BY Playing, ChainFacts
  <2>2. proposed \ Landed \subseteq DOMAIN revs
    BY DEF Typed
  <2> QED
    BY <1>1, <2>1, <2>2 DEF Jobs, NoJob
<1>4. Points' /\ LandingsAreFinal'
  BY <1>1, <1>2, NothingLogged
<1>5. tip' \in Tips' /\ TipsTrue' /\ Guarded
  BY <1>1, <1>2, TipsStay
<1>6. Typed'
  BY <1>1, <1>2, <1>3, <1>4, <1>5, Carried DEF Typed, Grows
<1> QED
  BY <1>1, <1>2, <1>4, <1>5, <1>6 DEF StepOK

\* What is left of a job is a job.
LEMMA LeftJob ==
  ASSUME Typed, Grows, NEW j \in Jobs, NEW left, left \subseteq Workspace
  PROVE  Left(j, left) \in Jobs' /\ (left # {} => Left(j, left).todo = j.todo)
<1>1. 0 \in DOMAIN revs /\ DOMAIN revs \subseteq DOMAIN revs'
  BY ChainFacts, Carried
<1>2. NoJob \in Jobs'
  BY <1>1 DEF NoJob, Jobs
<1>3. [j EXCEPT !.left = left] \in Jobs'
  BY <1>1 DEF Jobs
<1>4. [j EXCEPT !.left = {}, !.rev = 0, !.landing = 0] \in Jobs'
  BY <1>1 DEF Jobs
<1> QED
  BY <1>2, <1>3, <1>4 DEF Left

\* Workspaces move with the revision they hold.
LEMMA HeldSpaces ==
  ASSUME Typed, Grows, NEW r, NEW to \in DOMAIN revs'
  PROVE  Hold(r, to) \in Spaces'
<1>1. DOMAIN revs \subseteq DOMAIN revs'
  BY Carried
<1>2. ASSUME NEW v \in Workspace
      PROVE  /\ ws[v] \in [current : DOMAIN revs', files : Files]
             /\ [ws[v] EXCEPT !.current = to] \in [current : DOMAIN revs', files : Files]
  BY <1>1 DEF Typed, Spaces
<1> QED
  BY <1>2 DEF Hold, Spaces

\* land_one, to the landing or to the conflict that keeps it from it.
LEMMA LandOneOK ==
  ASSUME IInv, NEW w \in Workspace, NEW r \in DOMAIN revs, NEW k \in Key \cup {Once},
         NEW rest \in Jobs, LandOne(w, r, k, rest)
  PROVE  StepOK
<1> USE DEF IInv
<1> DEFINE id == NextId
           c == revs[r].change
           head == revs[trunk.head].files
           mine == revs[r].files
<1>1. /\ NextId <= play.revs
      /\ Repeated(Root, k) \/ PointLegal(c, {r})
      /\ UNCHANGED <<edits, play>>
  BY DEF LandOne
<1>2. PICK files \in Files : Advance(r, files, k, rest) \/ RecordConflict(w, r, files, k, rest)
  <2>1. head \in Files /\ mine \in Files
    BY Known DEF Typed, Heads
  <2>2. \A b : Merged(b, head, mine) \in Files
    BY <2>1, MergedFiles
  <2> HIDE DEF head, mine
  <2>3. \/ Advance(r, mine, k, rest)
        \/ \E b : \/ Advance(r, Merged(b, head, mine), k, rest)
                  \/ RecordConflict(w, r, Merged(b, head, mine), k, rest)
    BY DEF LandOne, head, mine
  <2> QED
    BY <2>1, <2>2, <2>3
<1>3. revs' = Store(id, NewRev(id, c, {r}, <<trunk.head, r>>, files))
  BY <1>2 DEF Advance, RecordConflict
<1>4. /\ c \in 0..id /\ {r} \subseteq 0..id /\ trunk.head \in DOMAIN revs
      /\ <<trunk.head, r>> \in Seq(Nat) /\ <<trunk.head, r>> # <<>>
      /\ \A i \in DOMAIN <<trunk.head, r>> : <<trunk.head, r>>[i] \in DOMAIN revs
  <2>1. trunk.head \in DOMAIN revs /\ trunk.head \in Nat /\ r \in Nat /\ r < id /\ id \in Nat
        /\ c \in 0..id
    BY Known, Numbers DEF Typed, Heads
  <2> QED
    BY <2>1
<1>5. /\ Grows /\ Last' <= MaxRev
      /\ id \in DOMAIN revs' \ DOMAIN revs /\ id # 0 /\ id \in RevId
      /\ revs'[id].change = c /\ revs'[id].parents = <<trunk.head, r>> /\ c \in RevId
  BY <1>1, <1>3, <1>4, OneStored
<1>6. DOMAIN revs \subseteq DOMAIN revs' /\ id \in DOMAIN revs' /\ Root \in Workspace
  BY <1>5, Carried, Playing
<1>7. recorded' \in Records'
  <2>1. Record(Root, k, id)
    BY <1>2 DEF Advance, RecordConflict
  <2> QED
    BY <1>5, <1>6, <2>1, Recorded
<1>8. Hold(r, id) \in Spaces'
  BY <1>5, <1>6, HeldSpaces
<1>9. ws' \in Spaces'
  <2>1. CASE Advance(r, files, k, rest)
    BY <1>8, <2>1 DEF Advance
  <2>2. CASE RecordConflict(w, r, files, k, rest)
    <3>1. ws' = [Hold(r, id) EXCEPT ![w].files = files]
      BY <2>2 DEF RecordConflict
    <3> QED
      BY <1>8, <3>1 DEF Spaces
  <2> QED
    BY <1>2, <2>1, <2>2
<1>10. job' \in Jobs'
  <2>1. CASE Advance(r, files, k, rest)
    <3>1. job' = [rest EXCEPT !.left = play.spaces, !.rev = r, !.landing = id]
      BY <2>1 DEF Advance
    <3>2. play.spaces \subseteq Workspace
      BY Playing
    <3> QED
      BY <1>6, <3>1, <3>2 DEF Jobs
  <2>2. CASE RecordConflict(w, r, files, k, rest)
    BY <1>5, <2>2, LeftJob DEF RecordConflict
  <2> QED
    BY <1>2, <2>1, <2>2
<1>11. proposed' \subseteq DOMAIN revs'
  BY <1>2, <1>6 DEF Advance, RecordConflict, Typed
<1>12. CASE Repeated(Root, k)
  <2>1. tip' = tip /\ trunk' = trunk /\ ops' = ops
    BY <1>2, <1>12 DEF Advance, RecordConflict
  <2>2. tip' \in Tips' /\ TipsTrue' /\ Guarded
    BY <1>5, <2>1, TipsStay
  <2>3. Points' /\ LandingsAreFinal' /\ trunk' \in Heads'
    BY <1>5, <2>1, NothingLogged, Carried
  <2>4. Typed'
    BY <1>1, <1>5, <1>7, <1>9, <1>10, <1>11, <2>2, <2>3, Carried DEF Typed, Grows
  <2> QED
    BY <1>5, <2>1, <2>2, <2>3, <2>4 DEF StepOK
<1>13. CASE ~Repeated(Root, k)
  <2>1. tip' = [tip EXCEPT ![c] = {id}] /\ PointLegal(c, {r})
    BY <1>1, <1>2, <1>13 DEF Advance, RecordConflict
  <2>2. Guarded
    BY <1>5, <2>1, Legal
  <2>3. CASE RecordConflict(w, r, files, k, rest)
    <3>1. /\ Log(OpOf(Root, {<<c, id, tip[c]>>}, {}, {}, FALSE)) /\ trunk' = trunk
      BY <1>13, <2>3 DEF RecordConflict
    <3>2. PICK op : op = OpOf(Root, {<<c, id, tip[c]>>}, {}, {}, FALSE)
      OBVIOUS
    <3>3. IsPoint(op, Root, c, id)
      BY <3>2 DEF IsPoint, OpOf
    <3>4. ops' \subseteq ops \cup {op}
      BY <3>1, <3>2 DEF Log
    <3>5. tip' \in Tips' /\ TipsTrue' /\ Points' /\ LandingsAreFinal'
      BY <1>5, <1>6, <2>1, <3>1, <3>3, <3>4, Pointed
    <3>6. Typed'
      BY <1>1, <1>5, <1>7, <1>9, <1>10, <1>11, <3>1, <3>5, Carried DEF Typed, Grows
    <3> QED
      BY <1>5, <2>2, <3>1, <3>5, <3>6 DEF StepOK
  <2>4. CASE Advance(r, files, k, rest)
    <3> DEFINE op == OpOf(Root, {<<c, id, tip[c]>>}, {}, SameChange(r), TRUE)
    <3>1. Log(op) /\ trunk' = [head |-> id, seq |-> trunk.seq + 1]
      BY <1>13, <2>4 DEF Advance
    <3>2. IsPoint(op, Root, c, id) /\ op.final
      BY <1>6 DEF IsPoint, OpOf, SameChange, Typed
    <3>3. ops' \subseteq ops \cup {op}
      BY <3>1 DEF Log
    <3> HIDE DEF op
    <3>4. tip' \in Tips' /\ TipsTrue' /\ tip'[c] = {id}
      BY <1>5, <1>6, <2>1, TipMoved
    <3>5. Lands(id)
      <4>1. ASSUME NEW l \in History, revs[l].change = c
            PROVE  FALSE
        <5>1. tip[c] = {l} /\ l \in Landed
          BY <4>1, ChainFacts DEF HistoryTips
        <5> QED
          BY <2>1, <5>1 DEF PointLegal
      <4>2. revs'[id].parents[1] = trunk.head
        BY <1>5
      <4> QED
        BY <1>5, <3>1, <3>4, <4>1, <4>2 DEF Lands
    <3>6. OpOK(revs', op)
      BY <1>5, <1>6, <3>2, OpPoints
    <3>7. Points' /\ LandingsAreFinal'
      BY <1>5, <3>2, <3>3, <3>5, <3>6, Logged
    <3>8. trunk' \in Heads'
      BY <1>6, <3>1 DEF Typed, Heads
    <3>9. Typed'
      BY <1>1, <1>5, <1>7, <1>9, <1>10, <1>11, <3>4, <3>7, <3>8 DEF Typed, Grows
    <3> QED
      BY <1>5, <2>2, <3>4, <3>5, <3>7, <3>9 DEF StepOK
  <2> QED
    BY <1>2, <2>3, <2>4
<1> QED
  BY <1>12, <1>13

\* A landing by the owner.
LEMMA LandOwnOK ==
  ASSUME IInv, NEW k \in Keys("land"), LandOwn(k)
  PROVE  StepOK
<1> DEFINE r == ws[Root].current
<1>1. LandOne(Root, r, k, NoJob)
  BY DEF LandOwn
<1>2. /\ Root \in Workspace /\ r \in DOMAIN revs /\ k \in Key \cup {Once}
      /\ 0 \in DOMAIN revs
  BY Playing, Known, ChainFacts DEF IInv
<1>3. NoJob \in Jobs
  BY <1>2 DEF NoJob, Jobs
<1> HIDE DEF r
<1> QED
  BY <1>1, <1>2, <1>3, LandOneOK

\* What the pass tries next, when it lands: a version of the change it is at,
\* or the proposal itself.
LEMMA PassTries ==
  ASSUME IInv, job.todo # {}
  PROVE  LET first == Least(job.todo)
             change == revs[first].change
             r == IF Cardinality(tip[change]) = 1 THEN Least(tip[change]) ELSE first
         IN /\ first \in DOMAIN revs /\ change \in RevId
            /\ r \in DOMAIN revs /\ revs[r].change = change
<1> USE DEF IInv
<1> DEFINE first == Least(job.todo)
           change == revs[first].change
<1>1. job.todo \subseteq DOMAIN revs /\ DOMAIN revs \subseteq Nat
  BY Known DEF Typed, Jobs
<1>2. first \in DOMAIN revs
  <2>1. first \in job.todo
    BY <1>1, LeastIn
  <2> QED
    BY <1>1, <2>1
<1>3. change \in RevId
  BY <1>2, Known
<1> HIDE DEF first
<1>4. CASE Cardinality(tip[change]) = 1
  <2>1. tip[change] \subseteq DOMAIN revs /\ \A q \in tip[change] : revs[q].change = change
    BY <1>3 DEF Typed, Tips, TipsTrue
  <2>2. tip[change] # {}
    BY <1>4, FS_EmptySet
  <2>3. Least(tip[change]) \in tip[change]
    BY <1>1, <2>1, <2>2, LeastIn
  <2> QED
    BY <1>2, <1>3, <1>4, <2>1, <2>3 DEF first
<1>5. CASE Cardinality(tip[change]) # 1
  BY <1>2, <1>3, <1>5 DEF first
<1> QED
  BY <1>4, <1>5

\* The next proposal of the pass.
LEMMA PassNextOK ==
  ASSUME IInv, PassNext
  PROVE  StepOK
<1> USE DEF IInv
<1> DEFINE first == Least(job.todo)
           change == revs[first].change
           r == IF Cardinality(tip[change]) = 1 THEN Least(tip[change]) ELSE first
           rest == [job EXCEPT !.todo = @ \ {first}, !.tried = @ \cup {change}]
<1>1. first \in DOMAIN revs /\ change \in RevId /\ r \in DOMAIN revs
  BY PassTries DEF PassNext
<1>2. rest \in Jobs
  BY <1>1 DEF Typed, Jobs
<1>3. CASE job' = Left(rest, {})
           /\ UNCHANGED <<revs, tip, proposed, trunk, ws, edits, ops, recorded, play>>
  <2> HIDE DEF rest, r, change, first
  <2>1. Grows /\ Last' = Last /\ Last' <= MaxRev
    BY <1>3, NothingStored
  <2>2. job' \in Jobs'
    BY <1>2, <1>3, <2>1, LeftJob
  <2>3. Points' /\ LandingsAreFinal'
    BY <1>3, <2>1, NothingLogged
  <2>4. tip' \in Tips' /\ TipsTrue' /\ Guarded
    BY <1>3, <2>1, TipsStay
  <2>5. Typed'
    BY <1>3, <2>1, <2>2, <2>3, <2>4, Carried DEF Typed, Grows
  <2> QED
    BY <1>3, <2>1, <2>3, <2>4, <2>5 DEF StepOK
<1>4. ASSUME NEW w \in Workspace, LandOne(w, r, job.key, rest)
      PROVE  StepOK
  <2>1. job.key \in Key \cup {Once}
    BY DEF Typed, Jobs
  <2> HIDE DEF rest, r
  <2> QED
    BY <1>1, <1>2, <1>4, <2>1, LandOneOK
<1> QED
  BY <1>3, <1>4 DEF PassNext

\* A workspace restacked onto the landing, or left alone.
LEMMA RestackOK ==
  ASSUME IInv, NEW w \in play.spaces, Restack(w)
  PROVE  StepOK
<1> USE DEF IInv
<1> DEFINE x == ws[w].current
           id == NextId
           change == revs[x].change
           files == Merged(revs[job.rev].files, revs[job.landing].files, revs[x].files)
<1>1. w \in Workspace /\ x \in DOMAIN revs /\ job \in Jobs /\ job.left \ {w} \subseteq Workspace
      /\ job.landing \in DOMAIN revs
  BY Playing, Known DEF Typed, Jobs
<1>2. UNCHANGED <<trunk, edits, recorded, play>>
  BY DEF Restack
<1>3. CASE /\ job' = Left(job, job.left \ {w}) \/ job' = Left(job, {})
           /\ UNCHANGED <<revs, tip, proposed, ws, ops>>
  <2>1. Grows /\ Last' = Last /\ Last' <= MaxRev
    BY <1>3, NothingStored
  <2>2. job' \in Jobs'
    BY <1>1, <1>3, <2>1, LeftJob
  <2>3. Points' /\ LandingsAreFinal'
    BY <1>2, <1>3, <2>1, NothingLogged
  <2>4. tip' \in Tips' /\ TipsTrue' /\ Guarded
    BY <1>3, <2>1, TipsStay
  <2>5. Typed'
    BY <1>2, <1>3, <2>1, <2>2, <2>3, <2>4, Carried DEF Typed, Grows
  <2> QED
    BY <1>2, <1>3, <2>1, <2>3, <2>4, <2>5 DEF StepOK
<1>4. CASE /\ x \notin Landed /\ tip[change] \in {{}, {x}} /\ id <= play.revs
           /\ revs' = Store(id, NewRev(id, change, {x}, <<job.landing, x>>, files))
           /\ tip' = [tip EXCEPT ![change] = {id}]
           /\ proposed' = IF x \in proposed THEN (proposed \ {x}) \cup {id} ELSE proposed
           /\ ws' = [ws EXCEPT ![w] = [current |-> id, files |-> files]]
           /\ Log(OpOf(Root, {<<change, id, tip[change]>>},
                       {id} \cap proposed', proposed \cap {x}, FALSE))
           /\ job' = Left(job, job.left \ {w})
  <2>1. files \in Files
    BY <1>1, Known, MergedFiles
  <2> HIDE DEF files
  <2>2. /\ change \in 0..id /\ {x} \subseteq 0..id
        /\ <<job.landing, x>> \in Seq(Nat) /\ <<job.landing, x>> # <<>>
        /\ \A i \in DOMAIN <<job.landing, x>> : <<job.landing, x>>[i] \in DOMAIN revs
    <3>1. job.landing \in Nat /\ x \in Nat /\ x < id /\ id \in Nat /\ change \in 0..id
      BY <1>1, Known, Numbers
    <3> QED
      BY <1>1, <3>1
  <2>3. /\ Grows /\ Last' <= MaxRev
        /\ id \in DOMAIN revs' \ DOMAIN revs /\ id # 0 /\ id \in RevId
        /\ revs'[id].change = change /\ change \in RevId
    BY <1>4, <2>1, <2>2, OneStored
  <2>4. DOMAIN revs \subseteq DOMAIN revs' /\ id \in DOMAIN revs' /\ Root \in Workspace
    BY <2>3, Carried, Playing
  <2>5. proposed' \subseteq DOMAIN revs'
    BY <1>4, <2>4 DEF Typed
  <2>6. ws' \in Spaces'
    BY <1>1, <1>4, <2>1, <2>4 DEF Typed, Spaces
  <2>7. job' \in Jobs'
    BY <1>1, <1>4, <2>3, LeftJob
  <2>8. tip' \in Tips' /\ TipsTrue' /\ Points' /\ LandingsAreFinal'
    <3> DEFINE op == OpOf(Root, {<<change, id, tip[change]>>},
                          {id} \cap proposed', proposed \cap {x}, FALSE)
    <3>1. IsPoint(op, Root, change, id)
      BY <1>1, <2>4 DEF IsPoint, OpOf
    <3>2. ops' \subseteq ops \cup {op}
      BY <1>4 DEF Log
    <3> HIDE DEF op
    <3> QED
      BY <1>2, <1>4, <2>3, <2>4, <3>1, <3>2, Pointed
  <2>9. Guarded
    <3>1. tip[change] \cap Landed = {}
      BY <1>4
    <3>2. \A d \in RevId : d # change => tip'[d] = tip[d]
      BY <1>4 DEF Typed, Tips
    <3> QED
      BY <3>1, <3>2 DEF Guarded
  <2>10. Typed'
    BY <1>2, <2>3, <2>5, <2>6, <2>7, <2>8, Carried DEF Typed, Grows
  <2> QED
    BY <1>2, <2>3, <2>8, <2>9, <2>10 DEF StepOK
<1> QED
  BY <1>3, <1>4 DEF Restack

\* A revert stores the change that takes back, and its landing.
LEMMA RevertOK ==
  ASSUME IInv, NEW r \in DOMAIN revs, NEW k \in Keys("revert"), Revert(r, k)
  PROVE  /\ StepOK
         /\ k = Once => /\ Lands(NextId + 1) /\ revs'[NextId + 1].change = NextId
                        /\ revs'[NextId + 1].files = WithoutChange(r)
<1> USE DEF IInv
<1> DEFINE id == NextId
           undone == NewRev(id, id, {}, <<trunk.head>>, WithoutChange(r))
           landing == [undone EXCEPT !.prev = {id}, !.parents = <<trunk.head, id>>,
                         !.reach = [q \in Landed \cup {id, id + 1} |->
                                      CASE q = id + 1 -> 0 [] q = id -> 1
                                        [] OTHER -> 1 + revs[trunk.head].reach[q]]]
           to == IF k = Once THEN id + 1 ELSE id
<1>0. id < play.revs
  BY DEF Revert
<1>1. /\ id < play.revs /\ r # 0
      /\ revs' = [q \in DOMAIN revs \cup {id, id + 1} |->
                    CASE q = id -> undone [] q = id + 1 -> landing [] OTHER -> revs[q]]
      /\ Record(Root, k, id)
      /\ tip' = [tip EXCEPT ![id] = {to}]
      /\ trunk' = IF k = Once THEN [head |-> id + 1, seq |-> trunk.seq + 1] ELSE trunk
      /\ UNCHANGED <<proposed, ws, edits, ops, job, play>>
  BY DEF Revert
<1>2. /\ Last \in Nat /\ id = Last + 1 /\ id \in Nat \ {0} /\ DOMAIN revs = 0..Last
      /\ Stored(revs, Last) /\ trunk.head \in 0..Last /\ trunk.seq \in Nat
      /\ id + 1 <= MaxRev /\ id \in RevId /\ k \in Key \cup {Once} /\ Root \in Workspace
  <2>1. /\ Last \in Nat /\ id = Last + 1 /\ id \in Nat \ {0} /\ DOMAIN revs = 0..Last
        /\ Stored(revs, Last) /\ trunk.head \in DOMAIN revs /\ trunk.seq \in Nat
    BY Numbers DEF Typed, Heads
  <2>2. play.revs \in 0..MaxRev /\ MaxRev \in Nat /\ k \in Key \cup {Once} /\ Root \in Workspace
    BY Playing
  <2>3. id + 1 <= MaxRev
    <3>1. PICK n : n = play.revs
      OBVIOUS
    <3>2. n \in Nat /\ n <= MaxRev /\ id \in Nat /\ id < n
      BY <1>0, <2>1, <2>2, <3>1
    <3> HIDE DEF id
    <3> QED
      BY <2>2, <3>2
  <2> QED
    BY <2>1, <2>2, <2>3 DEF RevId
<1>3. WithoutChange(r) \in Files
  BY <1>1, <1>2, Known, MergedFiles DEF WithoutChange
<1>4. Good(revs, id, undone) /\ undone.change = id /\ undone.files = WithoutChange(r)
  <2>1. /\ id \in 0..id /\ {} \subseteq 0..id
        /\ <<trunk.head>> \in Seq(Nat) /\ <<trunk.head>> # <<>>
        /\ \A i \in DOMAIN <<trunk.head>> : <<trunk.head>>[i] \in DOMAIN revs
    BY <1>2
  <2> QED
    BY <1>3, <2>1, NewIsGood DEF NewRev
<1>5. /\ landing.change = id /\ landing.files = WithoutChange(r) /\ landing.prev = {id}
      /\ landing.parents = <<trunk.head, id>> /\ DOMAIN landing.reach = Landed \cup {id, id + 1}
  BY DEF NewRev
<1> HIDE DEF undone, landing
<1>6. /\ DOMAIN revs' = 0..(id + 1) /\ revs'[id] = undone /\ revs'[id + 1] = landing
      /\ \A q \in 0..Last : revs'[q] = revs[q]
  BY <1>1, <1>2
<1>7. Good(revs, id + 1, landing)
  <2>1. /\ id \in 0..(id + 1) /\ {id} \subseteq 0..(id + 1)
        /\ <<trunk.head, id>> \in Seq(Nat) /\ <<trunk.head, id>> # <<>> /\ id + 1 # 0
        /\ \A i \in DOMAIN <<trunk.head, id>> : <<trunk.head, id>>[i] \in 0..(id + 1 - 1)
    BY <1>2
  <2>2. /\ {0, id + 1} \subseteq Landed \cup {id, id + 1}
        /\ Landed \cup {id, id + 1} \subseteq 0..(id + 1)
    BY <1>2, ChainFacts
  <2>3. DOMAIN revs[landing.parents[1]].reach \subseteq DOMAIN landing.reach
    BY <1>5 DEF Landed
  <2> QED
    BY <1>3, <1>5, <2>1, <2>2, <2>3 DEF Good
<1>8. \A q \in 0..(id + 1) : Good(revs', q, revs'[q])
  <2> TAKE q \in 0..(id + 1)
  <2>1. Good(revs, q, revs'[q])
    <3>1. q = id \/ q = id + 1 \/ q \in 0..Last
      BY <1>2
    <3> QED
      BY <1>2, <1>4, <1>6, <1>7, <3>1 DEF Stored
  <2>2. q # 0 => revs'[q].parents[1] \in 0..Last
    <3>1. q = id => undone.parents[1] = trunk.head
      BY DEF undone, NewRev
    <3>2. q = id + 1 => landing.parents[1] = trunk.head
      BY <1>5
    <3>3. q \in 0..Last /\ q # 0 => revs[q].parents[1] \in 0..Last
      BY <1>2, Known
    <3>4. q = id \/ q = id + 1 \/ q \in 0..Last
      BY <1>2
    <3> QED
      BY <1>2, <1>6, <3>1, <3>2, <3>3, <3>4
  <2>3. q # 0 => revs'[revs'[q].parents[1]] = revs[revs'[q].parents[1]]
    BY <1>6, <2>2
  <2>4. PICK rev : rev = revs'[q]
    OBVIOUS
  <2> QED
    BY <2>1, <2>3, <2>4 DEF Good
<1>9. Last' = id + 1
  <2>1. id + 1 \in Nat /\ Cardinality(0..(id + 1)) = id + 1 + 1
    BY <1>2, CountOf
  <2> QED
    BY <1>2, <1>6, <2>1 DEF Last, NextId
<1>10. Grows /\ Last' <= MaxRev
  BY <1>2, <1>6, <1>8, <1>9 DEF Grows, Stored, Extends
<1>11. to \in DOMAIN revs' /\ revs'[to].change = id
  BY <1>2, <1>4, <1>5, <1>6
<1>12. tip' \in Tips' /\ TipsTrue' /\ tip'[id] = {to}
  <2>1. tip' = [tip EXCEPT ![id] = {to}] /\ id \in RevId
    BY <1>1, <1>2
  <2> HIDE DEF id, to, Revert, IInv
  <2>2. Typed /\ TipsTrue /\ Grows
    BY <1>10 DEF IInv
  <2> QED
    BY <1>11, <2>1, <2>2, TipMoved
<1>13. Guarded
  <2>1. id \notin DOMAIN revs
    BY <1>2
  <2>2. tip[id] = {}
    BY <1>2, <2>1, NewChange
  <2> QED
    BY <1>1, <1>2, <2>2, Legal DEF PointLegal
<1>14. k = Once => Lands(id + 1)
  <2>1. \A l \in History : revs[l].change # id
    <3>1. \A l \in History : l \in DOMAIN revs
      BY ChainFacts
    <3>2. \A l \in DOMAIN revs : revs[l].change # id
      <4> TAKE l \in DOMAIN revs
      <4>1. l < id /\ l \in Nat /\ revs[l].change \in 0..l
        BY Known
      <4> QED
        BY <1>2, <4>1
    <3> QED
      BY <3>1, <3>2
  <2>2. id + 1 \in DOMAIN revs' \ DOMAIN revs
    BY <1>2, <1>6
  <2>3. revs'[id + 1].parents[1] = trunk.head /\ revs'[id + 1].change = id
    BY <1>5, <1>6
  <2> QED
    BY <1>1, <1>12, <2>1, <2>2, <2>3 DEF Lands
<1>15. trunk' = trunk \/ \E q : Lands(q)
  BY <1>1, <1>14
<1>16. Points' /\ LandingsAreFinal'
  BY <1>1, <1>10, <1>15, NothingLogged
<1>17. recorded' \in Records'
  <2>1. id \in DOMAIN revs'
    BY <1>2, <1>6
  <2> QED
    BY <1>1, <1>2, <1>10, <2>1, Recorded
<1>18. trunk' \in Heads'
  <2>1. CASE k = Once
    <3>1. trunk' = [head |-> id + 1, seq |-> trunk.seq + 1]
      BY <1>1, <2>1
    <3>2. id + 1 \in DOMAIN revs'
      BY <1>2, <1>6
    <3> QED
      BY <1>2, <3>1, <3>2 DEF Heads
  <2>2. CASE k # Once
    BY <1>1, <1>10, <2>2, Carried
  <2> QED
    BY <2>1, <2>2
<1>19. Typed'
  BY <1>1, <1>10, <1>12, <1>16, <1>17, <1>18, Carried DEF Typed, Grows
<1>20. StepOK
  BY <1>10, <1>12, <1>13, <1>15, <1>16, <1>19 DEF StepOK
<1> QED
  BY <1>5, <1>6, <1>14, <1>20

\* An undo.  What it points a change back at has not landed: the change would
\* be there, and it is where the op left it.
LEMMA UndoOK ==
  ASSUME IInv, NEW w \in play.spaces, NEW op \in ops, Undo(w, op)
  PROVE  StepOK
<1> USE DEF IInv
<1> DEFINE inverse == OpOf(w, {<<pt[1], Least(pt[3]), {pt[2]}>> :
                                 pt \in {q \in op.point : q[3] # {}}},
                           op.drops, op.adds, \E pt \in op.point : pt[3] = {})
<1>1. /\ ~op.final
      /\ \A pt \in op.point :
           /\ Unmoved(pt)
           /\ \A from \in pt[3] : PointLegal(pt[1], revs[from].prev)
      /\ tip' = [c \in RevId |-> IF \E pt \in op.point : pt[1] = c
                                 THEN (CHOOSE pt \in op.point : pt[1] = c)[3] ELSE tip[c]]
      /\ proposed' = (proposed \ op.adds) \cup op.drops
      /\ ws' = [ws EXCEPT ![w] = FallBack(w, op.point)]
      /\ ops' = ops \cup {inverse}
      /\ UNCHANGED <<revs, trunk, edits, recorded, job, play>>
  BY DEF Undo
<1>2. OpOK(revs, op) /\ w \in Workspace
  BY Playing DEF Typed, Points
<1>3. Grows /\ Last' = Last /\ Last' <= MaxRev
  BY <1>1, NothingStored
<1>4. proposed' \subseteq DOMAIN revs'
  BY <1>1, <1>2 DEF Typed, OpOK
<1>5. \A v \in Workspace : ws[v] \in [current : DOMAIN revs, files : Files]
  BY DEF Typed, Spaces
<1>6. inverse.author = w /\ inverse.final \in BOOLEAN
      /\ inverse.adds \subseteq DOMAIN revs' /\ inverse.drops \subseteq DOMAIN revs'
  BY <1>1, <1>2 DEF OpOf, OpOK
<1>7. History' = History /\ tip \in [RevId -> SUBSET DOMAIN revs]
  BY <1>1, <1>3, ChainStays DEF Typed, Tips
<1>8. CASE op.point = {}
  <2>1. tip' = tip
    BY <1>1, <1>7, <1>8
  <2>2. ws' = ws
    <3>1. FallBack(w, op.point) = ws[w]
      BY <1>8 DEF FallBack
    <3> QED
      BY <1>1, <1>2, <3>1 DEF Typed, Spaces
  <2>3. inverse.point = {}
    BY <1>8 DEF OpOf
  <2> HIDE DEF inverse
  <2>4. OpOK(revs', inverse)
    BY <1>2, <1>6, <2>3 DEF OpOK
  <2>5. Points' /\ LandingsAreFinal'
    BY <1>1, <1>3, <2>3, <2>4, Logged
  <2>6. tip' \in Tips' /\ TipsTrue' /\ Guarded
    BY <1>3, <2>1, TipsStay
  <2>7. Typed'
    BY <1>1, <1>3, <1>4, <2>2, <2>5, <2>6, Carried DEF Typed, Grows
  <2> QED
    BY <1>1, <1>3, <2>5, <2>6, <2>7 DEF StepOK
<1>9. ASSUME NEW pt, op.point = {pt}
      PROVE  StepOK
  <2> DEFINE c == pt[1]
  <2>1. /\ c \in RevId /\ pt[2] \in DOMAIN revs \ {0} /\ revs[pt[2]].change = c
        /\ \A from \in pt[3] : from \in DOMAIN revs /\ revs[from].change = c
        /\ \A x, y \in pt[3] : x = y
    BY <1>2, <1>9 DEF OpOK
  <2>2. /\ tip[c] = {pt[2]} /\ pt[2] \notin History
        /\ \A from \in pt[3] : PointLegal(c, revs[from].prev)
    BY <1>1, <1>9 DEF Unmoved, LandingsAreFinal
  <2>3. tip' = [tip EXCEPT ![c] = pt[3]]
    <3>1. \A d \in RevId : (CHOOSE x \in op.point : x[1] = d) = pt \/ d # c
      BY <1>9
    <3>2. \A d \in RevId : (\E x \in op.point : x[1] = d) <=> d = c
      BY <1>9
    <3>3. tip' = [d \in RevId |-> IF d = c THEN pt[3] ELSE tip[d]]
      BY <1>1, <3>1, <3>2
    <3> QED
      BY <1>7, <3>3
  <2>4. tip'[c] = pt[3] /\ \A d \in RevId : d # c => tip'[d] = tip[d]
    BY <1>7, <2>1, <2>3
  <2>5. tip' \in Tips'
    BY <1>1, <1>7, <2>1, <2>3 DEF Tips
  <2>6. TipsTrue'
    BY <1>1, <2>1, <2>4 DEF TipsTrue
  <2>7. Guarded
    <3>1. CASE pt[3] = {}
      <4>1. \A l \in History : revs[l].change # c
        BY <2>2 DEF HistoryTips
      <4> QED
        BY <2>4, <3>1, <4>1 DEF Guarded
    <3>2. CASE pt[3] # {}
      <4>1. tip[c] \cap Landed = {}
        BY <2>2, <3>2 DEF PointLegal
      <4> QED
        BY <2>4, <4>1 DEF Guarded
    <3> QED
      BY <3>1, <3>2
  <2>8. ws' \in Spaces'
    <3>1. FallBack(w, op.point) \in [current : DOMAIN revs, files : Files]
      <4>1. CASE pt[2] = ws[w].current
        <5> DEFINE back == IF pt[3] = {} THEN revs[pt[2]].parents[1] ELSE Least(pt[3])
        <5>1. (CHOOSE x \in op.point : x[2] = ws[w].current) = pt
          BY <1>9, <4>1
        <5>2. FallBack(w, op.point) = [current |-> back, files |-> revs[back].files]
          BY <1>9, <4>1, <5>1 DEF FallBack
        <5>3. back \in DOMAIN revs
          <6>1. revs[pt[2]].parents[1] \in DOMAIN revs
            BY <2>1, Known
          <6>2. pt[3] \in SUBSET Nat
            BY <2>1, Known
          <6>3. pt[3] # {} => Least(pt[3]) \in pt[3]
            BY <6>2, LeastIn
          <6> QED
            BY <2>1, <6>1, <6>3
        <5> HIDE DEF back
        <5>4. revs[back].files \in Files
          BY <5>3, Known
        <5> QED
          BY <5>2, <5>3, <5>4
      <4>2. CASE pt[2] # ws[w].current
        BY <1>2, <1>5, <1>9, <4>2 DEF FallBack
      <4> QED
        BY <4>1, <4>2
    <3> QED
      BY <1>1, <3>1 DEF Typed, Spaces
  <2>9. OpOK(revs', inverse) /\ (inverse.final \/ \A q \in inverse.point : q[2] \notin History')
    <3>1. CASE pt[3] = {}
      <4>1. inverse.point = {} /\ inverse.final = TRUE
        BY <1>9, <3>1 DEF OpOf
      <4> HIDE DEF inverse
      <4> QED
        BY <1>2, <1>6, <4>1 DEF OpOK
    <3>2. CASE pt[3] # {}
      <4>1. PICK from \in pt[3] : pt[3] = {from}
        BY <2>1, <3>2
      <4>2. Least(pt[3]) = from
        <5>1. from \in Nat
          BY <2>1, <4>1, Known
        <5>2. Least(pt[3]) \in pt[3]
          BY <4>1, <5>1, LeastIn
        <5> QED
          BY <4>1, <5>2
      <4>3. inverse.point = {<<c, from, {pt[2]}>>}
        <5>1. {q \in op.point : q[3] # {}} = {pt}
          BY <1>9, <3>2
        <5> QED
          BY <4>2, <5>1 DEF OpOf
      <4>4. from \notin History
        <5>1. from \in History => tip[c] = {from}
          BY <2>1, <4>1 DEF HistoryTips
        <5> QED
          BY <2>2, <5>1
      <4>5. from # 0
        <5>1. revs[from].prev = {pt[2]}
          BY <2>2, <4>1 DEF PointLegal
        <5>2. from \in 0..Last /\ Good(revs, from, revs[from]) /\ pt[2] # 0
          BY <2>1, <4>1, Numbers DEF Typed, Stored
        <5> QED
          BY <5>1, <5>2 DEF Good
      <4> HIDE DEF inverse
      <4>6. OpOK(revs', inverse)
        BY <1>1, <1>2, <1>6, <2>1, <4>1, <4>3, <4>5 DEF OpOK
      <4> QED
        BY <1>7, <4>3, <4>4, <4>6
    <3> QED
      BY <3>1, <3>2
  <2> HIDE DEF inverse
  <2>10. Points' /\ LandingsAreFinal'
    BY <1>1, <1>3, <2>9, Logged
  <2>11. Typed'
    BY <1>1, <1>3, <1>4, <2>5, <2>8, <2>10, Carried DEF Typed, Grows
  <2> QED
    BY <1>1, <1>3, <2>6, <2>7, <2>10, <2>11 DEF StepOK
<1>10. op.point = {} \/ \E pt : op.point = {pt}
  <2>1. \A pt, qt \in op.point : pt = qt
    BY <1>2 DEF OpOK
  <2>2. ASSUME NEW pt \in op.point
        PROVE  op.point = {pt}
    BY <2>1
  <2> QED
    BY <2>2
<1> QED
  BY <1>8, <1>9, <1>10

-----------------------------------------------------------------------------
(***************************************************************************)
(* The theorems.                                                           *)
(***************************************************************************)

\* The first revision is stored, and the view points its change at it.
LEMMA InitIInv == Init => IInv
<1> SUFFICES ASSUME Init PROVE IInv
  OBVIOUS
<1> DEFINE start == [p \in Path |-> {0}]
           first == [change |-> 0, prev |-> {}, parents |-> <<>>, files |-> start,
                     reach |-> [q \in {0} |-> 0]]
<1>1. /\ revs = [r \in {0} |-> first]
      /\ tip = [c \in RevId |-> IF c = 0 THEN {0} ELSE {}]
      /\ proposed = {} /\ trunk = [head |-> 0, seq |-> 0]
      /\ ws = [w \in Workspace |-> [current |-> 0, files |-> start]]
      /\ edits = 0 /\ ops = {}
      /\ recorded = [w \in Workspace |-> [k \in Key |-> {}]]
      /\ job = NoJob /\ play \in Plays
  BY DEF Init
<1>2. start \in Files
  BY DEF Files
<1> HIDE DEF start
<1>3. Good(revs, 0, first)
  <2>1. first.parents \in Seq(Nat) /\ first.parents = <<>> /\ DOMAIN first.reach = {0}
        /\ first.change = 0 /\ first.prev = {} /\ first.files \in Files
    BY <1>2
  <2> HIDE DEF first
  <2> QED
    BY <2>1 DEF Good
<1> HIDE DEF first
<1>4. DOMAIN revs = {0} /\ revs[0] = first
  BY <1>1
<1>5. Last = 0 /\ {0} = 0..0
  <2>1. {0} = 0..0
    OBVIOUS
  <2>2. Cardinality({0}) = 1
    BY FS_Singleton
  <2> QED
    BY <1>4, <2>1, <2>2 DEF Last, NextId
<1>6. Stored(revs, Last) /\ Last <= MaxRev
  <2>1. MaxRev \in Nat
    BY LandingAssumption
  <2> QED
    BY <1>3, <1>4, <1>5, <2>1 DEF Stored
<1>7. tip \in Tips /\ trunk \in Heads /\ recorded \in Records /\ Points
  BY <1>1, <1>4 DEF Tips, Heads, Records, Points
<1>8. ws \in Spaces
  BY <1>1, <1>2, <1>4 DEF Spaces
<1>9. job \in Jobs
  BY <1>1, <1>4 DEF Jobs, NoJob
<1>10. Typed
  BY <1>1, <1>6, <1>7, <1>8, <1>9 DEF Typed
<1>11. first.change = 0 /\ first.parents = <<>>
  BY DEF first
<1>12. TipsTrue
  BY <1>1, <1>4, <1>11 DEF TipsTrue
<1>13. Chain = <<0>>
  <2>1. Chain = Walk(revs)[0]
    BY <1>1, <1>10, ChainFacts
  <2>2. Walk(revs)[0] = WalkStep(revs, Walk(revs), 0)
    BY <1>5, <1>6, WalkDefined
  <2> QED
    BY <1>4, <1>11, <2>1, <2>2 DEF WalkStep
<1>14. HistoryTips
  <2>1. History = {0}
    BY <1>13 DEF History
  <2>2. 0 \in RevId
    BY <1>10, Numbers, <1>4
  <2> QED
    BY <1>1, <1>4, <1>11, <2>1, <2>2 DEF HistoryTips
<1>15. LandingsAreFinal
  BY <1>1 DEF LandingsAreFinal
<1> QED
  BY <1>10, <1>12, <1>14, <1>15 DEF IInv

\* Every action does what a step must do.
LEMMA NextOK ==
  ASSUME IInv, Next
  PROVE  StepOK
<1>1. CASE \E w \in play.spaces, p \in Path : Edit(w, p) \/ Try(w, p)
  BY <1>1, EditOK, TryOK
<1>2. CASE \E w \in play.spaces, k \in Keys("snapshot") : Snapshot(w, k)
  BY <1>2, SnapshotOK
<1>3. CASE \E w \in play.spaces, k \in Keys("propose") : Propose(w, k)
  BY <1>3, ProposeOK
<1>4. CASE \E k \in Keys("land") : LandOwn(k)
  BY <1>4, LandOwnOK
<1>5. CASE \E k \in Keys("all") : StartPass(k)
  BY <1>5, StartPassOK
<1>6. CASE PassNext
  BY <1>6, PassNextOK
<1>7. CASE \E w \in play.spaces : Restack(w)
  BY <1>7, RestackOK
<1>8. CASE \E r \in DOMAIN revs, k \in Keys("revert") : Revert(r, k)
  BY <1>8, RevertOK
<1>9. CASE \E w \in play.spaces, r \in DOMAIN revs : Rewind(w, r)
  BY <1>9, RewindOK
<1>10. CASE \E w \in play.spaces, op \in ops : Undo(w, op)
  BY <1>10, UndoOK
<1> QED
  BY <1>1, <1>2, <1>3, <1>4, <1>5, <1>6, <1>7, <1>8, <1>9, <1>10 DEF Next

\* The invariant is inductive.
LEMMA StepIInv == IInv /\ [Next]_vars => IInv'
<1>1. ASSUME IInv, Next
      PROVE  IInv'
  <2>1. StepOK
    BY <1>1, NextOK
  <2>2. HistoryTips'
    BY <1>1, <2>1, TipsFollow DEF StepOK, IInv
  <2> QED
    BY <2>1, <2>2 DEF StepOK, IInv
<1>2. ASSUME IInv, UNCHANGED vars
      PROVE  IInv'
  <2>1. revs' = revs /\ tip' = tip /\ proposed' = proposed /\ trunk' = trunk /\ ws' = ws
        /\ edits' = edits /\ ops' = ops /\ recorded' = recorded /\ job' = job /\ play' = play
    BY <1>2 DEF vars
  <2>2. Grows /\ Last' = Last /\ Last' <= MaxRev
    BY <1>2, <2>1, NothingStored DEF IInv
  <2>3. Chain' = Chain /\ History' = History
    BY <1>2, <2>1, <2>2, ChainStays DEF IInv
  <2>4. tip' \in Tips' /\ TipsTrue' /\ Guarded
    BY <1>2, <2>1, <2>2, TipsStay DEF IInv
  <2>5. Points' /\ LandingsAreFinal'
    BY <1>2, <2>1, <2>2, NothingLogged DEF IInv
  <2>6. Typed'
    BY <1>2, <2>1, <2>2, <2>4, <2>5, Carried DEF IInv, Typed, Grows
  <2>7. HistoryTips'
    BY <1>2, <2>1, <2>3 DEF IInv, HistoryTips
  <2> QED
    BY <2>4, <2>5, <2>6, <2>7 DEF IInv
<1> QED
  BY <1>1, <1>2

\* Every variable keeps its type, every revision is built on what was stored
\* before it, the view points a change at one of its versions, a change that
\* landed is pointed at its landing, and no landing can be undone: whatever
\* edits, snapshots, landings, passes, restacks, rewinds, reverts and undos run.
THEOREM LandingInvariant == Spec => []IInv
<1> QED
  BY InitIInv, StepIInv, PTL DEF Spec

\* check_legality protects what landed (verify.rs): once a change is at a landed
\* revision no step moves it, but for the unpoint of one that landed only under a
\* change stacked on it.
THEOREM LandedStays == Spec => LandedIsImmutable
<1>1. ASSUME IInv, [Next]_vars
      PROVE  [\A c \in RevId : tip[c] # {} /\ tip[c] \subseteq Landed =>
                \/ tip'[c] = tip[c]
                \/ tip'[c] = {} /\ \A l \in History : revs[l].change # c]_vars
  <2>1. CASE Next
    <3>1. Guarded
      BY <1>1, <2>1, NextOK DEF StepOK
    <3> QED
      BY <3>1 DEF Guarded
  <2>2. CASE UNCHANGED vars
    BY <2>2
  <2> QED
    BY <1>1, <2>1, <2>2
<1> QED
  BY <1>1, LandingInvariant, PTL DEF Spec, LandedIsImmutable

\* The log of the abstract line.
LineLog == [i \in DOMAIN Chain |-> revs[Chain[i]].change]

\* A step lands one change that has not landed before, or leaves trunk alone.
LEMMA TrunkStep ==
  ASSUME IInv, Next
  PROVE  \/ LineLog' = LineLog /\ trunk'.seq = trunk.seq
         \/ \E c \in RevId : /\ c \notin {LineLog[i] : i \in DOMAIN LineLog}
                             /\ LineLog' = Append(LineLog, c) /\ trunk'.seq = trunk.seq + 1
<1>1. StepOK /\ Typed
  BY NextOK DEF IInv
<1>2. Chain \in Seq(DOMAIN revs) /\ \A r \in DOMAIN revs : revs'[r] = revs[r]
  BY <1>1, ChainFacts, Carried DEF StepOK
<1>3. \A i \in DOMAIN Chain : revs'[Chain[i]] = revs[Chain[i]]
  BY <1>2
<1>4. CASE trunk' = trunk
  <2>1. Chain' = Chain
    BY <1>1, <1>4, ChainStays DEF StepOK
  <2>2. LineLog' = LineLog
    BY <1>3, <2>1 DEF LineLog
  <2> QED
    BY <1>4, <2>2
<1>5. ASSUME NEW id, Lands(id)
      PROVE  \E c \in RevId : /\ c \notin {LineLog[i] : i \in DOMAIN LineLog}
                              /\ LineLog' = Append(LineLog, c) /\ trunk'.seq = trunk.seq + 1
  <2> DEFINE c == revs'[id].change
  <2>1. Chain' = Append(Chain, id)
    BY <1>1, <1>5, ChainExtended DEF StepOK
  <2>2. c \in RevId
    <3>1. id \in DOMAIN revs' /\ Typed' /\ MaxRev \in Nat
      BY <1>1, <1>5, Playing DEF StepOK, Lands
    <3>2. id \in 0..Last' /\ Last' \in Nat /\ Last' <= MaxRev /\ Good(revs', id, revs'[id])
      BY <3>1 DEF Typed, Stored
    <3>3. c \in 0..id
      BY <3>2 DEF Good
    <3> HIDE DEF c
    <3> QED
      BY <3>1, <3>2, <3>3 DEF RevId
  <2>3. \A l \in History : revs[l].change # c
    BY <1>5 DEF Lands
  <2> HIDE DEF c
  <2>4. PICK s : s = Chain
    OBVIOUS
  <2>5. /\ DOMAIN Append(s, id) = 1..(Len(s) + 1) /\ DOMAIN s = 1..Len(s) /\ Len(s) \in Nat
        /\ \A i \in DOMAIN s : Append(s, id)[i] = s[i]
        /\ Append(s, id)[Len(s) + 1] = id
    BY <1>2, <2>4
  <2>6. LineLog \in Seq(RevId) /\ DOMAIN LineLog = DOMAIN s /\ Len(LineLog) = Len(s)
    <3>1. \A i \in 1..Len(s) : revs[s[i]].change \in RevId
      BY <1>1, <1>2, <2>4, <2>5, Known
    <3>2. LineLog = [i \in 1..Len(s) |-> revs[s[i]].change]
      BY <2>4, <2>5 DEF LineLog
    <3> QED
      BY <2>5, <3>1, <3>2
  <2>7. LineLog' = [i \in 1..(Len(s) + 1) |-> revs'[Append(s, id)[i]].change]
    BY <2>1, <2>4, <2>5 DEF LineLog
  <2>8. \A i \in 1..(Len(s) + 1) :
          revs'[Append(s, id)[i]].change = IF i = Len(s) + 1 THEN c ELSE LineLog[i]
    <3> TAKE i \in 1..(Len(s) + 1)
    <3>1. CASE i = Len(s) + 1
      BY <2>5, <3>1 DEF c
    <3>2. CASE i # Len(s) + 1
      <4>1. i \in DOMAIN s
        BY <2>5, <3>2
      <4>2. revs'[s[i]] = revs[s[i]] /\ LineLog[i] = revs[s[i]].change
        BY <1>3, <2>4, <4>1 DEF LineLog
      <4> QED
        BY <2>5, <3>2, <4>1, <4>2
    <3> QED
      BY <3>1, <3>2
  <2>9. LineLog' = [i \in 1..(Len(s) + 1) |-> IF i = Len(s) + 1 THEN c ELSE LineLog[i]]
    BY <2>7, <2>8
  <2>10. Append(LineLog, c) = [i \in 1..(Len(s) + 1) |-> IF i = Len(s) + 1 THEN c ELSE LineLog[i]]
    <3>1. PICK t : t = LineLog
      OBVIOUS
    <3>2. t \in Seq(RevId) /\ Len(t) = Len(s) /\ c \in RevId
      BY <2>2, <2>6, <3>1
    <3>3. /\ Append(t, c) \in Seq(RevId) /\ DOMAIN Append(t, c) = 1..(Len(s) + 1)
          /\ \A i \in 1..(Len(s) + 1) :
               Append(t, c)[i] = IF i = Len(s) + 1 THEN c ELSE t[i]
      BY <3>2
    <3>4. Append(t, c) = [i \in DOMAIN Append(t, c) |-> Append(t, c)[i]]
      BY <3>3, LenProperties
    <3> QED
      BY <3>1, <3>3, <3>4
  <2>11. c \notin {LineLog[i] : i \in DOMAIN LineLog}
    <3>1. \A i \in DOMAIN LineLog : LineLog[i] = revs[Chain[i]].change /\ Chain[i] \in History
      BY DEF LineLog, History
    <3> QED
      BY <2>3, <3>1
  <2>12. trunk'.seq = trunk.seq + 1
    BY <1>5 DEF Lands
  <2> QED
    BY <2>2, <2>9, <2>10, <2>11, <2>12
<1> QED
  BY <1>1, <1>4, <1>5 DEF StepOK

\* Trunk is one serial history (land_one, spec/03-operations.md): what the verbs
\* do implements the line of module Trunk, to which one change is added at a time,
\* each at most once, and from which nothing is taken.
THEOREM TrunkIsSerial == Spec => SerialTrunk
<1>1. Init => Line!Init
  <2> SUFFICES ASSUME Init PROVE Line!Init
    OBVIOUS
  <2>1. /\ trunk = [head |-> 0, seq |-> 0]
        /\ revs = [r \in {0} |-> [change |-> 0, prev |-> {}, parents |-> <<>>,
                     files |-> [p \in Path |-> {0}], reach |-> [q \in {0} |-> 0]]]
    BY DEF Init
  <2>2. revs[0].parents = <<>> /\ revs[0].change = 0 /\ DOMAIN revs = {0}
    BY <2>1
  <2>3. IInv
    BY InitIInv
  <2>4. Chain = Walk(revs)[0] /\ Walk(revs)[0] = WalkStep(revs, Walk(revs), 0)
    <3>1. Typed /\ 0 \in 0..Last /\ Stored(revs, Last)
      BY <2>2, <2>3, Numbers DEF IInv, Typed
    <3> QED
      BY <2>1, <3>1, ChainFacts, WalkDefined
  <2>5. Chain = <<0>>
    BY <2>2, <2>4 DEF WalkStep
  <2> QED
    BY <2>1, <2>2, <2>5 DEF Line!Init
<1>2. IInv /\ [Next]_vars => [Line!Next]_<<LineLog, trunk.seq>>
  <2>1. CASE IInv /\ Next
    BY <2>1, TrunkStep DEF Line!Next, Line!Land, Line!Landings, LineLog
  <2>2. CASE UNCHANGED vars
    BY <2>2 DEF vars, LineLog, Chain
  <2> QED
    BY <2>1, <2>2
<1> QED
  BY <1>1, <1>2, LandingInvariant, PTL DEF Spec, SerialTrunk, Line!Spec, LineLog

-----------------------------------------------------------------------------
(***************************************************************************)
(* The pass and the revert.                                                *)
(***************************************************************************)

\* A landing within land_one is of the revision it was given.
LEMMA LandOneLands ==
  ASSUME IInv, NEW w \in Workspace, NEW r \in DOMAIN revs, NEW k, NEW rest,
         LandOne(w, r, k, rest), trunk'.head # trunk.head
  PROVE  revs'[trunk'.head].change = revs[r].change
<1>1. PICK files : Advance(r, files, k, rest) \/ RecordConflict(w, r, files, k, rest)
  BY DEF LandOne
<1>2. Advance(r, files, k, rest)
  BY <1>1 DEF RecordConflict
<1>3. trunk'.head = NextId
  <2>1. trunk' = trunk \/ trunk' = [head |-> NextId, seq |-> trunk.seq + 1]
    BY <1>2 DEF Advance
  <2> QED
    BY <2>1
<1>4. revs' = Store(NextId, NewRev(NextId, revs[r].change, {r}, <<trunk.head, r>>, files))
  BY <1>2 DEF Advance
<1> QED
  BY <1>3, <1>4 DEF Store, NewRev

\* land_all tries a change once in a pass (`attempted`): one that ran into a
\* conflict does not land in the same pass.
THEOREM PassTriesOnce == Spec => OneAttemptPerPass
<1>1. ASSUME IInv, [Next]_vars, job.todo # {}, trunk'.head # trunk.head
      PROVE  revs'[trunk'.head].change \notin job.tried
  <2>1. Next /\ ~Idle
    BY <1>1 DEF vars, Idle
  <2>2. PassNext
    BY <1>1, <2>1 DEF Next, Edit, Try, Snapshot, Propose, LandOwn, StartPass, Restack, Revert,
                      Rewind, Undo
  <2> DEFINE first == Least(job.todo)
             change == revs[first].change
             r == IF Cardinality(tip[change]) = 1 THEN Least(tip[change]) ELSE first
             rest == [job EXCEPT !.todo = @ \ {first}, !.tried = @ \cup {change}]
  <2>3. r \in DOMAIN revs /\ revs[r].change = change
    BY <1>1, PassTries
  <2>4. /\ change \notin job.tried
        /\ \E w \in Workspace : LandOne(w, r, job.key, rest)
    BY <1>1, <2>2 DEF PassNext, Untried
  <2> HIDE DEF first, change, r, rest
  <2>5. revs'[trunk'.head].change = revs[r].change
    BY <1>1, <2>3, <2>4, LandOneLands
  <2> QED
    BY <2>3, <2>4, <2>5
<1> QED
  BY <1>1, LandingInvariant, PTL DEF Spec, OneAttemptPerPass

\* revert (verbs.rs) takes back what the change brought and nothing else: a unit
\* the change wrote is as it was before it, and every other keeps what the head has.
THEOREM RevertIsExact == Spec => RevertKeepsTheRest
<1>1. ASSUME IInv, NEW r \in History \ {0}, Revert(r, Once)
      PROVE  LET head == revs[trunk.head].files
                 before == revs[revs[r].parents[1]].files
                 after == revs'[trunk'.head].files
             IN \A p \in Path :
                  after[p] = IF before[p] = revs[r].files[p] THEN head[p] ELSE before[p]
  <2>1. r \in DOMAIN revs /\ Typed
    BY <1>1, ChainFacts DEF IInv
  <2>2. Once \in Keys("revert")
    BY DEF Keys
  <2>3. trunk'.head = NextId + 1 /\ revs'[NextId + 1].files = WithoutChange(r)
    BY <1>1, <2>1, <2>2, RevertOK DEF Lands
  <2> DEFINE b == revs[r].files
             x == revs[trunk.head].files
             y == revs[revs[r].parents[1]].files
  <2>4. Clashes(b, x, y) = {}
    BY <1>1 DEF Revert
  <2>5. revs'[trunk'.head].files = Merged(b, x, y)
    BY <2>3 DEF WithoutChange
  <2> HIDE DEF b, x, y
  <2>6. \A p \in Path : Merged(b, x, y)[p] = IF y[p] = b[p] THEN x[p] ELSE y[p]
    BY <2>4 DEF Merged, Clashes
  <2> QED
    BY <2>5, <2>6 DEF b, x, y
<1>2. IInv => [\A r \in History \ {0} : Revert(r, Once) =>
                 LET head == revs[trunk.head].files
                     before == revs[revs[r].parents[1]].files
                     after == revs'[trunk'.head].files
                 IN \A p \in Path :
                      after[p] = IF before[p] = revs[r].files[p] THEN head[p] ELSE before[p]]_vars
  BY <1>1
<1> QED
  BY <1>2, LandingInvariant, PTL DEF RevertKeepsTheRest
-----------------------------------------------------------------------------
(***************************************************************************)
(* Where workspaces are, when nothing puts them on a revision that is not  *)
(* their own.  A workspace with work that has not landed is alone with its *)
(* change, and at the version the view has; any other is at a landing.     *)
(* This is inductive only with what the work was built on: the history and *)
(* versions of the same change, so that the landing of one workspace's     *)
(* work lands no other's.                                                  *)
(***************************************************************************)
Open(w) == ws[w].current \notin Landed
Of(w) == revs[ws[w].current].change

AtTip(w) == tip[Of(w)] = {ws[w].current}
Based(w) ==
  /\ revs[ws[w].current].parents[1] \in History
  /\ \A q \in DOMAIN revs[ws[w].current].reach : q \in Landed \/ revs[q].change = Of(w)

Placed(w) == IF Open(w) THEN AtTip(w) /\ Based(w) ELSE ws[w].current \in History

Apart == \A w, v \in Workspace : Open(w) /\ Open(v) /\ Of(w) = Of(v) => w = v

\* An op that may be undone moved its change forward, and the first version of
\* a change is of the workspace that has it.
OpFits(op) ==
  ~op.final =>
    \A pt \in op.point :
      /\ \A from \in pt[3] : from < pt[2]
      /\ pt[3] = {} => \A v \in Workspace : Open(v) /\ Of(v) = pt[1] => op.author = v

Owned == \A op \in ops : OpFits(op)

\* A job is of a call without a key, and what it landed is not a landing.
JobFits == job.key = Once /\ (job.left # {} => job.rev \notin History)

\* What a revision reaches: its parents, and all that what it reaches does.
Reaching ==
  \A r \in DOMAIN revs :
    /\ \A p \in revs[r].prev : p < r
    /\ \A i \in DOMAIN revs[r].parents : revs[r].parents[i] \in DOMAIN revs[r].reach
    /\ \A q \in DOMAIN revs[r].reach : DOMAIN revs[q].reach \subseteq DOMAIN revs[r].reach

Orderly ==
  /\ \A w \in Workspace : Placed(w)
  /\ Apart /\ Owned /\ JobFits /\ Reaching

\* A step adds to what is stored and to what has landed.
Forward == Grows /\ (trunk' = trunk \/ \E id : Lands(id))

\* What such a step keeps, and where the revisions of workspaces are.
LEMMA ForwardFacts ==
  ASSUME Typed, Forward
  PROVE  /\ Landed \subseteq Landed' /\ History \subseteq History'
         /\ DOMAIN revs \subseteq DOMAIN revs' /\ \A r \in DOMAIN revs : revs'[r] = revs[r]
         /\ \A l \in History' : l \in History \/ l \notin DOMAIN revs
         /\ \A w \in Workspace : /\ ws[w].current \in DOMAIN revs
                                 /\ Of(w) \in 0..ws[w].current /\ Of(w) \in RevId
                                 /\ DOMAIN revs[ws[w].current].reach \subseteq DOMAIN revs
<1>1. Landed \subseteq Landed' /\ History \subseteq History'
  BY ChainStays, ChainExtended DEF Forward
<1>2. DOMAIN revs \subseteq DOMAIN revs' /\ \A r \in DOMAIN revs : revs'[r] = revs[r]
  BY Carried DEF Forward
<1>3. \A l \in History' : l \in History \/ l \notin DOMAIN revs
  BY ChainStays, ChainExtended DEF Forward, Lands
<1>4. ASSUME NEW w \in Workspace
      PROVE  /\ ws[w].current \in DOMAIN revs
             /\ Of(w) \in 0..ws[w].current /\ Of(w) \in RevId
             /\ DOMAIN revs[ws[w].current].reach \subseteq DOMAIN revs
  <2>1. ws[w].current \in DOMAIN revs /\ Of(w) \in 0..ws[w].current /\ Of(w) \in RevId
    BY Known DEF Of
  <2>2. DOMAIN revs = 0..Last /\ Last \in Nat
    BY Numbers
  <2>3. DOMAIN revs[ws[w].current].reach \subseteq 0..ws[w].current
    BY <2>1, <2>2 DEF Typed, Stored, Good
  <2> QED
    BY <2>1, <2>2, <2>3
<1> QED
  BY <1>1, <1>2, <1>3, <1>4

\* The head of trunk is in its history.
LEMMA HeadInHistory ==
  ASSUME Typed
  PROVE  trunk.head \in History
<1>1. /\ DOMAIN revs = 0..Last /\ Stored(revs, Last) /\ trunk.head \in 0..Last
  BY Numbers DEF Typed, Heads
<1>2. Chain = WalkStep(revs, Walk(revs), trunk.head) /\ Chain \in Seq(DOMAIN revs)
  BY <1>1, ChainFacts, WalkDefined
<1>3. CASE revs[trunk.head].parents = <<>>
  <2>1. Chain = <<trunk.head>>
    BY <1>2, <1>3 DEF WalkStep
  <2> QED
    BY <2>1 DEF History
<1>4. CASE revs[trunk.head].parents # <<>>
  <2> DEFINE p == revs[trunk.head].parents[1]
             s == Walk(revs)[p]
  <2>1. Chain = Append(s, trunk.head)
    BY <1>2, <1>4 DEF WalkStep
  <2>2. s \in Seq(0..Last)
    BY <1>1, <1>4, FirstParent, WalkReaches
  <2> HIDE DEF s
  <2>3. /\ Len(s) + 1 \in DOMAIN Append(s, trunk.head)
        /\ Append(s, trunk.head)[Len(s) + 1] = trunk.head
    BY <2>2
  <2> QED
    BY <2>1, <2>3 DEF History
<1> QED
  BY <1>3, <1>4

\* A workspace that is left alone, and whose work does not land, is as it was.
LEMMA Stays ==
  ASSUME Typed, Forward, NEW w \in Workspace, Placed(w), ws'[w].current = ws[w].current,
         Open(w) => ws[w].current \notin Landed' /\ tip'[Of(w)] = tip[Of(w)]
  PROVE  Placed(w)' /\ Of(w)' = Of(w) /\ (Open(w)' <=> Open(w))
<1> DEFINE cur == ws[w].current
<1>1. /\ Landed \subseteq Landed' /\ History \subseteq History'
      /\ \A r \in DOMAIN revs : revs'[r] = revs[r]
      /\ cur \in DOMAIN revs /\ DOMAIN revs[cur].reach \subseteq DOMAIN revs
  BY ForwardFacts
<1>2. Of(w)' = Of(w) /\ revs'[cur] = revs[cur]
  BY <1>1 DEF Of
<1>3. Open(w)' <=> Open(w)
  BY <1>1 DEF Open
<1>4. CASE Open(w)
  <2>1. AtTip(w) /\ Based(w)
    BY <1>4 DEF Placed
  <2>2. tip'[Of(w)] = {cur}
    BY <1>4, <2>1 DEF AtTip
  <2>3. AtTip(w)'
    BY <1>2, <2>2 DEF AtTip
  <2>4. ASSUME NEW q \in DOMAIN revs[cur].reach
        PROVE  q \in Landed' \/ revs'[q].change = Of(w)
    <3>1. q \in Landed \/ revs[q].change = Of(w)
      BY <2>1 DEF Based
    <3> QED
      BY <1>1, <3>1
  <2>5. revs'[cur].parents[1] \in History'
    BY <1>1, <1>2, <2>1 DEF Based
  <2>6. Based(w)'
    BY <1>2, <2>4, <2>5 DEF Based
  <2> QED
    BY <1>2, <1>3, <1>4, <2>3, <2>6 DEF Placed
<1>5. CASE ~Open(w)
  <2>1. cur \in History
    BY <1>5 DEF Placed
  <2>2. ws'[w].current \in History'
    BY <1>1, <2>1
  <2> QED
    BY <1>2, <1>3, <1>5, <2>2 DEF Placed
<1> QED
  BY <1>4, <1>5

\* Ops fit as long as work that is open was open before, or is of a new change.
LEMMA OwnedKept ==
  ASSUME Typed, Forward, Owned,
         \A v \in Workspace : Open(v)' => (Open(v) /\ Of(v)' = Of(v)) \/ Of(v)' \notin DOMAIN revs,
         NEW op, ops' \subseteq ops \cup {op},
         ~op.final => \A pt \in op.point :
           /\ \A from \in pt[3] : from < pt[2]
           /\ pt[3] = {} => \A v \in Workspace : Open(v)' /\ Of(v)' = pt[1] => op.author = v
  PROVE  Owned'
<1> SUFFICES ASSUME NEW q \in ops', ~q.final, NEW pt \in q.point
             PROVE  /\ \A from \in pt[3] : from < pt[2]
                    /\ pt[3] = {} => \A v \in Workspace : Open(v)' /\ Of(v)' = pt[1] => q.author = v
  BY DEF Owned, OpFits
<1>1. CASE q = op
  BY <1>1
<1>2. CASE q \in ops
  <2>1. OpFits(q) /\ OpOK(revs, q)
    BY <1>2 DEF Owned, Typed, Points
  <2>2. pt[2] \in DOMAIN revs /\ revs[pt[2]].change = pt[1]
    BY <2>1 DEF OpOK
  <2>3. pt[1] \in DOMAIN revs
    <3>1. DOMAIN revs = 0..Last /\ Last \in Nat /\ revs[pt[2]].change \in 0..pt[2]
      BY <2>2, Known, Numbers
    <3> QED
      BY <2>2, <3>1
  <2> QED
    BY <2>1, <2>3 DEF OpFits
<1> QED
  BY <1>1, <1>2

\* A step stores one revision, of what is stored.
Stores(change, prev, parents, files) ==
  /\ prev \subseteq DOMAIN revs /\ parents \in Seq(DOMAIN revs)
  /\ revs' = Store(NextId, NewRev(NextId, change, prev, parents, files))

\* A new revision reaches what its parents reach.
LEMMA NewReaches ==
  ASSUME Typed, Reaching, Grows, NEW change, NEW prev, NEW parents, NEW files,
         Stores(change, prev, parents, files)
  PROVE  /\ Reaching'
         /\ DOMAIN revs'[NextId].reach
              = {NextId} \cup UNION {DOMAIN revs[parents[i]].reach : i \in DOMAIN parents}
<1> DEFINE new == NewRev(NextId, change, prev, parents, files)
           up == {parents[i] : i \in DOMAIN parents}
<1>0. /\ prev \subseteq DOMAIN revs /\ parents \in Seq(DOMAIN revs)
      /\ revs' = Store(NextId, new)
  BY DEF Stores
<1>1. /\ Last \in Nat /\ DOMAIN revs = 0..Last /\ NextId \notin DOMAIN revs
      /\ \A r \in DOMAIN revs : r < NextId
  BY Numbers, Known
<1>2. /\ DOMAIN revs' = DOMAIN revs \cup {NextId} /\ revs'[NextId] = new
      /\ \A r \in DOMAIN revs : revs'[r] = revs[r]
  BY <1>0, <1>1 DEF Store
<1>3. DOMAIN new.reach = (UNION {DOMAIN revs[p].reach : p \in up}) \cup {NextId}
  BY DEF NewRev, ReachOf
<1>4. new.parents = parents /\ new.prev = prev
  BY DEF NewRev
<1> HIDE DEF new
<1>5. DOMAIN new.reach
        = {NextId} \cup UNION {DOMAIN revs[parents[i]].reach : i \in DOMAIN parents}
  <2>1. UNION {DOMAIN revs[p].reach : p \in up}
          = UNION {DOMAIN revs[parents[i]].reach : i \in DOMAIN parents}
    OBVIOUS
  <2> QED
    BY <1>3, <2>1
<1>6. \A i \in DOMAIN parents : parents[i] \in DOMAIN revs
  BY <1>0
<1>7. \A r \in DOMAIN revs :
        r \in DOMAIN revs[r].reach /\ DOMAIN revs[r].reach \subseteq DOMAIN revs
  <2> TAKE r \in DOMAIN revs
  <2>1. r \in 0..Last /\ r \in DOMAIN revs[r].reach /\ DOMAIN revs[r].reach \subseteq 0..r
    BY <1>1 DEF Typed, Stored, Good
  <2> QED
    BY <1>1, <2>1
<1> SUFFICES ASSUME NEW r \in DOMAIN revs'
             PROVE  /\ \A p \in revs'[r].prev : p < r
                    /\ \A i \in DOMAIN revs'[r].parents :
                         revs'[r].parents[i] \in DOMAIN revs'[r].reach
                    /\ \A q \in DOMAIN revs'[r].reach :
                         DOMAIN revs'[q].reach \subseteq DOMAIN revs'[r].reach
  BY <1>2, <1>5 DEF Reaching
<1>8. CASE r \in DOMAIN revs
  <2>1. revs'[r] = revs[r] /\ \A q \in DOMAIN revs[r].reach : revs'[q] = revs[q]
    BY <1>2, <1>7, <1>8
  <2> QED
    BY <1>8, <2>1 DEF Reaching
<1>9. CASE r = NextId
  <2>1. \A p \in prev : p < NextId
    BY <1>0, <1>1
  <2>2. \A i \in DOMAIN parents : parents[i] \in DOMAIN new.reach
    BY <1>5, <1>6, <1>7
  <2>3. ASSUME NEW q \in DOMAIN new.reach
        PROVE  DOMAIN revs'[q].reach \subseteq DOMAIN new.reach
    <3>1. CASE q = NextId
      BY <1>2, <3>1
    <3>2. CASE q # NextId
      <4>1. PICK i \in DOMAIN parents : q \in DOMAIN revs[parents[i]].reach
        BY <1>5, <3>2
      <4>2. q \in DOMAIN revs /\ DOMAIN revs[q].reach \subseteq DOMAIN revs[parents[i]].reach
        BY <1>6, <1>7, <4>1 DEF Reaching
      <4> QED
        BY <1>2, <1>5, <4>2
    <3> QED
      BY <3>1, <3>2
  <2> QED
    BY <1>2, <1>4, <1>9, <2>1, <2>2, <2>3
<1> QED
  BY <1>2, <1>8, <1>9

\* A step that moves no workspace, nor what the view says of its change.
LEMMA AllStay ==
  ASSUME Typed, Orderly, Forward,
         \A w \in Workspace :
           /\ ws'[w].current = ws[w].current
           /\ Open(w) => ws[w].current \notin Landed' /\ tip'[Of(w)] = tip[Of(w)],
         NEW op, ops' \subseteq ops \cup {op},
         ~op.final => \A pt \in op.point :
           /\ \A from \in pt[3] : from < pt[2]
           /\ pt[3] = {} => \A v \in Workspace : Open(v) /\ Of(v) = pt[1] => op.author = v,
         JobFits', Reaching'
  PROVE  Orderly'
<1>1. \A w \in Workspace : Placed(w)' /\ Of(w)' = Of(w) /\ (Open(w)' <=> Open(w))
  BY Stays DEF Orderly
<1>2. Apart'
  BY <1>1 DEF Orderly, Apart
<1>3. Owned'
  BY <1>1, OwnedKept DEF Orderly
<1> QED
  BY <1>1, <1>2, <1>3 DEF Orderly


Tidy == IInv /\ Undisturbed /\ Orderly

\* The verbs that move workspaces are called without a key.
LEMMA Unkeyed ==
  ASSUME Undisturbed
  PROVE  \A verb \in {"snapshot", "land", "all"} : Keys(verb) = {Once}
<1> QED
  BY DEF Undisturbed, Keys

\* What is left of a job keeps its key, and its revision while workspaces are left.
LEMMA LeftFits ==
  ASSUME Typed, NEW j \in Jobs, j.key = Once, NEW left
  PROVE  /\ Left(j, left).key = Once /\ Left(j, left).left = left
         /\ (left # {} => Left(j, left).rev = j.rev)
<1>1. CASE left # {}
  BY <1>1 DEF Left, Jobs
<1>2. CASE left = {}
  BY <1>2 DEF Left, Jobs, NoJob
<1> QED
  BY <1>1, <1>2

\* A step that stores nothing, points no change and moves no workspace.
LEMMA NothingMoves ==
  ASSUME Typed, Orderly, revs' = revs, tip' = tip, trunk' = trunk,
         \A w \in Workspace : ws'[w].current = ws[w].current,
         NEW op, op.point = {}, ops' \subseteq ops \cup {op},
         job'.key = Once, job'.left # {} => job'.rev \notin History
  PROVE  Orderly'
<1>1. Grows /\ Forward
  BY NothingStored DEF Forward
<1>2. History' = History /\ Landed' = Landed
  BY <1>1, ChainStays
<1>3. Reaching' /\ JobFits'
  BY <1>2 DEF Orderly, Reaching, JobFits
<1>4. \A w \in Workspace :
        /\ ws'[w].current = ws[w].current
        /\ Open(w) => ws[w].current \notin Landed' /\ tip'[Of(w)] = tip[Of(w)]
  BY <1>2 DEF Open
<1> QED
  BY <1>1, <1>3, <1>4, AllStay

\* Writing a file moves nothing.
LEMMA EditTidy ==
  ASSUME Tidy, NEW w \in play.spaces, NEW p \in Path, Edit(w, p)
  PROVE  Orderly'
<1> DEFINE op == OpOf(w, {}, {}, {}, TRUE)
<1>1. Typed /\ Orderly /\ w \in Workspace
  BY Playing DEF Tidy, IInv
<1>2. /\ ws' = [ws EXCEPT ![w].files[p] = {edits'}]
      /\ UNCHANGED <<revs, tip, trunk, ops, job>>
  BY DEF Edit
<1>3. \A v \in Workspace : ws'[v].current = ws[v].current
  BY <1>1, <1>2 DEF Typed, Spaces
<1>4. op.point = {}
  BY DEF OpOf
<1>5. job.key = Once /\ (job.left # {} => job.rev \notin History)
  BY <1>1 DEF Orderly, JobFits
<1> HIDE DEF op
<1> QED
  BY <1>1, <1>2, <1>3, <1>4, <1>5, NothingMoves

\* Nor does a proposal.
LEMMA ProposeTidy ==
  ASSUME Tidy, NEW w \in play.spaces, NEW k \in Keys("propose"), Propose(w, k)
  PROVE  Orderly'
<1> DEFINE op == OpOf(w, {}, {ws[w].current}, {}, FALSE)
<1>1. Typed /\ Orderly
  BY DEF Tidy, IInv
<1>2. Log(op) /\ UNCHANGED <<revs, tip, trunk, ws, job>>
  BY DEF Propose
<1>3. op.point = {} /\ ops' \subseteq ops \cup {op}
  BY <1>2 DEF OpOf, Log
<1>4. job.key = Once /\ (job.left # {} => job.rev \notin History)
  BY <1>1 DEF Orderly, JobFits
<1> HIDE DEF op
<1> QED
  BY <1>1, <1>2, <1>3, <1>4, NothingMoves

\* Nor does the start of a pass, which is called without a key.
LEMMA StartPassTidy ==
  ASSUME Tidy, NEW k \in Keys("all"), StartPass(k)
  PROVE  Orderly'
<1> DEFINE op == OpOf(Root, {}, {}, {}, TRUE)
<1>1. Typed /\ Orderly /\ k = Once
  BY Unkeyed DEF Tidy, IInv
<1>2. /\ job' = [NoJob EXCEPT !.todo = proposed \ Landed, !.key = k]
      /\ UNCHANGED <<revs, tip, trunk, ws, ops>>
  BY DEF StartPass
<1>3. op.point = {}
  BY DEF OpOf
<1>4. job'.key = Once /\ job'.left = {}
  BY <1>1, <1>2 DEF NoJob
<1> HIDE DEF op
<1> QED
  BY <1>1, <1>2, <1>3, <1>4, NothingMoves

\* No work is stacked on work that has not landed: nothing is restacked.
LEMMA RestackTidy ==
  ASSUME Tidy, NEW w \in play.spaces, Restack(w)
  PROVE  Orderly' /\ UNCHANGED <<revs, tip, proposed, trunk, ws, ops>>
<1> DEFINE op == OpOf(w, {}, {}, {}, TRUE)
           x == ws[w].current
<1>1. Typed /\ Orderly /\ w \in Workspace /\ job \in Jobs
  BY Playing DEF Tidy, IInv, Typed
<1>2. w \in job.left /\ UNCHANGED trunk
  BY DEF Restack
<1>3. job.key = Once /\ job.rev \notin History
  BY <1>1, <1>2 DEF Orderly, JobFits
<1>4. ~(x \notin {job.rev, job.landing} \cup Landed /\ revs[x].parents[1] = job.rev)
  <2>1. x \notin Landed => revs[x].parents[1] \in History
    BY <1>1 DEF Orderly, Placed, Open, Based
  <2> QED
    BY <1>3, <2>1
<1>5. job' = Left(job, job.left \ {w}) /\ UNCHANGED <<revs, tip, proposed, ws, ops>>
  BY <1>4 DEF Restack
<1>6. op.point = {}
  BY DEF OpOf
<1>7. job'.key = Once /\ (job'.left # {} => job'.rev \notin History)
  BY <1>1, <1>3, <1>5, LeftFits
<1> HIDE DEF op
<1> QED
  BY <1>1, <1>2, <1>5, <1>6, <1>7, NothingMoves

\* A candidate is of a change that nobody holds.
LEMMA TryTidy ==
  ASSUME Tidy, NEW w \in play.spaces, NEW p \in Path, Try(w, p)
  PROVE  Orderly'
<1> DEFINE id == NextId
           cur == ws[w].current
           files == [revs[cur].files EXCEPT ![p] = {edits'}]
           op == OpOf(w, {<<id, id, {}>>}, {}, {}, FALSE)
<1>1. /\ Typed /\ Orderly /\ IInv /\ w \in Workspace /\ StepOK
  BY Playing, TryOK DEF Tidy, IInv
<1>2. /\ Idle
      /\ revs' = Store(id, NewRev(id, id, {}, <<cur>>, files))
      /\ tip' = [tip EXCEPT ![id] = {id}] /\ Log(op)
      /\ UNCHANGED <<trunk, ws, job>>
  BY DEF Try
<1> HIDE DEF files
<1>3. Grows /\ Forward /\ History' = History /\ Landed' = Landed
  BY <1>1, <1>2, ChainStays DEF StepOK, Forward
<1>4. \A v \in Workspace : Of(v) \in DOMAIN revs /\ Of(v) # id
  <2>1. /\ DOMAIN revs = 0..Last /\ Last \in Nat /\ id \notin DOMAIN revs
        /\ \A v \in Workspace : ws[v].current \in DOMAIN revs /\ Of(v) \in 0..ws[v].current
    BY <1>1, <1>3, ForwardFacts, Numbers
  <2> QED
    BY <2>1
<1>5. cur \in DOMAIN revs /\ <<cur>> \in Seq(DOMAIN revs)
  BY <1>1, Known
<1>6. Reaching'
  <2>1. Stores(id, {}, <<cur>>, files) /\ Reaching
    BY <1>1, <1>2, <1>5 DEF Stores, Orderly
  <2> QED
    BY <1>1, <1>3, <2>1, NewReaches
<1>7. JobFits'
  BY <1>1, <1>2, <1>3 DEF Orderly, JobFits
<1>8. \A v \in Workspace : tip'[Of(v)] = tip[Of(v)]
  <2>1. \A v \in Workspace : Of(v) \in RevId
    BY <1>1, <1>3, ForwardFacts
  <2> QED
    BY <1>1, <1>2, <1>4, <2>1 DEF Typed, Tips
<1>9. op.point = {<<id, id, {}>>} /\ ops' \subseteq ops \cup {op}
  BY <1>2 DEF OpOf, Log
<1>10. \A pt \in op.point :
         /\ \A from \in pt[3] : from < pt[2]
         /\ pt[3] = {} => \A v \in Workspace : Open(v) /\ Of(v) = pt[1] => op.author = v
  <2> HIDE DEF op, id
  <2> TAKE pt \in op.point
  <2>0. pt = <<id, id, {}>>
    BY <1>9
  <2>1. pt[1] = id /\ pt[3] = {}
    BY <2>0
  <2> QED
    BY <1>4, <2>1
<1>11. \A v \in Workspace :
         /\ ws'[v].current = ws[v].current
         /\ Open(v) => ws[v].current \notin Landed' /\ tip'[Of(v)] = tip[Of(v)]
  BY <1>2, <1>3, <1>8 DEF Open
<1> HIDE DEF op
<1> QED
  BY <1>1, <1>3, <1>6, <1>7, <1>9, <1>10, <1>11, AllStay

\* A workspace goes on to revision id, of the change it has or of a new one; the view
\* has it, and it is built on what landed and on versions of the change.
GoesOn(w, id, change) ==
  /\ id \notin DOMAIN revs /\ revs'[id].change = change
  /\ ws'[w].current = id /\ \A v \in Workspace \ {w} : ws'[v].current = ws[v].current
  /\ tip' = [tip EXCEPT ![change] = {id}]
  /\ (Open(w) /\ change = Of(w)) \/ change \notin DOMAIN revs
  /\ revs'[id].parents[1] \in History
  /\ \A q \in DOMAIN revs'[id].reach :
       q = id \/ q \in Landed \/ (q \in DOMAIN revs /\ revs[q].change = change)

GoesBy(op, w, id, change) ==
  /\ op.point = {<<change, id, tip[change]>>} /\ ops' \subseteq ops \cup {op}
  /\ \A from \in tip[change] : from < id
  /\ tip[change] = {} => op.author = w

\* Then everything is where it belongs after the step as well.
LEMMA MovesOn ==
  ASSUME Typed, Orderly, Forward, trunk' = trunk, NEW w \in Workspace,
         NEW change \in RevId, NEW id, GoesOn(w, id, change),
         NEW op, GoesBy(op, w, id, change), JobFits', Reaching'
  PROVE  Orderly'
<1>1. History' = History /\ Landed' = Landed /\ Landed \subseteq DOMAIN revs
  BY ChainStays, ChainFacts DEF Forward
<1>2. /\ \A r \in DOMAIN revs : revs'[r] = revs[r]
      /\ \A v \in Workspace : Of(v) \in DOMAIN revs /\ Of(v) \in RevId
  <2>1. DOMAIN revs = 0..Last /\ Last \in Nat
    BY Numbers
  <2>2. \A v \in Workspace : /\ ws[v].current \in DOMAIN revs /\ Of(v) \in 0..ws[v].current
                             /\ Of(v) \in RevId
    BY ForwardFacts
  <2>3. \A v \in Workspace : Of(v) \in DOMAIN revs
    BY <2>1, <2>2
  <2> QED
    BY <2>2, <2>3, ForwardFacts
<1>3. tip'[change] = {id} /\ \A c \in RevId : c # change => tip'[c] = tip[c]
  BY DEF GoesOn, Typed, Tips
<1>4. Of(w)' = change /\ Open(w)' /\ Placed(w)'
  <2>1. Of(w)' = change /\ Open(w)'
    BY <1>1 DEF GoesOn, Of, Open
  <2>2. AtTip(w)'
    BY <1>3, <2>1 DEF AtTip, GoesOn
  <2>3. \A q \in DOMAIN revs'[id].reach : q \in Landed' \/ revs'[q].change = change
    BY <1>1, <1>2 DEF GoesOn
  <2>4. Based(w)'
    BY <1>1, <2>1, <2>3 DEF Based, GoesOn
  <2> QED
    BY <2>1, <2>2, <2>4 DEF Placed
<1>5. ASSUME NEW v \in Workspace \ {w}
      PROVE  Placed(v)' /\ Of(v)' = Of(v) /\ (Open(v)' <=> Open(v)) /\ (Open(v) => Of(v) # change)
  <2>1. Open(v) => Of(v) # change
    BY <1>2 DEF Orderly, Apart, GoesOn
  <2>2. Open(v) => ws[v].current \notin Landed' /\ tip'[Of(v)] = tip[Of(v)]
    BY <1>1, <1>2, <1>3, <2>1 DEF Open
  <2>3. ws'[v].current = ws[v].current /\ Placed(v)
    BY DEF GoesOn, Orderly
  <2> QED
    BY <2>1, <2>2, <2>3, Stays
<1>6. \A v \in Workspace : Placed(v)'
  BY <1>4, <1>5
<1>7. Apart'
  <2> SUFFICES ASSUME NEW u \in Workspace, NEW v \in Workspace, Open(u)', Open(v)', Of(u)' = Of(v)'
               PROVE  u = v
    BY DEF Apart
  <2>1. CASE u # w /\ v # w
    BY <1>5, <2>1 DEF Orderly, Apart
  <2>2. CASE u = w \/ v = w
    BY <1>4, <1>5, <2>2
  <2> QED
    BY <2>1, <2>2
<1>8. Owned'
  <2>1. \A v \in Workspace : Open(v)' => (Open(v) /\ Of(v)' = Of(v)) \/ Of(v)' \notin DOMAIN revs
    BY <1>4, <1>5 DEF GoesOn
  <2>2. ASSUME NEW pt \in op.point
        PROVE  /\ \A from \in pt[3] : from < pt[2]
               /\ pt[3] = {} => \A v \in Workspace : Open(v)' /\ Of(v)' = pt[1] => op.author = v
    <3>1. pt = <<change, id, tip[change]>>
      BY <2>2 DEF GoesBy
    <3>2. pt[1] = change /\ pt[2] = id /\ pt[3] = tip[change]
      BY <3>1
    <3>3. \A v \in Workspace : Open(v)' /\ Of(v)' = change => v = w
      BY <1>5
    <3> QED
      BY <3>2, <3>3 DEF GoesBy
  <2>3. ops' \subseteq ops \cup {op} /\ Owned
    BY DEF GoesBy, Orderly
  <2> QED
    BY <2>1, <2>2, <2>3, OwnedKept
<1> QED
  BY <1>6, <1>7, <1>8 DEF Orderly

\* What a revision that has landed, or was built on what has, reaches.
LEMMA ReachesLanded ==
  ASSUME Typed, Orderly, NEW r \in Landed
  PROVE  DOMAIN revs[r].reach \subseteq Landed
<1>1. trunk.head \in DOMAIN revs
  BY DEF Typed, Heads
<1> QED
  BY <1>1 DEF Orderly, Reaching, Landed

\* A snapshot takes the workspace on, in the change it has or in a new one on a landing.
LEMMA SnapshotTidy ==
  ASSUME Tidy, NEW w \in play.spaces, NEW k \in Keys("snapshot"), Snapshot(w, k)
  PROVE  Orderly'
<1> DEFINE id == NextId
           cur == ws[w].current
           rev == SnapshotOf(w, id)
           op == OpOf(w, {<<rev.change, id, tip[rev.change]>>}, {}, {}, FALSE)
<1>1. /\ Typed /\ Orderly /\ IInv /\ w \in Workspace /\ StepOK /\ k = Once /\ ~Repeated(w, k)
      /\ cur \in DOMAIN revs
  BY Playing, SnapshotOK, Unkeyed, Known DEF Tidy, IInv, Repeated
<1>2. /\ Idle /\ revs' = Store(id, rev) /\ tip' = [tip EXCEPT ![rev.change] = {id}]
      /\ ws' = [ws EXCEPT ![w].current = id] /\ Log(op) /\ UNCHANGED <<trunk, job>>
      /\ PointLegal(rev.change, rev.prev)
  BY <1>1 DEF Snapshot
<1>3. Grows /\ Forward /\ History' = History /\ Landed' = Landed
  BY <1>1, <1>2, ChainStays DEF StepOK, Forward
<1>4. /\ id \notin DOMAIN revs /\ DOMAIN revs \subseteq Nat /\ id \in Nat
      /\ \A r \in DOMAIN revs : r < id
  BY <1>1, Numbers, Known
<1> DEFINE Built(change, prev, parents) ==
             /\ rev = NewRev(id, change, prev, parents, ws[w].files)
             /\ prev \subseteq DOMAIN revs /\ parents \in Seq(DOMAIN revs) /\ parents[1] \in History
             /\ \A i \in DOMAIN parents : \A q \in DOMAIN revs[parents[i]].reach :
                  q \in Landed \/ (q \in DOMAIN revs /\ revs[q].change = change)
             /\ (Open(w) /\ change = Of(w)) \/ change = id
<1>5. PICK change, prev, parents : Built(change, prev, parents)
  <2>1. CASE cur \in Landed
    <3>1. cur \in History
      BY <1>1, <2>1 DEF Orderly, Placed, Open
    <3>2. rev = NewRev(id, id, {}, <<cur>>, ws[w].files)
      BY <2>1 DEF SnapshotOf
    <3>3. DOMAIN revs[cur].reach \subseteq Landed
      BY <1>1, <2>1, ReachesLanded
    <3> HIDE DEF rev, cur
    <3>4. /\ <<cur>> \in Seq(DOMAIN revs) /\ <<cur>>[1] = cur
          /\ \A i \in DOMAIN <<cur>> : <<cur>>[i] = cur
      BY <1>1
    <3>5. Built(id, {}, <<cur>>)
      BY <3>1, <3>2, <3>3, <3>4
    <3> HIDE DEF Built
    <3> QED
      BY <3>5
  <2>2. CASE cur \notin Landed
    <3>1. Open(w) /\ Based(w)
      BY <1>1, <2>2 DEF Orderly, Placed, Open
    <3>2. rev = NewRev(id, revs[cur].change, {cur}, revs[cur].parents, ws[w].files)
      BY <2>2 DEF SnapshotOf
    <3>3. /\ revs[cur].parents \in Seq(DOMAIN revs)
          /\ \A i \in DOMAIN revs[cur].parents : revs[cur].parents[i] \in DOMAIN revs
      <4>1. /\ revs[cur].parents \in Seq(Nat)
            /\ \A i \in DOMAIN revs[cur].parents : revs[cur].parents[i] \in DOMAIN revs
        BY <1>1, Known
      <4>2. PICK s : s = revs[cur].parents
        OBVIOUS
      <4>3. s \in Seq(DOMAIN revs)
        BY <4>1, <4>2
      <4> QED
        BY <4>1, <4>2, <4>3
    <3>4. ASSUME NEW i \in DOMAIN revs[cur].parents,
                 NEW q \in DOMAIN revs[revs[cur].parents[i]].reach
          PROVE  q \in Landed \/ (q \in DOMAIN revs /\ revs[q].change = revs[cur].change)
      <4>1. revs[cur].parents[i] \in DOMAIN revs[cur].reach
        BY <1>1 DEF Orderly, Reaching
      <4>2. q \in DOMAIN revs[cur].reach
        BY <1>1, <4>1 DEF Orderly, Reaching
      <4>3. q \in DOMAIN revs
        BY <1>1, <1>3, <4>2, ForwardFacts
      <4> QED
        BY <3>1, <4>2, <4>3 DEF Based, Of
    <3>5. Built(revs[cur].change, {cur}, revs[cur].parents)
      <4>1. revs[cur].parents[1] \in History /\ revs[cur].change = Of(w)
        BY <3>1 DEF Based, Of
      <4> HIDE DEF rev
      <4> QED
        BY <1>1, <3>1, <3>2, <3>3, <3>4, <4>1
    <3> HIDE DEF Built
    <3> QED
      BY <3>5
  <2> QED
    BY <2>1, <2>2
<1>6. rev.change = change /\ rev.prev = prev /\ rev.parents = parents
  BY <1>5 DEF NewRev
<1>7. op.point = {<<change, id, tip[change]>>} /\ ops' \subseteq ops \cup {op} /\ op.author = w
  BY <1>2, <1>6 DEF OpOf, Log
<1> HIDE DEF rev, op
<1>8. revs' = Store(id, NewRev(id, change, prev, parents, ws[w].files))
  BY <1>2, <1>5
<1>9. /\ Reaching'
      /\ DOMAIN revs'[id].reach
           = {id} \cup UNION {DOMAIN revs[parents[i]].reach : i \in DOMAIN parents}
  <2>1. Stores(change, prev, parents, ws[w].files) /\ Reaching
    BY <1>1, <1>5, <1>8 DEF Stores, Orderly
  <2> HIDE DEF Built
  <2> QED
    BY <1>1, <1>3, <2>1, NewReaches
<1>10. revs'[id] = rev
  BY <1>2 DEF Store
<1>11. \A q \in DOMAIN revs'[id].reach :
         q = id \/ q \in Landed \/ (q \in DOMAIN revs /\ revs[q].change = change)
  BY <1>5, <1>9
<1>12. change \in RevId /\ ((Open(w) /\ change = Of(w)) \/ change \notin DOMAIN revs)
  <2>1. id \in RevId
    <3>1. play.revs \in 0..MaxRev /\ MaxRev \in Nat /\ id <= play.revs
      BY <1>1, Playing DEF Snapshot
    <3> QED
      BY <1>4, <3>1 DEF RevId
  <2>2. Of(w) \in RevId
    BY <1>1, <1>3, ForwardFacts
  <2> QED
    BY <1>4, <1>5, <2>1, <2>2
<1>13. ws'[w].current = id /\ \A v \in Workspace \ {w} : ws'[v].current = ws[v].current
  BY <1>1, <1>2 DEF Typed, Spaces
<1>14. \A from \in tip[change] : from < id
  <2>1. tip[change] \subseteq DOMAIN revs
    BY <1>1, <1>12 DEF Typed, Tips
  <2> QED
    BY <1>4, <2>1
<1>15. JobFits'
  BY <1>1, <1>2, <1>3 DEF Orderly, JobFits
<1>16. revs'[id].parents[1] \in History /\ revs'[id].change = change
  BY <1>5, <1>6, <1>10
<1>17. tip' = [tip EXCEPT ![change] = {id}]
  BY <1>2, <1>6
<1> HIDE DEF id, Built
<1>18. GoesOn(w, id, change)
  BY <1>4, <1>11, <1>12, <1>13, <1>16, <1>17 DEF GoesOn
<1>19. GoesBy(op, w, id, change)
  BY <1>7, <1>14 DEF GoesBy
<1>20. trunk' = trunk
  BY <1>2
<1> QED
  BY <1>1, <1>3, <1>9, <1>12, <1>15, <1>18, <1>19, <1>20, MovesOn

\* A landing is of work that has not landed; it takes the one workspace that has the
\* work along, and lands nothing that another one has.
LEMMA LandOneTidy ==
  ASSUME Tidy, NEW w \in Workspace, NEW rest \in Jobs, rest.key = Once,
         LandOne(w, ws[w].current, Once, rest)
  PROVE  Orderly' /\ Open(w) /\ tip[Of(w)] = {ws[w].current}
<1> DEFINE id == NextId
           r == ws[w].current
           c == revs[r].change
           head == revs[trunk.head].files
           mine == revs[r].files
<1>1. /\ Typed /\ Orderly /\ IInv /\ StepOK /\ r \in DOMAIN revs /\ c \in RevId /\ c = Of(w)
      /\ ~Repeated(Root, Once)
  BY Known, LandOneOK DEF Tidy, IInv, Repeated, Of
<1>2. PointLegal(c, {r})
  BY <1>1 DEF LandOne
<1>3. Open(w) /\ AtTip(w) /\ Based(w) /\ tip[c] = {r}
  <2>1. ASSUME ~Open(w)
        PROVE  FALSE
    <3>1. r \in History /\ r \in Landed
      BY <1>1, <2>1, ChainFacts DEF Orderly, Placed
    <3>2. tip[c] = {r}
      BY <1>1, <3>1 DEF IInv, HistoryTips
    <3> QED
      BY <1>2, <3>1, <3>2 DEF PointLegal
  <2>2. AtTip(w) /\ Based(w)
    BY <1>1, <2>1 DEF Orderly, Placed
  <2> QED
    BY <1>1, <2>1, <2>2 DEF AtTip
<1>4. PICK files : Advance(r, files, Once, rest) \/ RecordConflict(w, r, files, Once, rest)
  BY DEF LandOne
<1>5. /\ revs' = Store(id, NewRev(id, c, {r}, <<trunk.head, r>>, files))
      /\ tip' = [tip EXCEPT ![c] = {id}]
  BY <1>1, <1>4 DEF Advance, RecordConflict
<1>6. /\ id \notin DOMAIN revs /\ trunk.head \in DOMAIN revs /\ r < id
      /\ Grows /\ Forward /\ Landed \subseteq DOMAIN revs
  BY <1>1, Numbers, Known, ChainFacts DEF StepOK, Forward, Typed, Heads
<1>7. Reaching' /\ DOMAIN revs'[id].reach = {id} \cup Landed \cup DOMAIN revs[r].reach
  <2>1. <<trunk.head, r>> \in Seq(DOMAIN revs) /\ {r} \subseteq DOMAIN revs
    BY <1>1, <1>6
  <2>2. Stores(c, {r}, <<trunk.head, r>>, files) /\ Reaching
    BY <1>1, <1>5, <2>1 DEF Stores, Orderly
  <2> HIDE DEF c, r
  <2>3. /\ Reaching'
        /\ DOMAIN revs'[id].reach
             = {id} \cup UNION {DOMAIN revs[<<trunk.head, r>>[i]].reach :
                                 i \in DOMAIN <<trunk.head, r>>}
    BY <1>1, <1>6, <2>2, NewReaches
  <2>4. UNION {DOMAIN revs[<<trunk.head, r>>[i]].reach : i \in DOMAIN <<trunk.head, r>>}
          = DOMAIN revs[trunk.head].reach \cup DOMAIN revs[r].reach
    <3>1. /\ DOMAIN <<trunk.head, r>> = {1, 2}
          /\ <<trunk.head, r>>[1] = trunk.head /\ <<trunk.head, r>>[2] = r
      OBVIOUS
    <3> QED
      BY <3>1
  <2> QED
    BY <2>3, <2>4 DEF Landed
<1>8. revs'[id].change = c /\ revs'[id].parents[1] = trunk.head
  BY <1>5 DEF Store, NewRev
<1>9. \A v \in Workspace \ {w} : ws[v].current # r /\ (Open(v) => Of(v) # c)
  <2>1. \A v \in Workspace \ {w} : Open(v) => Of(v) # c
    BY <1>1, <1>3 DEF Orderly, Apart
  <2>2. \A v \in Workspace : ws[v].current = r => Open(v) /\ Of(v) = c
    BY <1>3 DEF Open, Of
  <2> QED
    BY <2>1, <2>2
<1>10. ws'[w].current = id /\ \A v \in Workspace \ {w} : ws'[v].current = ws[v].current
  <2>1. \A v \in Workspace : ws[v] \in [current : DOMAIN revs, files : Files]
    BY <1>1 DEF Typed, Spaces
  <2>2. /\ Hold(r, id)[w].current = id /\ \A v \in Workspace \ {w} : Hold(r, id)[v] = ws[v]
        /\ DOMAIN Hold(r, id) = Workspace
    BY <1>9, <2>1 DEF Hold
  <2>3. ws' = Hold(r, id) \/ ws' = [Hold(r, id) EXCEPT ![w].files = files]
    BY <1>4 DEF Advance, RecordConflict
  <2>4. Hold(r, id)[w] \in [current : DOMAIN revs \cup {id}, files : Files]
    BY <2>1 DEF Hold
  <2> QED
    BY <2>2, <2>3, <2>4
<1> HIDE DEF c, r, id
<1>11. CASE RecordConflict(w, r, files, Once, rest)
  <2> DEFINE op == OpOf(Root, {<<c, id, tip[c]>>}, {}, {}, FALSE)
  <2>1. Log(op) /\ trunk' = trunk /\ job' = Left(rest, {})
    BY <1>1, <1>11 DEF RecordConflict, c, r, id
  <2>2. op.point = {<<c, id, tip[c]>>} /\ ops' \subseteq ops \cup {op}
    BY <2>1 DEF OpOf, Log
  <2> HIDE DEF op
  <2>3. \A q \in DOMAIN revs'[id].reach :
          q = id \/ q \in Landed \/ (q \in DOMAIN revs /\ revs[q].change = c)
    <3>1. \A q \in DOMAIN revs[r].reach : q \in Landed \/ revs[q].change = c
      BY <1>1, <1>3 DEF Based, r
    <3>2. DOMAIN revs[r].reach \subseteq DOMAIN revs
      BY <1>1, <1>6, ForwardFacts DEF r
    <3> QED
      BY <1>7, <3>1, <3>2
  <2>4. trunk.head \in History
    BY <1>1, HeadInHistory
  <2>5. GoesOn(w, id, c)
    BY <1>1, <1>3, <1>5, <1>6, <1>8, <1>10, <2>3, <2>4 DEF GoesOn
  <2>6. GoesBy(op, w, id, c)
    BY <1>3, <1>6, <2>2 DEF GoesBy
  <2>7. JobFits'
    BY <1>1, <2>1, LeftFits DEF JobFits
  <2>8. Orderly'
    BY <1>1, <1>6, <1>7, <2>1, <2>5, <2>6, <2>7, MovesOn
  <2> QED
    BY <1>1, <1>3, <2>8 DEF r
<1>12. CASE Advance(r, files, Once, rest)
  <2> DEFINE op == OpOf(Root, {<<c, id, tip[c]>>}, {}, SameChange(r), TRUE)
  <2>1. /\ Log(op) /\ trunk' = [head |-> id, seq |-> trunk.seq + 1]
        /\ job' = [rest EXCEPT !.left = play.spaces, !.rev = r, !.landing = id]
    BY <1>1, <1>12 DEF Advance, c, r, id
  <2>2. op.final /\ ops' \subseteq ops \cup {op}
    BY <2>1 DEF OpOf, Log
  <2> HIDE DEF op
  <2>3. History' = History \cup {id} /\ Landed' = DOMAIN revs'[id].reach
    <3>1. trunk'.head = id /\ trunk' # trunk
      BY <1>6, <2>1
    <3>2. PICK l : Lands(l)
      BY <1>1, <3>1 DEF StepOK
    <3>3. l = id
      BY <3>1, <3>2 DEF Lands
    <3> QED
      BY <1>1, <1>6, <3>1, <3>2, <3>3, ChainExtended DEF Landed
  <2>4. Of(w)' = c /\ ~Open(w)' /\ Placed(w)'
    <3>1. Of(w)' = c /\ ~Open(w)'
      BY <1>7, <1>8, <1>10, <2>3 DEF Of, Open
    <3> QED
      BY <1>10, <2>3, <3>1 DEF Placed
  <2>5. ASSUME NEW v \in Workspace \ {w}
        PROVE  Placed(v)' /\ Of(v)' = Of(v) /\ (Open(v)' <=> Open(v))
    <3>1. Open(v) => tip'[Of(v)] = tip[Of(v)]
      <4>1. Of(v) \in RevId
        BY <1>1, <1>6, ForwardFacts
      <4> QED
        BY <1>1, <1>5, <1>9, <4>1 DEF Typed, Tips
    <3>2. Open(v) => ws[v].current \notin Landed'
      <4>1. \A q \in DOMAIN revs[r].reach : q \in Landed \/ revs[q].change = c
        BY <1>1, <1>3 DEF Based, r
      <4>2. ws[v].current \in DOMAIN revs
        BY <1>1, Known
      <4>3. Open(v) => revs[ws[v].current].change # c /\ ws[v].current \notin Landed
        BY <1>9 DEF Open, Of
      <4> QED
        BY <1>6, <1>7, <2>3, <4>1, <4>2, <4>3
    <3>3. ws'[v].current = ws[v].current /\ Placed(v)
      BY <1>1, <1>10 DEF Orderly
    <3> QED
      BY <1>1, <1>6, <3>1, <3>2, <3>3, Stays
  <2>6. \A v \in Workspace : Placed(v)'
    BY <2>4, <2>5
  <2>7. \A v \in Workspace : Open(v)' => Open(v) /\ Of(v)' = Of(v)
    BY <2>4, <2>5
  <2>8. Apart'
    BY <1>1, <2>7 DEF Orderly, Apart
  <2>9. Owned'
    BY <1>1, <1>6, <2>2, <2>7, OwnedKept DEF Orderly
  <2>10. JobFits'
    <3>1. job'.key = Once /\ job'.rev = r
      BY <2>1 DEF Jobs
    <3>2. r \notin History /\ r # id
      BY <1>1, <1>3, <1>6, ChainFacts DEF Open, r
    <3> QED
      BY <2>3, <3>1, <3>2 DEF JobFits
  <2>11. Orderly'
    BY <1>7, <2>6, <2>8, <2>9, <2>10 DEF Orderly
  <2> QED
    BY <1>1, <1>3, <2>11 DEF r
<1> QED
  BY <1>4, <1>11, <1>12 DEF r

\* A landing by the owner.
LEMMA LandOwnTidy ==
  ASSUME Tidy, NEW k \in Keys("land"), LandOwn(k)
  PROVE  Orderly'
<1>1. LandOne(Root, ws[Root].current, Once, NoJob)
  BY Unkeyed DEF LandOwn, Tidy
<1>2. Root \in Workspace /\ 0 \in DOMAIN revs
  BY Playing, ChainFacts DEF Tidy, IInv
<1>3. NoJob \in Jobs /\ NoJob.key = Once
  BY <1>2 DEF NoJob, Jobs
<1> QED
  BY <1>1, <1>2, <1>3, LandOneTidy

\* The next proposal of the pass.
LEMMA PassNextTidy ==
  ASSUME Tidy, PassNext
  PROVE  Orderly'
<1> DEFINE first == Least(job.todo)
           change == revs[first].change
           r == IF Cardinality(tip[change]) = 1 THEN Least(tip[change]) ELSE first
           rest == [job EXCEPT !.todo = @ \ {first}, !.tried = @ \cup {change}]
<1>1. Typed /\ Orderly /\ job \in Jobs /\ job.key = Once
  BY DEF Tidy, IInv, Typed, Orderly, JobFits
<1>2. rest \in Jobs /\ rest.key = Once
  <2>1. first \in DOMAIN revs /\ change \in RevId
    BY PassTries DEF Tidy, PassNext
  <2> HIDE DEF first, change
  <2> QED
    BY <1>1, <2>1 DEF Jobs
<1>3. CASE job' = Left(rest, {})
           /\ UNCHANGED <<revs, tip, proposed, trunk, ws, edits, ops, recorded, play>>
  <2> DEFINE op == OpOf(Root, {}, {}, {}, TRUE)
  <2>1. op.point = {}
    BY DEF OpOf
  <2> HIDE DEF rest, op
  <2>2. job'.key = Once /\ job'.left = {}
    BY <1>1, <1>2, <1>3, LeftFits
  <2> QED
    BY <1>1, <1>3, <2>1, <2>2, NothingMoves
<1>4. ASSUME NEW w \in Workspace, ws[w].current = r, LandOne(w, r, job.key, rest)
      PROVE  Orderly'
  <2>1. LandOne(w, ws[w].current, Once, rest)
    BY <1>1, <1>4
  <2> HIDE DEF rest, r
  <2> QED
    BY <1>2, <2>1, LandOneTidy
<1> QED
  BY <1>3, <1>4 DEF PassNext

\* A revert is of a change that nobody holds, and lands nothing that anybody does.
LEMMA RevertTidy ==
  ASSUME Tidy, NEW r \in DOMAIN revs, NEW k \in Keys("revert"), Revert(r, k)
  PROVE  Orderly'
<1> DEFINE id == NextId
           undone == NewRev(id, id, {}, <<trunk.head>>, WithoutChange(r))
           landing == [undone EXCEPT !.prev = {id}, !.parents = <<trunk.head, id>>,
                         !.reach = [q \in Landed \cup {id, id + 1} |->
                                      CASE q = id + 1 -> 0 [] q = id -> 1
                                        [] OTHER -> 1 + revs[trunk.head].reach[q]]]
           op == OpOf(Root, {}, {}, {}, TRUE)
<1>1. Typed /\ Orderly /\ StepOK
  BY RevertOK DEF Tidy, IInv
<1>2. /\ Idle
      /\ revs' = [q \in DOMAIN revs \cup {id, id + 1} |->
                    CASE q = id -> undone [] q = id + 1 -> landing [] OTHER -> revs[q]]
      /\ \E to : tip' = [tip EXCEPT ![id] = to]
      /\ trunk' = [head |-> id + 1, seq |-> trunk.seq + 1] \/ trunk' = trunk
      /\ UNCHANGED <<ws, ops, job>>
  BY DEF Revert
<1>3. Grows /\ Forward
  BY <1>1 DEF StepOK, Forward
<1>4. /\ Last \in Nat /\ id = Last + 1 /\ id \in Nat /\ DOMAIN revs = 0..Last
      /\ id \notin DOMAIN revs /\ id + 1 \notin DOMAIN revs
      /\ trunk.head \in DOMAIN revs /\ Landed \subseteq DOMAIN revs /\ trunk.head \in Landed
  <2>1. /\ Last \in Nat /\ id = Last + 1 /\ DOMAIN revs = 0..Last
        /\ trunk.head \in DOMAIN revs /\ Landed \subseteq DOMAIN revs /\ trunk.head \in Landed
    BY <1>1, Numbers, ChainFacts DEF Typed, Heads
  <2> QED
    BY <2>1
<1>5. /\ undone.prev = {} /\ undone.parents = <<trunk.head>>
      /\ DOMAIN undone.reach = Landed \cup {id}
  <2>1. undone.prev = {} /\ undone.parents = <<trunk.head>>
    BY DEF NewRev
  <2>2. {<<trunk.head>>[i] : i \in DOMAIN <<trunk.head>>} = {trunk.head}
    OBVIOUS
  <2>3. DOMAIN undone.reach
          = (UNION {DOMAIN revs[p].reach : p \in {<<trunk.head>>[i] : i \in DOMAIN <<trunk.head>>}})
              \cup {id}
    BY DEF NewRev, ReachOf
  <2>4. UNION {DOMAIN revs[p].reach : p \in {trunk.head}} = Landed
    BY DEF Landed
  <2> QED
    BY <2>1, <2>2, <2>3, <2>4
<1>6. /\ landing.prev = {id} /\ landing.parents = <<trunk.head, id>>
      /\ DOMAIN landing.reach = Landed \cup {id, id + 1}
  BY DEF NewRev
<1> HIDE DEF undone, landing, op
<1>7. /\ DOMAIN revs' = DOMAIN revs \cup {id, id + 1}
      /\ revs'[id] = undone /\ revs'[id + 1] = landing
      /\ \A q \in DOMAIN revs : revs'[q] = revs[q]
  BY <1>2, <1>4
<1>8. Landed' \subseteq Landed \cup {id, id + 1}
  <2>1. CASE trunk' = trunk
    BY <1>4, <1>7, <2>1 DEF Landed
  <2>2. CASE trunk' = [head |-> id + 1, seq |-> trunk.seq + 1]
    <3>1. trunk'.head = id + 1
      BY <2>2
    <3> QED
      BY <1>6, <1>7, <3>1 DEF Landed
  <2> QED
    BY <1>2, <2>1, <2>2
<1>9. \A w \in Workspace :
        /\ ws'[w].current = ws[w].current
        /\ Open(w) => ws[w].current \notin Landed' /\ tip'[Of(w)] = tip[Of(w)]
  <2> TAKE w \in Workspace
  <2>1. ws[w].current \in DOMAIN revs /\ Of(w) \in 0..ws[w].current /\ Of(w) \in RevId
    BY <1>1, <1>3, ForwardFacts
  <2>2. Of(w) # id
    BY <1>4, <2>1
  <2>3. tip'[Of(w)] = tip[Of(w)]
    BY <1>1, <1>2, <2>1, <2>2 DEF Typed, Tips
  <2> QED
    BY <1>2, <1>4, <1>8, <2>1, <2>3 DEF Open
<1>10. JobFits'
  BY <1>1, <1>2 DEF Orderly, JobFits, Idle
<1>11. Reaching'
  <2>1. \A q \in DOMAIN revs : DOMAIN revs[q].reach \subseteq DOMAIN revs
    <3> TAKE q \in DOMAIN revs
    <3>1. DOMAIN revs[q].reach \subseteq 0..q
      BY <1>1, <1>4 DEF Typed, Stored, Good
    <3> QED
      BY <1>4, <3>1
  <2>2. \A q \in Landed : DOMAIN revs[q].reach \subseteq Landed
    BY <1>1, ReachesLanded
  <2> SUFFICES ASSUME NEW n \in DOMAIN revs'
               PROVE  /\ \A p \in revs'[n].prev : p < n
                      /\ \A i \in DOMAIN revs'[n].parents :
                           revs'[n].parents[i] \in DOMAIN revs'[n].reach
                      /\ \A q \in DOMAIN revs'[n].reach :
                           DOMAIN revs'[q].reach \subseteq DOMAIN revs'[n].reach
    BY DEF Reaching
  <2>3. CASE n \in DOMAIN revs
    <3>1. revs'[n] = revs[n] /\ \A q \in DOMAIN revs[n].reach : revs'[q] = revs[q]
      BY <1>7, <2>1, <2>3
    <3> QED
      BY <1>1, <2>3, <3>1 DEF Orderly, Reaching
  <2>4. CASE n = id
    <3>1. \A i \in DOMAIN <<trunk.head>> : <<trunk.head>>[i] = trunk.head
      OBVIOUS
    <3>2. \A q \in Landed \cup {id} : DOMAIN revs'[q].reach \subseteq Landed \cup {id}
      BY <1>4, <1>5, <1>7, <2>2
    <3> QED
      BY <1>4, <1>5, <1>7, <2>4, <3>1, <3>2
  <2>5. CASE n = id + 1
    <3>1. \A i \in DOMAIN <<trunk.head, id>> : <<trunk.head, id>>[i] \in {trunk.head, id}
      OBVIOUS
    <3>2. \A q \in Landed \cup {id, id + 1} :
            DOMAIN revs'[q].reach \subseteq Landed \cup {id, id + 1}
      BY <1>4, <1>5, <1>6, <1>7, <2>2
    <3>3. id < id + 1
      BY <1>4
    <3> QED
      BY <1>4, <1>6, <1>7, <2>5, <3>1, <3>2, <3>3
  <2> QED
    BY <1>7, <2>3, <2>4, <2>5
<1>12. op.final /\ ops' \subseteq ops \cup {op}
  BY <1>2 DEF op, OpOf
<1> QED
  BY <1>1, <1>3, <1>9, <1>10, <1>11, <1>12, AllStay

\* Only a first version can be undone, by the agent whose workspace has it: that one
\* goes back to the landing the version was built on.
LEMMA UndoTidy ==
  ASSUME Tidy, NEW w \in play.spaces, NEW op \in ops, Undo(w, op)
  PROVE  Orderly'
<1> DEFINE inverse == OpOf(w, {<<pt[1], Least(pt[3]), {pt[2]}>> :
                                 pt \in {q \in op.point : q[3] # {}}},
                           op.drops, op.adds, \E pt \in op.point : pt[3] = {})
<1>1. /\ Typed /\ Orderly /\ IInv /\ w \in Workspace /\ OpOK(revs, op) /\ OpFits(op)
  BY Playing DEF Tidy, IInv, Typed, Points, Orderly, Owned
<1>2. /\ Idle /\ ~op.final /\ op.author = w
      /\ \A pt \in op.point :
           /\ tip[pt[1]] = {pt[2]}
           /\ \A from \in pt[3] : PointLegal(pt[1], revs[from].prev)
      /\ tip' = [c \in RevId |-> IF \E pt \in op.point : pt[1] = c
                                 THEN (CHOOSE pt \in op.point : pt[1] = c)[3] ELSE tip[c]]
      /\ ws' = [ws EXCEPT ![w] = FallBack(w, op.point)]
      /\ ops' = ops \cup {inverse}
      /\ UNCHANGED <<revs, trunk, job>>
  BY DEF Undo, Unmoved
<1>3. Grows /\ Forward /\ History' = History /\ Landed' = Landed
  BY <1>1, <1>2, NothingStored, ChainStays DEF Forward
<1>4. job'.key = Once /\ (job'.left # {} => job'.rev \notin History) /\ JobFits'
  BY <1>1, <1>2, <1>3 DEF Orderly, JobFits
<1>5. tip \in [RevId -> SUBSET DOMAIN revs] /\ ws \in Spaces
  BY <1>1 DEF Typed, Tips
<1>6. CASE op.point = {}
  <2>1. tip' = tip
    BY <1>2, <1>5, <1>6
  <2>2. \A v \in Workspace : ws'[v].current = ws[v].current
    <3>1. FallBack(w, op.point) = ws[w]
      BY <1>6 DEF FallBack
    <3> QED
      BY <1>1, <1>2, <1>5, <3>1 DEF Spaces
  <2>3. inverse.point = {}
    BY <1>6 DEF OpOf
  <2> HIDE DEF inverse
  <2> QED
    BY <1>1, <1>2, <1>4, <2>1, <2>2, <2>3, NothingMoves
<1>7. ASSUME NEW pt, op.point = {pt}
      PROVE  Orderly'
  <2> DEFINE c == pt[1]
  <2>1. /\ c \in RevId /\ pt[2] \in DOMAIN revs /\ revs[pt[2]].change = c
        /\ \A from \in pt[3] : from \in DOMAIN revs
        /\ tip[c] = {pt[2]} /\ \A from \in pt[3] : PointLegal(c, revs[from].prev)
        /\ \A from \in pt[3] : from < pt[2]
        /\ pt[3] = {} => \A v \in Workspace : Open(v) /\ Of(v) = c => op.author = v
    BY <1>1, <1>2, <1>7 DEF OpOK, OpFits
  <2>2. pt[3] = {}
    <3> SUFFICES ASSUME NEW from \in pt[3] PROVE FALSE
      OBVIOUS
    <3>1. revs[from].prev = {pt[2]}
      BY <2>1 DEF PointLegal
    <3>2. pt[2] < from
      BY <1>1, <2>1, <3>1 DEF Orderly, Reaching
    <3>3. from \in Nat /\ pt[2] \in Nat
      BY <1>1, <2>1, Known
    <3> QED
      BY <2>1, <3>2, <3>3
  <2>3. \A d \in RevId : d # c => tip'[d] = tip[d]
    <3>1. \A d \in RevId : (\E x \in op.point : x[1] = d) <=> d = c
      BY <1>7
    <3> QED
      BY <1>2, <3>1
  <2>4. inverse.final
    BY <1>7, <2>2 DEF OpOf
  <2> HIDE DEF inverse
  <2>5. \A v \in Workspace \ {w} : ws'[v].current = ws[v].current
    BY <1>1, <1>2, <1>5 DEF Spaces
  <2>6. ws'[w] = FallBack(w, op.point)
    BY <1>1, <1>2, <1>5 DEF Spaces
  <2>7. ASSUME NEW v \in Workspace, v # w \/ ws[w].current # pt[2]
        PROVE  Placed(v)' /\ Of(v)' = Of(v) /\ (Open(v)' <=> Open(v))
    <3>1. ws'[v].current = ws[v].current
      <4>1. CASE v # w
        BY <2>5, <4>1
      <4>2. CASE v = w
        <5>1. FallBack(w, op.point) = ws[w]
          BY <1>7, <2>7, <4>2 DEF FallBack
        <5> QED
          BY <2>6, <4>2, <5>1
      <4> QED
        BY <4>1, <4>2
    <3>2. Open(v) => Of(v) # c
      <4>1. CASE v # w
        BY <1>2, <2>1, <2>2, <4>1
      <4>2. CASE v = w
        <5>1. Open(v) => tip[Of(v)] = {ws[v].current}
          BY <1>1 DEF Orderly, Placed, AtTip
        <5> QED
          BY <2>1, <2>7, <4>2, <5>1
      <4> QED
        BY <4>1, <4>2
    <3>3. Of(v) \in RevId
      BY <1>1, <1>3, ForwardFacts
    <3>4. Open(v) => ws[v].current \notin Landed' /\ tip'[Of(v)] = tip[Of(v)]
      BY <1>3, <2>3, <3>2, <3>3 DEF Open
    <3>5. Placed(v)
      BY <1>1 DEF Orderly
    <3> QED
      BY <1>1, <1>3, <3>1, <3>4, <3>5, Stays
  <2>8. ASSUME ws[w].current = pt[2]
        PROVE  Placed(w)' /\ ~Open(w)'
    <3>1. Open(w)
      <4>1. pt[2] \notin History
        BY <1>1, <1>2, <1>7 DEF IInv, LandingsAreFinal
      <4> QED
        BY <1>1, <2>8, <4>1 DEF Orderly, Placed
    <3>2. revs[pt[2]].parents[1] \in History
      BY <1>1, <2>8, <3>1 DEF Orderly, Placed, Based
    <3>3. ws'[w].current = revs[pt[2]].parents[1]
      <4>1. (CHOOSE x \in op.point : x[2] = ws[w].current) = pt
        BY <1>7, <2>8
      <4>2. FallBack(w, op.point)
              = [current |-> revs[pt[2]].parents[1], files |-> revs[revs[pt[2]].parents[1]].files]
        BY <1>7, <2>2, <2>8, <4>1 DEF FallBack
      <4> QED
        BY <2>6, <4>2
    <3>4. ws'[w].current \in History' /\ ~Open(w)'
      BY <1>1, <1>3, <3>2, <3>3, ChainFacts DEF Open
    <3> QED
      BY <3>4 DEF Placed
  <2>9. \A v \in Workspace : Placed(v)'
    BY <2>7, <2>8
  <2>10. \A v \in Workspace : Open(v)' => Open(v) /\ Of(v)' = Of(v)
    BY <2>7, <2>8
  <2>11. Apart'
    BY <1>1, <2>10 DEF Orderly, Apart
  <2>12. ops' \subseteq ops \cup {inverse} /\ Owned
    BY <1>1, <1>2 DEF Orderly
  <2>13. Owned'
    BY <1>1, <1>3, <2>4, <2>10, <2>12, OwnedKept
  <2>14. Reaching'
    BY <1>1, <1>2 DEF Orderly, Reaching
  <2> QED
    BY <1>4, <2>9, <2>11, <2>13, <2>14 DEF Orderly
<1>8. op.point = {} \/ \E pt : op.point = {pt}
  <2>1. \A pt, qt \in op.point : pt = qt
    BY <1>1 DEF OpOK
  <2>2. ASSUME NEW pt \in op.point
        PROVE  op.point = {pt}
    BY <2>1
  <2> QED
    BY <2>2
<1> QED
  BY <1>6, <1>7, <1>8

\* At first every workspace is on the first revision, which is all there is of trunk.
LEMMA InitOrderly == Init => Orderly
<1> SUFFICES ASSUME Init PROVE Orderly
  OBVIOUS
<1>1. /\ trunk.head = 0 /\ ops = {} /\ job = NoJob
      /\ \A w \in Workspace : ws[w].current = 0
  BY DEF Init
<1>2. /\ DOMAIN revs = {0} /\ revs[0].prev = {} /\ revs[0].parents = <<>>
      /\ DOMAIN revs[0].reach = {0}
  <2> DEFINE first == [change |-> 0, prev |-> {}, parents |-> <<>>,
                       files |-> [p \in Path |-> {0}], reach |-> [q \in {0} |-> 0]]
  <2>1. revs = [r \in {0} |-> first]
    BY DEF Init
  <2>2. first.prev = {} /\ first.parents = <<>> /\ DOMAIN first.reach = {0}
    OBVIOUS
  <2> HIDE DEF first
  <2> QED
    BY <2>1, <2>2
<1>3. Typed
  BY InitIInv DEF IInv
<1>4. 0 \in History /\ 0 \in Landed
  BY <1>1, <1>3, HeadInHistory, ChainFacts
<1>5. \A w \in Workspace : Placed(w) /\ ~Open(w)
  BY <1>1, <1>4 DEF Placed, Open
<1>6. Owned /\ JobFits /\ Apart
  BY <1>1, <1>5 DEF Owned, JobFits, NoJob, Apart
<1>7. Reaching
  BY <1>2 DEF Reaching
<1> QED
  BY <1>5, <1>6, <1>7 DEF Orderly

\* Every verb keeps the workspaces where they belong.
LEMMA NextTidy ==
  ASSUME Tidy, Next
  PROVE  Orderly'
<1>1. CASE \E w \in play.spaces, p \in Path : Edit(w, p) \/ Try(w, p)
  BY <1>1, EditTidy, TryTidy
<1>2. CASE \E w \in play.spaces, k \in Keys("snapshot") : Snapshot(w, k)
  BY <1>2, SnapshotTidy
<1>3. CASE \E w \in play.spaces, k \in Keys("propose") : Propose(w, k)
  BY <1>3, ProposeTidy
<1>4. CASE \E k \in Keys("land") : LandOwn(k)
  BY <1>4, LandOwnTidy
<1>5. CASE \E k \in Keys("all") : StartPass(k)
  BY <1>5, StartPassTidy
<1>6. CASE PassNext
  BY <1>6, PassNextTidy
<1>7. CASE \E w \in play.spaces : Restack(w)
  BY <1>7, RestackTidy
<1>8. CASE \E r \in DOMAIN revs, k \in Keys("revert") : Revert(r, k)
  BY <1>8, RevertTidy
<1>9. CASE \E w \in play.spaces, r \in DOMAIN revs : Rewind(w, r)
  BY <1>9 DEF Rewind, Tidy, Undisturbed
<1>10. CASE \E w \in play.spaces, op \in ops : Undo(w, op)
  BY <1>10, UndoTidy
<1> QED
  BY <1>1, <1>2, <1>3, <1>4, <1>5, <1>6, <1>7, <1>8, <1>9, <1>10 DEF Next

\* What a behaviour calls does not change.
LEMMA PlayStays == Next => play' = play
<1>1. \A w, p : Edit(w, p) \/ Try(w, p) => play' = play
  BY DEF Edit, Try
<1>2. \A w, k : Snapshot(w, k) \/ Propose(w, k) => play' = play
  BY DEF Snapshot, Propose
<1>3. \A w, r, k, rest : LandOne(w, r, k, rest) => play' = play
  BY DEF LandOne
<1>4. \A k : LandOwn(k) \/ StartPass(k) => play' = play
  BY <1>3 DEF LandOwn, StartPass
<1>5. PassNext => play' = play
  BY <1>3 DEF PassNext
<1>6. \A w : Restack(w) => play' = play
  BY DEF Restack
<1>7. \A r, k : Revert(r, k) \/ Rewind(r, k) \/ Undo(r, k) => play' = play
  BY DEF Revert, Rewind, Undo
<1> QED
  BY <1>1, <1>2, <1>4, <1>5, <1>6, <1>7 DEF Next

\* No change of trunk stays proposed.
Unlanded == \A p \in proposed, l \in History : revs[p].change # revs[l].change

\* A step that proposes nothing, and withdraws what it lands.
LEMMA NothingProposed ==
  ASSUME Typed, Forward, Unlanded, proposed' \subseteq proposed,
         \A id : Lands(id) => \A p \in proposed' : revs[p].change # revs'[id].change
  PROVE  Unlanded'
<1>1. /\ \A r \in DOMAIN revs : revs'[r] = revs[r]
      /\ proposed \subseteq DOMAIN revs /\ History \subseteq DOMAIN revs
  BY ForwardFacts, ChainFacts DEF Typed
<1>2. \A p \in proposed', l \in History : revs'[p].change # revs'[l].change
  BY <1>1 DEF Unlanded
<1>3. CASE trunk' = trunk
  <2>1. History' = History
    BY <1>3, ChainStays DEF Forward
  <2> QED
    BY <1>2, <2>1 DEF Unlanded
<1>4. ASSUME NEW id, Lands(id)
      PROVE  Unlanded'
  <2>1. History' = History \cup {id}
    BY <1>4, ChainExtended DEF Forward
  <2>2. \A p \in proposed' : revs'[p].change # revs'[id].change
    BY <1>1, <1>4
  <2> QED
    BY <1>2, <2>1, <2>2 DEF Unlanded
<1> QED
  BY <1>3, <1>4 DEF Forward

\* A landing withdraws every proposal of the change.
LEMMA LandOneUnlanded ==
  ASSUME IInv, Forward, Unlanded, NEW w, NEW r \in DOMAIN revs, NEW rest,
         LandOne(w, r, Once, rest)
  PROVE  Unlanded'
<1>1. Typed /\ ~Repeated(Root, Once)
  BY DEF IInv, Repeated
<1>2. PICK files : Advance(r, files, Once, rest) \/ RecordConflict(w, r, files, Once, rest)
  BY DEF LandOne
<1>3. CASE RecordConflict(w, r, files, Once, rest)
  <2>1. proposed' = proposed /\ trunk' = trunk
    BY <1>3 DEF RecordConflict
  <2>2. \A id : ~Lands(id)
    <3> TAKE id
    <3>1. trunk.head \in DOMAIN revs
      BY <1>1 DEF Typed, Heads
    <3>2. Lands(id) => trunk'.head \notin DOMAIN revs
      BY DEF Lands
    <3> QED
      BY <2>1, <3>1, <3>2
  <2> QED
    BY <1>1, <2>1, <2>2, NothingProposed
<1>4. CASE Advance(r, files, Once, rest)
  <2>1. /\ proposed' = proposed \ SameChange(r)
        /\ trunk' = [head |-> NextId, seq |-> trunk.seq + 1]
        /\ revs' = Store(NextId, NewRev(NextId, revs[r].change, {r}, <<trunk.head, r>>, files))
    BY <1>1, <1>4 DEF Advance
  <2>2. revs'[NextId].change = revs[r].change
    BY <2>1 DEF Store, NewRev
  <2>3. \A id : Lands(id) => id = NextId
    BY <2>1 DEF Lands
  <2>4. \A p \in proposed' : revs[p].change # revs[r].change
    BY <2>1 DEF SameChange
  <2> QED
    BY <1>1, <2>1, <2>2, <2>3, <2>4, NothingProposed
<1> QED
  BY <1>2, <1>3, <1>4

\* Every verb but undo leaves no change of trunk proposed.
LEMMA NextUnlanded ==
  ASSUME Tidy, Unlanded, "undo" \notin play.verbs, Next
  PROVE  Unlanded'
<1>1. IInv /\ Typed /\ Orderly /\ Forward
  BY NextOK DEF Tidy, IInv, StepOK, Forward
<1>2. ASSUME trunk' = trunk, proposed' = proposed
      PROVE  Unlanded'
  <2>1. \A id : ~Lands(id)
    <3> TAKE id
    <3>1. trunk.head \in DOMAIN revs
      BY <1>1 DEF Typed, Heads
    <3>2. Lands(id) => trunk'.head \notin DOMAIN revs
      BY DEF Lands
    <3> QED
      BY <1>2, <3>1, <3>2
  <2> QED
    BY <1>1, <1>2, <2>1, NothingProposed
<1>3. CASE \E w \in play.spaces, p \in Path : Edit(w, p) \/ Try(w, p)
  BY <1>2, <1>3 DEF Edit, Try
<1>4. CASE \E w \in play.spaces, k \in Keys("snapshot") : Snapshot(w, k)
  BY <1>2, <1>4 DEF Snapshot
<1>5. ASSUME NEW w \in play.spaces, NEW k \in Keys("propose"), Propose(w, k)
      PROVE  Unlanded'
  <2> DEFINE r == ws[w].current
  <2>1. /\ proposed' = proposed \cup {r} /\ r \notin Landed /\ UNCHANGED <<revs, trunk>>
        /\ w \in Workspace
    BY <1>1, <1>5, Playing DEF Propose
  <2>2. History' = History /\ History \subseteq Landed
    BY <1>1, <2>1, ChainStays, ChainFacts DEF Forward
  <2>3. tip[revs[r].change] = {r}
    BY <1>1, <2>1 DEF Orderly, Placed, Open, AtTip, Of
  <2>4. \A l \in History : revs[l].change # revs[r].change
    <3> TAKE l \in History
    <3>1. tip[revs[l].change] = {l} /\ l # r
      BY <1>1, <2>1, <2>2 DEF IInv, HistoryTips
    <3> QED
      BY <2>3, <3>1
  <2> HIDE DEF r
  <2> QED
    BY <2>1, <2>2, <2>4 DEF Unlanded
<1>6. ASSUME NEW k \in Keys("land"), LandOwn(k)
      PROVE  Unlanded'
  <2>1. LandOne(Root, ws[Root].current, Once, NoJob)
    BY <1>6, Unkeyed DEF LandOwn, Tidy
  <2>2. ws[Root].current \in DOMAIN revs
    BY <1>1, Playing, Known
  <2> QED
    BY <1>1, <2>1, <2>2, LandOneUnlanded
<1>7. CASE \E k \in Keys("all") : StartPass(k)
  BY <1>2, <1>7 DEF StartPass
<1>8. CASE PassNext
  <2>1. job.key = Once
    BY <1>1 DEF Orderly, JobFits
  <2>2. \/ UNCHANGED <<trunk, proposed>>
        \/ \E w \in Workspace : \E rest : LandOne(w, ws[w].current, Once, rest)
    BY <1>8, <2>1 DEF PassNext
  <2>3. \A w \in Workspace : ws[w].current \in DOMAIN revs
    BY <1>1, Known
  <2> QED
    BY <1>1, <1>2, <2>2, <2>3, LandOneUnlanded
<1>9. CASE \E w \in play.spaces : Restack(w)
  BY <1>2, <1>9, RestackTidy
<1>10. ASSUME NEW r \in DOMAIN revs, NEW k \in Keys("revert"), Revert(r, k)
       PROVE  Unlanded'
  <2>1. proposed' = proposed /\ (trunk' # trunk => k = Once)
    BY <1>10 DEF Revert
  <2>2. CASE trunk' = trunk
    BY <1>2, <2>1, <2>2
  <2>3. CASE k = Once
    <3>1. Lands(NextId + 1)
      BY <1>1, <1>10, <2>3, RevertOK
    <3>2. revs'[NextId + 1].change = NextId
      BY <1>1, <1>10, <2>3, RevertOK
    <3>3. \A id : Lands(id) => id = NextId + 1
      <4>1. trunk'.head = NextId + 1
        BY <3>1 DEF Lands
      <4>2. \A id : Lands(id) => trunk'.head = id
        BY DEF Lands
      <4> QED
        BY <4>1, <4>2
    <3>4. \A p \in proposed : revs[p].change # NextId
      <4> TAKE p \in proposed
      <4>1. p \in DOMAIN revs
        BY <1>1 DEF Typed
      <4>2. p < NextId /\ p \in Nat /\ revs[p].change \in 0..p /\ NextId \in Nat
        BY <1>1, <4>1, Known, Numbers
      <4> QED
        BY <4>2
    <3> QED
      BY <1>1, <2>1, <3>2, <3>3, <3>4, NothingProposed
  <2> QED
    BY <2>1, <2>2, <2>3
<1>11. CASE \E w \in play.spaces, r \in DOMAIN revs : Rewind(w, r)
  BY <1>2, <1>11 DEF Rewind
<1>12. CASE \E w \in play.spaces, op \in ops : Undo(w, op)
  BY <1>12 DEF Undo
<1> QED
  BY <1>3, <1>4, <1>5, <1>6, <1>7, <1>8, <1>9, <1>10, <1>11, <1>12 DEF Next

\* Where workspaces and proposals are, in a behaviour that rewinds and repeats nothing.
Held ==
  /\ IInv
  /\ Undisturbed => Orderly /\ ("undo" \notin play.verbs => Unlanded)

\* The invariant holds at first.
LEMMA InitHeld == Init => Held
<1> SUFFICES ASSUME Init PROVE Held
  OBVIOUS
<1>1. IInv /\ Orderly
  BY InitIInv, InitOrderly
<1>2. Unlanded
  BY DEF Init, Unlanded
<1> QED
  BY <1>1, <1>2 DEF Held

\* The invariant is inductive.
LEMMA StepHeld == Held /\ [Next]_vars => Held'
<1>1. ASSUME Held, Next
      PROVE  Held'
  <2>1. IInv' /\ play' = play
    BY <1>1, StepIInv, PlayStays DEF Held
  <2>2. Undisturbed' <=> Undisturbed
    BY <2>1 DEF Undisturbed
  <2>3. Undisturbed => Orderly'
    BY <1>1, NextTidy DEF Held, Tidy
  <2>4. Undisturbed /\ "undo" \notin play.verbs => Unlanded'
    BY <1>1, NextUnlanded DEF Held, Tidy
  <2> QED
    BY <2>1, <2>2, <2>3, <2>4 DEF Held
<1>2. ASSUME Held, UNCHANGED vars
      PROVE  Held'
  <2>1. IInv'
    BY <1>2, StepIInv DEF Held
  <2>2. /\ revs' = revs /\ tip' = tip /\ proposed' = proposed /\ trunk' = trunk /\ ws' = ws
        /\ ops' = ops /\ job' = job /\ play' = play
    BY <1>2 DEF vars
  <2>3. History' = History /\ Landed' = Landed
    <3>1. Typed /\ Grows
      BY <1>2, <2>2, NothingStored DEF Held, IInv
    <3> QED
      BY <2>2, <3>1, ChainStays
  <2>4. Undisturbed' <=> Undisturbed
    BY <2>2 DEF Undisturbed
  <2>5. Orderly => Orderly'
    <3> SUFFICES ASSUME Orderly PROVE Orderly'
      OBVIOUS
    <3>1. Typed
      BY <1>2 DEF Held, IInv
    <3>2. PICK op : op = OpOf(Root, {}, {}, {}, TRUE)
      OBVIOUS
    <3>3. op.point = {}
      BY <3>2 DEF OpOf
    <3>4. job.key = Once /\ (job.left # {} => job.rev \notin History)
      BY DEF Orderly, JobFits
    <3> QED
      BY <2>2, <3>1, <3>3, <3>4, NothingMoves
  <2>6. Unlanded => Unlanded'
    BY <2>2, <2>3 DEF Unlanded
  <2>7. play' = play
    BY <2>2
  <2>8. Undisturbed => Orderly /\ ("undo" \notin play.verbs => Unlanded)
    BY <1>2 DEF Held
  <2> QED
    BY <2>1, <2>4, <2>5, <2>6, <2>7, <2>8 DEF Held
<1> QED
  BY <1>1, <1>2

\* A workspace is never stranded (land_one moves every holder of what it lands, undo
\* takes the workspace back with the change): an agent that does not rewind, and whose
\* snapshots and landings are not repeated under a key, is on a landed revision or on the
\* version the view has of its change, and can snapshot.
THEOREM WorkspacesCanSnapshot == Spec => []WorkspaceIsAtTip
<1>1. Held => WorkspaceIsAtTip
  BY DEF Held, Orderly, Placed, Open, AtTip, Of, WorkspaceIsAtTip
<1> QED
  BY <1>1, InitHeld, StepHeld, PTL DEF Spec

\* A landing leaves no proposal of its change behind (land_one), and none is made of a
\* change that landed: for every number of versions, conflicts and passes in between.
THEOREM NothingLandedStaysProposed == Spec => []ProposalsAreOpen
<1>1. Held => ProposalsAreOpen
  BY DEF Held, Unlanded, ProposalsAreOpen
<1> QED
  BY <1>1, InitHeld, StepHeld, PTL DEF Spec
=============================================================================
