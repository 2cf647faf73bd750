----------------------------- MODULE OpLogProofs -----------------------------
(***************************************************************************)
(* Theorems about OpLog, for any number of replicas, principals, keys and  *)
(* ops.  The heads a replica keeps, what it finds when it reopens and the  *)
(* uniqueness of an idempotency key hold only together: that an op is not  *)
(* accepted twice follows from the index being exact, which follows from   *)
(* the heads reaching every op, which follows from the ops of a replica    *)
(* being closed under ancestors.  IInv is that inductive invariant; what   *)
(* the merged view computes plays no part in it.  It does in RInv, from    *)
(* which revocations are shown to stay.                                    *)
(***************************************************************************)
EXTENDS OpLog, Groundwork, FiniteSetTheorems, TLAPS

\* The ancestors an op carries are what a walk over parents finds.
Lineage ==
  \A o \in DOMAIN ops : ops[o].ancestors = {o} \cup Reach(ops[o].parents)

\* The author's own replica knows every op of the author, and every op but
\* init has a key.
AuthorKnows ==
  \A o \in DOMAIN ops \ {0} :
    /\ o \in known[Host[ops[o].author]]
    /\ ops[o].key # {}

\* Init has no key, so no other op shares it.
InitKey == ops[0].key = {}

IInv ==
  /\ TypeOK
  /\ Lineage
  /\ HeadsAreFrontier
  /\ ReopenRestores
  /\ AuthorKnows
  /\ OneOpPerKey
  /\ InitKey

\* What Write, Undo and Deliver have in common: op is the op `id` names, new
\* or not, and the other ops are as they were.
Names(id, op) ==
  /\ DOMAIN ops' = DOMAIN ops \cup {id}
  /\ ops'[id] = op
  /\ \A o \in DOMAIN ops : ops'[o] = ops[o]

-----------------------------------------------------------------------------
\* An op is never accepted twice by one replica: its author and key are in
\* the index from the first time on.
LEMMA AcceptedIsNew ==
  ASSUME IInv, NEW r \in Replica, NEW id \in OpId, NEW op,
         Accept(r, id, op), Names(id, op)
  PROVE  id \notin known[r]
<1> SUFFICES ASSUME id \in known[r] PROVE FALSE
  OBVIOUS
<1>1. id \in DOMAIN ops
  BY DEF IInv, TypeOK
<1>2. ops[id] = op
  BY <1>1 DEF Names
<1>3. id \in known[r] \ {0}
  BY OpLogAssumption DEF OpId
<1>4. <<ops[id].author, ops[id].key>> \in idem[r]
  BY <1>3 DEF IInv, ReopenRestores
<1> QED
  BY <1>2, <1>4 DEF Accept, LookupIdem

\* Acceptance keeps a replica's ops closed under ancestors, its heads their
\* frontier, and all of it reachable from the heads.
LEMMA AcceptKeeps ==
  ASSUME IInv, NEW r \in Replica, NEW id \in OpId, NEW op,
         Accept(r, id, op), Names(id, op),
         op.ancestors = {id} \cup Reach(op.parents),
         op.author \in Principal, op.key \in SUBSET Key
  PROVE  TypeOK' /\ Lineage' /\ HeadsAreFrontier' /\ ReopenRestores'
<1> DEFINE old == known[r]
           gone == op.parents
<1>1. /\ known \in [Replica -> SUBSET DOMAIN ops]
      /\ heads \in [Replica -> SUBSET DOMAIN ops]
      /\ idem \in [Replica -> SUBSET (Principal \X SUBSET Key)]
  BY DEF IInv, TypeOK
<1>2. /\ known' = [known EXCEPT ![r] = old \cup {id}]
      /\ heads' = [heads EXCEPT ![r] = (heads[r] \ gone) \cup {id}]
      /\ idem' = [idem EXCEPT ![r] = idem[r] \cup {<<op.author, op.key>>}]
      /\ gone \subseteq old
  BY DEF Accept, NextHeads
<1>3. id \notin old
  BY AcceptedIsNew
<1>4. DOMAIN ops \subseteq DOMAIN ops' /\ id \in DOMAIN ops' /\ old \subseteq DOMAIN ops
  BY <1>1 DEF Names
<1>5. \A o \in old : ops'[o] = ops[o] /\ ops[o].ancestors \subseteq old
  BY <1>4 DEF Names, IInv, TypeOK
<1>6. Reach(gone) \subseteq old
  BY <1>2, <1>5 DEF Reach
<1>7. ops'[id].ancestors \subseteq old \cup {id} /\ ops'[id].parents = gone
  BY <1>6 DEF Names
<1>8. TypeOK'
  <2>1. 0 \in DOMAIN ops' /\ DOMAIN ops' \subseteq {0} \cup OpId
    BY DEF Names, IInv, TypeOK
  <2>2. \A o \in DOMAIN ops' :
          /\ ops'[o].author \in Principal
          /\ ops'[o].key \in SUBSET Key
          /\ ops'[o].parents \subseteq DOMAIN ops'
          /\ ops'[o].ancestors \subseteq DOMAIN ops'
    <3> SUFFICES ASSUME NEW o \in DOMAIN ops'
                 PROVE  /\ ops'[o].author \in Principal
                        /\ ops'[o].key \in SUBSET Key
                        /\ ops'[o].parents \subseteq DOMAIN ops'
                        /\ ops'[o].ancestors \subseteq DOMAIN ops'
      OBVIOUS
    <3>1. CASE o = id
      BY <3>1, <1>2, <1>4, <1>7 DEF Names
    <3>2. CASE o \in DOMAIN ops
      <4>1. ops'[o] = ops[o]
        BY <3>2 DEF Names
      <4> QED
        BY <4>1, <3>2, <1>4 DEF IInv, TypeOK
    <3> QED
      BY <3>1, <3>2 DEF Names
  <2>3. /\ known' \in [Replica -> SUBSET DOMAIN ops']
        /\ heads' \in [Replica -> SUBSET DOMAIN ops']
        /\ idem' \in [Replica -> SUBSET (Principal \X SUBSET Key)]
    BY <1>1, <1>2, <1>4
  <2>4. ASSUME NEW q \in Replica, NEW o \in known'[q]
        PROVE  ops'[o].ancestors \subseteq known'[q]
    <3>1. CASE q = r /\ o = id
      BY <3>1, <1>1, <1>2, <1>7
    <3>2. CASE q = r /\ o # id
      BY <3>2, <1>1, <1>2, <1>5
    <3>3. CASE q # r
      <4>1. o \in known[q] /\ known'[q] = known[q] /\ o \in DOMAIN ops
        BY <3>3, <1>1, <1>2
      <4> QED
        BY <4>1 DEF Names, IInv, TypeOK
    <3> QED
      BY <3>1, <3>2, <3>3
  <2> QED
    BY <2>1, <2>2, <2>3, <2>4 DEF TypeOK
<1>9. Lineage'
  <2> SUFFICES ASSUME NEW o \in DOMAIN ops'
               PROVE  ops'[o].ancestors
                        = {o} \cup UNION {ops'[p].ancestors : p \in ops'[o].parents}
    BY DEF Lineage, Reach
  <2>1. CASE o \in DOMAIN ops
    <3>1. ops'[o] = ops[o] /\ ops[o].parents \subseteq DOMAIN ops
      BY <2>1 DEF Names, IInv, TypeOK
    <3>2. \A p \in ops[o].parents : ops'[p] = ops[p]
      BY <3>1 DEF Names
    <3>3. ops[o].ancestors = {o} \cup UNION {ops[p].ancestors : p \in ops[o].parents}
      BY <2>1 DEF IInv, Lineage, Reach
    <3> QED
      BY <3>1, <3>2, <3>3
  <2>2. CASE o = id
    <3>1. \A p \in gone : ops'[p] = ops[p]
      BY <1>2, <1>5
    <3> QED
      BY <2>2, <3>1 DEF Names, Reach
  <2> QED
    BY <2>1, <2>2 DEF Names
<1>10. HeadsAreFrontier'
  <2> SUFFICES ASSUME NEW q \in Replica
               PROVE  heads'[q] = {o \in known'[q] : \A c \in known'[q] : o \notin ops'[c].parents}
    BY DEF HeadsAreFrontier
  <2>1. heads[q] = {o \in known[q] : \A c \in known[q] : o \notin ops[c].parents}
    BY DEF IInv, HeadsAreFrontier
  <2>2. CASE q # r
    <3>1. heads'[q] = heads[q] /\ known'[q] = known[q] /\ known[q] \subseteq DOMAIN ops
      BY <2>2, <1>1, <1>2
    <3> QED
      BY <3>1, <2>1 DEF Names
  <2>3. CASE q = r
    <3>1. heads'[q] = (heads[r] \ gone) \cup {id} /\ known'[q] = old \cup {id}
      BY <2>3, <1>1, <1>2
    <3>2. \A c \in old : ops[c].parents \subseteq old
      <4> TAKE c \in old
      <4>1. ops[c].parents \subseteq DOMAIN ops /\ c \in DOMAIN ops
        BY <1>4 DEF IInv, TypeOK
      <4>2. \A p \in ops[c].parents : p \in ops[p].ancestors
        BY <4>1 DEF IInv, Lineage
      <4>3. ops[c].parents \subseteq ops[c].ancestors
        BY <4>1, <4>2 DEF IInv, Lineage, Reach
      <4> QED
        BY <4>3, <1>5
    <3>3. \A o \in old : (\A c \in old \cup {id} : o \notin ops'[c].parents)
                           <=> (\A c \in old : o \notin ops[c].parents) /\ o \notin gone
      BY <1>5, <1>7
    <3>4. \A c \in old \cup {id} : id \notin ops'[c].parents
      BY <3>2, <1>2, <1>3, <1>5, <1>7
    <3> QED
      BY <3>1, <3>3, <3>4, <2>1, <2>3
  <2> QED
    BY <2>2, <2>3
<1>11. ReopenRestores'
  <2> SUFFICES ASSUME NEW q \in Replica
               PROVE  /\ Reach(heads[q])' = known'[q]
                      /\ idem'[q] = {<<ops'[o].author, ops'[o].key>> : o \in known'[q] \ {0}}
    BY DEF ReopenRestores
  <2>1. /\ Reach(heads[q]) = known[q]
        /\ idem[q] = {<<ops[o].author, ops[o].key>> : o \in known[q] \ {0}}
    BY DEF IInv, ReopenRestores
  <2>2. CASE q # r
    <3>1. /\ heads'[q] = heads[q] /\ known'[q] = known[q] /\ idem'[q] = idem[q]
          /\ known[q] \subseteq DOMAIN ops /\ heads[q] \subseteq DOMAIN ops
      BY <2>2, <1>1, <1>2
    <3>2. \A o \in heads[q] \cup known[q] : ops'[o] = ops[o]
      BY <3>1 DEF Names
    <3> QED
      BY <3>1, <3>2, <2>1 DEF Reach
  <2>3. CASE q = r
    <3>1. heads'[q] = (heads[r] \ gone) \cup {id} /\ known'[q] = old \cup {id}
          /\ idem'[q] = idem[r] \cup {<<op.author, op.key>>}
      BY <2>3, <1>1, <1>2
    <3>2. heads[r] \subseteq old
      BY DEF IInv, HeadsAreFrontier
    <3>3. Reach(heads[q])' \subseteq old \cup {id}
      BY <3>1, <3>2, <1>5, <1>7 DEF Reach
    <3>4. id \in ops'[id].ancestors /\ Reach(gone) \subseteq ops'[id].ancestors
      BY DEF Names
    <3>5. ASSUME NEW a \in old PROVE a \in Reach(heads[q])'
      <4>1. PICK h \in heads[r] : a \in ops[h].ancestors
        BY <2>1, <2>3 DEF Reach
      <4>2. CASE h \in gone
        BY <4>1, <4>2, <3>1, <3>4 DEF Reach
      <4>3. CASE h \notin gone
        BY <4>1, <4>3, <3>1, <3>2, <1>5 DEF Reach
      <4> QED
        BY <4>2, <4>3
    <3>6. id \in Reach(heads[q])'
      BY <3>1, <3>4 DEF Reach
    <3>7. Reach(heads[q])' = known'[q]
      BY <3>1, <3>3, <3>5, <3>6
    <3>8. id # 0
      BY OpLogAssumption DEF OpId
    <3>9. idem'[q] = {<<ops'[o].author, ops'[o].key>> : o \in known'[q] \ {0}}
      BY <3>1, <3>8, <2>1, <2>3, <1>5 DEF Names
    <3> QED
      BY <3>7, <3>9
  <2> QED
    BY <2>2, <2>3
<1> QED
  BY <1>8, <1>9, <1>10, <1>11

\* Acceptance at the author's own replica, of a new op or of one already
\* built, keeps IInv.
LEMMA AcceptPreserves ==
  ASSUME IInv, NEW r \in Replica, NEW id \in OpId, NEW op,
         Accept(r, id, op), Names(id, op),
         op.ancestors = {id} \cup Reach(op.parents),
         op.author \in Principal, op.key \in SUBSET Key, op.key # {},
         id \in DOMAIN ops \/ r = Host[op.author]
  PROVE  IInv'
<1>1. TypeOK' /\ Lineage' /\ HeadsAreFrontier' /\ ReopenRestores'
  BY AcceptKeeps
<1>2. known \in [Replica -> SUBSET DOMAIN ops]
  BY DEF IInv, TypeOK
<1>3. known' = [known EXCEPT ![r] = @ \cup {id}]
  BY DEF Accept
<1>4. \A q \in Replica : known[q] \subseteq known'[q]
  BY <1>2, <1>3
<1>5. \A o \in DOMAIN ops : ops'[o] = ops[o] /\ ops[o].author \in Principal
  BY DEF Names, IInv, TypeOK
<1>6. \A p \in Principal : Host[p] \in Replica
  BY OpLogAssumption
<1>7. AuthorKnows'
  <2> SUFFICES ASSUME NEW o \in DOMAIN ops' \ {0}
               PROVE  o \in known'[Host[ops'[o].author]] /\ ops'[o].key # {}
    BY DEF AuthorKnows
  <2>1. CASE o \in DOMAIN ops
    BY <2>1, <1>4, <1>5, <1>6 DEF IInv, AuthorKnows
  <2>2. CASE o \notin DOMAIN ops
    <3>1. o = id /\ r = Host[op.author] /\ ops'[o] = op
      BY <2>2 DEF Names
    <3> QED
      BY <3>1, <1>2, <1>3
  <2> QED
    BY <2>1, <2>2
<1>8. ASSUME id \notin DOMAIN ops, NEW a \in DOMAIN ops
      PROVE  ~(ops[a].author = op.author /\ ops[a].key = op.key)
  <2> SUFFICES ASSUME ops[a].author = op.author, ops[a].key = op.key PROVE FALSE
    OBVIOUS
  <2>1. a # 0 => <<op.author, op.key>> \in idem[r]
    BY <1>8 DEF IInv, AuthorKnows, ReopenRestores
  <2>2. a # 0 => FALSE
    BY <2>1 DEF Accept, LookupIdem
  <2> QED
    BY <2>2 DEF IInv, InitKey
<1>9. OneOpPerKey'
  <2> SUFFICES ASSUME NEW a \in DOMAIN ops', NEW b \in DOMAIN ops',
                      ops'[a].author = ops'[b].author, ops'[a].key = ops'[b].key
               PROVE  a = b
    BY DEF OneOpPerKey
  <2>1. CASE a \in DOMAIN ops /\ b \in DOMAIN ops
    BY <2>1, <1>5 DEF IInv, OneOpPerKey
  <2>2. CASE a \in DOMAIN ops /\ b \notin DOMAIN ops
    <3>1. b = id /\ ops'[b] = op /\ ops'[a] = ops[a]
      BY <2>2, <1>5 DEF Names
    <3> QED
      BY <2>2, <3>1, <1>8
  <2>3. CASE a \notin DOMAIN ops /\ b \in DOMAIN ops
    <3>1. a = id /\ ops'[a] = op /\ ops'[b] = ops[b]
      BY <2>3, <1>5 DEF Names
    <3> QED
      BY <2>3, <3>1, <1>8
  <2>4. CASE a \notin DOMAIN ops /\ b \notin DOMAIN ops
    BY <2>4 DEF Names
  <2> QED
    BY <2>1, <2>2, <2>3, <2>4
<1>10. InitKey'
  BY OpLogAssumption DEF Names, IInv, InitKey, TypeOK, OpId
<1> QED
  BY <1>1, <1>7, <1>9, <1>10 DEF IInv

-----------------------------------------------------------------------------
\* Building an op on the heads of the author's replica and accepting it there
\* (Repo::commit_op) keeps the invariant.
LEMMA CommitPreserves ==
  ASSUME IInv, NEW p \in Principal, NEW k \in Key, NEW id \in OpId \ DOMAIN ops,
         NEW e, NEW verb, Commit(p, k, id, e, verb)
  PROVE  IInv'
<1>1. PICK op : op = BuildOp(Host[p], p, k, id, e, verb)
  OBVIOUS
<1>2. Host[p] \in Replica
  BY OpLogAssumption
<1>3. Accept(Host[p], id, op)
  BY <1>1 DEF Commit
<1>4. ops' = [o \in DOMAIN ops \cup {id} |-> IF o = id THEN op ELSE ops[o]]
  BY <1>1 DEF Commit
<1>5. Names(id, op)
  BY <1>4 DEF Names
<1>6. /\ op.author = p /\ op.key = {k}
      /\ op.ancestors = {id} \cup Reach(op.parents)
  BY <1>1 DEF BuildOp
<1> QED
  BY <1>2, <1>3, <1>5, <1>6, AcceptPreserves

\* Init establishes the invariant.
LEMMA InitIInv == Init => IInv
<1> SUFFICES ASSUME Init PROVE IInv
  OBVIOUS
<1>1. /\ ops = [o \in {0} |-> InitOp] /\ DOMAIN ops = {0} /\ ops[0] = InitOp
      /\ known = [r \in Replica |-> {0}]
      /\ heads = [r \in Replica |-> {0}]
      /\ idem = [r \in Replica |-> {}]
  BY DEF Init
<1>2. /\ InitOp.author = Owner /\ InitOp.key = {}
      /\ InitOp.parents = {} /\ InitOp.ancestors = {0}
  BY DEF InitOp
<1>3. TypeOK
  BY <1>1, <1>2, OpLogAssumption DEF TypeOK
<1>4. Lineage /\ HeadsAreFrontier /\ ReopenRestores
  BY <1>1, <1>2 DEF Lineage, HeadsAreFrontier, ReopenRestores, Reach
<1>5. AuthorKnows /\ OneOpPerKey /\ InitKey
  BY <1>1, <1>2 DEF AuthorKnows, OneOpPerKey, InitKey
<1> QED
  BY <1>3, <1>4, <1>5 DEF IInv

\* Every step keeps the invariant; a replica that reopens finds what it had.
LEMMA StepIInv == IInv /\ [Next]_vars => IInv'
<1> SUFFICES ASSUME IInv, [Next]_vars PROVE IInv'
  OBVIOUS
<1>1. ASSUME NEW p \in Principal, NEW k \in Key, NEW id \in OpId, Write(p, k, id)
      PROVE  IInv'
  BY <1>1, CommitPreserves DEF Write
<1>2. ASSUME NEW p \in Principal, NEW k \in Key, NEW id \in OpId, NEW t \in DOMAIN ops,
             Undo(p, k, id, t)
      PROVE  IInv'
  BY <1>2, CommitPreserves DEF Undo
<1>3. ASSUME NEW r \in Replica, NEW id \in DOMAIN ops \ {0}, Deliver(r, id)
      PROVE  IInv'
  <2>1. PICK op : op = ops[id]
    OBVIOUS
  <2>2. id \in OpId
    BY <1>3 DEF IInv, TypeOK
  <2>3. Accept(r, id, op) /\ Names(id, op)
    BY <1>3, <2>1 DEF Deliver, Names
  <2>4. op.ancestors = {id} \cup Reach(op.parents)
    BY <2>1, <1>3 DEF IInv, Lineage
  <2>5. op.author \in Principal /\ op.key \in SUBSET Key /\ op.key # {}
    BY <2>1, <1>3 DEF IInv, TypeOK, AuthorKnows
  <2> QED
    BY <2>2, <2>3, <2>4, <2>5, <1>3, AcceptPreserves
<1>4. ASSUME NEW r \in Replica, Reopen(r)
      PROVE  IInv'
  <2>1. known' = known
    BY <1>4 DEF Reopen, IInv, TypeOK, ReopenRestores
  <2>2. idem' = idem
    BY <1>4 DEF Reopen, IInv, TypeOK, ReopenRestores
  <2>3. ops' = ops /\ heads' = heads
    BY <1>4 DEF Reopen
  <2> QED
    BY <2>1, <2>2, <2>3 DEF IInv, TypeOK, Lineage, HeadsAreFrontier, ReopenRestores,
                            AuthorKnows, OneOpPerKey, InitKey, Reach
<1>5. CASE UNCHANGED vars
  BY <1>5 DEF vars, IInv, TypeOK, Lineage, HeadsAreFrontier, ReopenRestores,
              AuthorKnows, OneOpPerKey, InitKey, Reach
<1> QED
  BY <1>1, <1>2, <1>3, <1>4, <1>5 DEF Next

\* The strengthened invariant holds in every reachable state: what accept and
\* open rely on and no single check of theirs states.
THEOREM Inductive == Spec => []IInv
BY InitIInv, StepIInv, PTL DEF Spec

-----------------------------------------------------------------------------
\* The log is well formed: no replica holds an op without its ancestors.
THEOREM TypeCorrect == Spec => []TypeOK
<1>1. IInv => TypeOK
  BY DEF IInv
<1> QED
  BY <1>1, Inductive, PTL

\* OpLog::accept's update of the heads computes the ops without children.
THEOREM HeadsExact == Spec => []HeadsAreFrontier
<1>1. IInv => HeadsAreFrontier
  BY DEF IInv
<1> QED
  BY <1>1, Inductive, PTL

\* OpLog::open loses neither an op nor an idempotency key.
THEOREM RestartLosesNothing == Spec => []ReopenRestores
<1>1. IInv => ReopenRestores
  BY DEF IInv
<1> QED
  BY <1>1, Inductive, PTL

\* A retried call commits once, across restarts and redeliveries.
THEOREM AtMostOnce == Spec => []OneOpPerKey
<1>1. IInv => OneOpPerKey
  BY DEF IInv
<1> QED
  BY <1>1, Inductive, PTL

\* Replicas with the same ops have the same heads, hence the same view,
\* whatever the merge of views computes.
THEOREM Convergence == Spec => []Converged
<1>1. IInv => Converged
  <2> SUFFICES ASSUME IInv, NEW r \in Replica, NEW q \in Replica, known[r] = known[q]
               PROVE  CurrentView(r) = CurrentView(q)
    BY DEF Converged
  <2>1. heads[r] = heads[q]
    BY DEF IInv, HeadsAreFrontier
  <2> QED
    BY <2>1 DEF CurrentView
<1> QED
  BY <1>1, Inductive, PTL

-----------------------------------------------------------------------------
(***************************************************************************)
(* Revocation.  What a view revokes is the union of what the ops below it  *)
(* revoke: ops carry the revocations of their ancestors, and the fold of   *)
(* the heads joins theirs, because the latest common ancestor it merges    *)
(* over revokes nothing that a head does not.                              *)
(***************************************************************************)
\* One step of the fold of heads.
FoldStep(S, n, before) ==
  LET below == {m \in S : m < n} IN
  CASE n \notin S -> before
    [] n \in S /\ below = {} -> ops[n].view
    [] OTHER -> Merge(ops[LCA(below \cup {n})].view, before, ops[n].view)

IsFold(S, f) ==
  f = [n \in 0..MaxOp |-> FoldStep(S, n, IF n = 0 THEN EmptyView ELSE f[n - 1])]

\* The recursion of merged_view is well founded.
LEMMA FoldDefined ==
  ASSUME NEW S
  PROVE  \E f : IsFold(S, f) /\ MergedView(S) = f[MaxOp]
<1> DEFINE Upto(g, k) ==
              g = [n \in 0..k |-> FoldStep(S, n, IF n = 0 THEN EmptyView ELSE g[n - 1])]
            T == {k \in 0..MaxOp : ~ \E g : Upto(g, k)}
<1>0. MaxOp \in Nat
  BY OpLogAssumption
<1>1. T = {}
  <2> SUFFICES ASSUME T # {} PROVE FALSE
    OBVIOUS
  <2>1. PICK k \in T : \A j \in T : k <= j
    <3>1. T \in SUBSET Nat
      BY <1>0
    <3> HIDE DEF T
    <3> QED
      BY <3>1, LeastNatural
  <2>2. k \in 0..MaxOp /\ ~ \E g : Upto(g, k)
    BY <2>1
  <2>3. CASE k = 0
    <3>1. Upto([n \in 0..0 |-> FoldStep(S, 0, EmptyView)], 0)
      OBVIOUS
    <3> QED
      BY <2>2, <2>3, <3>1
  <2>4. CASE k # 0
    <3>1. k - 1 \in 0..MaxOp /\ k - 1 \notin T /\ k \in Nat \ {0}
      BY <1>0, <2>1, <2>2, <2>4
    <3>2. PICK g : Upto(g, k - 1)
      BY <3>1
    <3> DEFINE h == [n \in 0..k |-> IF n = k THEN FoldStep(S, k, g[k - 1]) ELSE g[n]]
    <3>3. \A n \in 0..k : h[n] = FoldStep(S, n, IF n = 0 THEN EmptyView ELSE h[n - 1])
      <4> SUFFICES ASSUME NEW n \in 0..k
                    PROVE  h[n] = FoldStep(S, n, IF n = 0 THEN EmptyView ELSE h[n - 1])
        OBVIOUS
      <4>1. CASE n = k
        <5>1. n - 1 \in 0..k /\ n - 1 # k /\ n # 0
          BY <3>1, <4>1
        <5>2. h[n - 1] = g[k - 1]
          BY <4>1, <5>1
        <5> QED
          BY <4>1, <5>1, <5>2
      <4>2. CASE n # k
        <5>1. n \in 0..(k - 1) /\ (n # 0 => n - 1 \in 0..k /\ n - 1 # k)
          BY <3>1, <4>2
        <5>2. h[n] = g[n] /\ (n # 0 => h[n - 1] = g[n - 1])
          BY <4>2, <5>1
        <5>3. g[n] = FoldStep(S, n, IF n = 0 THEN EmptyView ELSE g[n - 1])
          BY <3>2, <5>1
        <5> QED
          BY <5>2, <5>3
      <4> QED
        BY <4>1, <4>2
    <3>4. Upto(h, k)
      BY <3>3
    <3> QED
      BY <2>2, <3>4
  <2> QED
    BY <2>3, <2>4
<1>2. PICK g : Upto(g, MaxOp)
  <2>1. MaxOp \in 0..MaxOp /\ MaxOp \notin T
    BY <1>0, <1>1
  <2> HIDE DEF Upto
  <2> QED
    BY <2>1
<1>3. IsFold(S, g)
  BY <1>2 DEF IsFold
<1> DEFINE f == CHOOSE f : IsFold(S, f)
<1>4. IsFold(S, f)
  BY <1>3
<1>5. MergedView(S) = f[MaxOp]
  BY DEF MergedView, IsFold, FoldStep
<1> QED
  BY <1>4, <1>5

\* The ancestors of an op, which are fixed when it is built, are ordered.
Ordered ==
  \A o \in DOMAIN ops :
    /\ {0, o} \subseteq ops[o].ancestors
    /\ \A a \in ops[o].ancestors :
         /\ ops[a].ancestors \subseteq ops[o].ancestors
         /\ o \in ops[a].ancestors => a = o

\* Views only gain revocations along the log.
RevokedGrow ==
  \A o \in DOMAIN ops :
    /\ "revoked" \in DOMAIN ops[o].view
    /\ \A a \in ops[o].ancestors : ops[a].view.revoked \subseteq ops[o].view.revoked

\* There are finitely many ops.
LEMMA OpsFinite ==
  ASSUME TypeOK, NEW K, K \subseteq DOMAIN ops
  PROVE  IsFiniteSet(K)
<1>1. 0 \in Int /\ MaxOp \in Int
  BY OpLogAssumption
<1>2. IsFiniteSet(0..MaxOp)
  BY <1>1, FS_Interval
<1>3. K \subseteq 0..MaxOp
  BY OpLogAssumption DEF TypeOK, OpId
<1> QED
  BY <1>2, <1>3, FS_Subset

\* Ops that have a common ancestor have a latest one.
LEMMA LCAIsCommon ==
  ASSUME TypeOK, Ordered, NEW S, S \subseteq DOMAIN ops, S # {}
  PROVE  LCA(S) \in CommonAncestors(S) /\ LCA(S) \in DOMAIN ops
<1> DEFINE size(a) == Cardinality(ops[a].ancestors)
            C == CommonAncestors(S)
<1>1. C \subseteq DOMAIN ops /\ 0 \in C
  BY DEF CommonAncestors, Reach, TypeOK, Ordered
<1>0. \A o \in DOMAIN ops : IsFiniteSet(ops[o].ancestors)
  <2>1. \A o \in DOMAIN ops : ops[o].ancestors \subseteq DOMAIN ops
    BY DEF TypeOK
  <2> QED
    BY <2>1, OpsFinite
<1>2. \A a \in DOMAIN ops : size(a) \in Nat
  BY <1>0, FS_CardinalityType
<1>3. ASSUME NEW a \in DOMAIN ops, NEW b \in DOMAIN ops, a # b, a \in ops[b].ancestors
      PROVE  size(a) < size(b)
  <2>1. ops[a].ancestors \subseteq ops[b].ancestors /\ ops[a].ancestors # ops[b].ancestors
    BY <1>3 DEF Ordered
  <2>2. IsFiniteSet(ops[b].ancestors)
    BY <1>0
  <2>3. size(a) <= size(b) /\ (size(a) = size(b) => ops[a].ancestors = ops[b].ancestors)
    BY <2>1, <2>2, FS_Subset
  <2> QED
    BY <1>2, <2>1, <2>3
<1>4. PICK K \in Nat : \A a \in C : size(a) <= K
  <2>1. PICK o \in S : TRUE
    OBVIOUS
  <2>2. \A a \in C : a \in ops[o].ancestors /\ a \in DOMAIN ops
    BY <1>1, <2>1 DEF CommonAncestors
  <2>3. \A a \in C : size(a) <= size(o)
    <3> SUFFICES ASSUME NEW a \in C PROVE size(a) <= size(o)
      OBVIOUS
    <3>1. a = o \/ size(a) < size(o)
      BY <1>3, <2>2
    <3>2. size(a) \in Nat /\ size(o) \in Nat
      BY <1>2, <2>2
    <3> QED
      BY <3>1, <3>2
  <2> QED
    BY <1>2, <2>3
<1>5. Latest(S) # {}
  <2> DEFINE T == {K - size(a) : a \in C}
  <2>1. T \in SUBSET Nat /\ T # {}
    BY <1>1, <1>2, <1>4
  <2>2. PICK t \in T : \A u \in T : t <= u
    <3> HIDE DEF T
    <3> QED
      BY <2>1, LeastNatural
  <2>3. PICK a \in C : t = K - size(a)
    OBVIOUS
  <2>4. \A b \in C : size(b) <= size(a)
    <3> SUFFICES ASSUME NEW b \in C PROVE size(b) <= size(a)
      OBVIOUS
    <3>1. K - size(a) <= K - size(b)
      BY <2>2, <2>3
    <3>2. size(a) \in Nat /\ size(b) \in Nat
      BY <1>1, <1>2
    <3> HIDE DEF size
    <3> QED
      BY <3>1, <3>2
  <2>5. \A b \in C \ {a} : a \notin ops[b].ancestors
    <3> SUFFICES ASSUME NEW b \in C \ {a}, a \in ops[b].ancestors PROVE FALSE
      OBVIOUS
    <3>1. size(a) < size(b) /\ size(b) <= size(a)
      BY <1>1, <1>3, <2>4
    <3>2. size(a) \in Nat /\ size(b) \in Nat
      BY <1>1, <1>2
    <3> HIDE DEF size
    <3> QED
      BY <3>1, <3>2
  <2> QED
    BY <2>5 DEF Latest
<1>6. PICK a \in Latest(S) : \A b \in Latest(S) : a <= b
  <2>1. Latest(S) \in SUBSET Nat
    BY <1>1, OpLogAssumption DEF Latest, TypeOK, OpId
  <2> QED
    BY <1>5, <2>1, LeastNatural
<1>7. LCA(S) \in Latest(S)
  BY <1>6 DEF LCA
<1> QED
  BY <1>1, <1>7 DEF Latest

\* The merged view revokes whom some head revokes, however the heads are folded.
LEMMA MergedRevoked ==
  ASSUME TypeOK, Ordered, RevokedGrow, NEW S, S \subseteq DOMAIN ops, S # {}
  PROVE  /\ "revoked" \in DOMAIN MergedView(S)
         /\ MergedView(S).revoked = UNION {ops[o].view.revoked : o \in S}
<1>0. MaxOp \in Nat /\ S \subseteq 0..MaxOp
  BY OpLogAssumption DEF TypeOK, OpId
<1>1. PICK f : IsFold(S, f) /\ MergedView(S) = f[MaxOp]
  BY FoldDefined
<1> DEFINE Good(n) ==
              /\ "revoked" \in DOMAIN f[n]
              /\ f[n].revoked = UNION {ops[o].view.revoked : o \in {m \in S : m <= n}}
            T == {n \in 0..MaxOp : ~Good(n)}
<1>2. ASSUME NEW n \in 0..MaxOp, n # 0 => Good(n - 1)
      PROVE  Good(n)
  <2> DEFINE before == IF n = 0 THEN EmptyView ELSE f[n - 1]
              below == {m \in S : m < n}
  <2>1. f[n] = FoldStep(S, n, before)
    BY <1>1 DEF IsFold
  <2>2. /\ "revoked" \in DOMAIN before
        /\ before.revoked = UNION {ops[o].view.revoked : o \in below}
    <3>1. CASE n = 0
      <4>1. below = {}
        BY <1>0, <3>1
      <4> QED
        BY <3>1, <4>1 DEF EmptyView
    <3>2. CASE n # 0
      <4>1. below = {m \in S : m <= n - 1}
        BY <1>0, <3>2
      <4> QED
        BY <1>2, <3>2, <4>1
    <3> QED
      BY <3>1, <3>2
  <2> HIDE DEF before
  <2>3. CASE n \notin S
    <3>1. {m \in S : m <= n} = below
      BY <1>0, <2>3
    <3> QED
      BY <2>1, <2>2, <2>3, <3>1 DEF FoldStep
  <2>4. CASE n \in S /\ below = {}
    <3>1. {m \in S : m <= n} = {n}
      BY <1>0, <2>4
    <3>2. f[n] = ops[n].view
      BY <2>1, <2>4 DEF FoldStep
    <3> QED
      BY <2>4, <3>1, <3>2 DEF RevokedGrow
  <2>5. CASE n \in S /\ below # {}
    <3>1. {m \in S : m <= n} = below \cup {n}
      BY <1>0, <2>5
    <3> DEFINE base == LCA(below \cup {n})
    <3>2. base \in CommonAncestors(below \cup {n})
      BY <2>5, LCAIsCommon
    <3>3. ops[base].view.revoked \subseteq ops[n].view.revoked
      BY <2>5, <3>2 DEF CommonAncestors, RevokedGrow
    <3> HIDE DEF base
    <3>4. f[n] = Merge(ops[base].view, before, ops[n].view)
      BY <2>1, <2>5 DEF FoldStep, base
    <3>5. /\ "revoked" \in DOMAIN f[n]
          /\ f[n].revoked = ops[base].view.revoked \cup before.revoked \cup ops[n].view.revoked
      BY <3>4 DEF Merge
    <3>6. f[n].revoked = before.revoked \cup ops[n].view.revoked
      BY <3>3, <3>5
    <3>7. UNION {ops[o].view.revoked : o \in below \cup {n}}
            = (UNION {ops[o].view.revoked : o \in below}) \cup ops[n].view.revoked
      OBVIOUS
    <3> QED
      BY <2>2, <3>1, <3>5, <3>6, <3>7
  <2> QED
    BY <2>3, <2>4, <2>5
<1> HIDE DEF Good
<1>3. T = {}
  <2> SUFFICES ASSUME T # {} PROVE FALSE
    OBVIOUS
  <2>1. PICK n \in T : \A j \in T : n <= j
    <3>1. T \in SUBSET Nat
      BY <1>0
    <3> HIDE DEF T
    <3> QED
      BY <3>1, LeastNatural
  <2>2. n # 0 => n - 1 \in 0..MaxOp /\ n - 1 \notin T
    BY <1>0, <2>1
  <2> QED
    BY <1>2, <2>1, <2>2
<1>4. Good(MaxOp) /\ {m \in S : m <= MaxOp} = S
  BY <1>0, <1>3
<1> QED
  BY <1>1, <1>4 DEF Good


\* No effect takes a revocation back.
Kinds == {"point", "unpoint", "propose", "unpropose", "revoke", "head", "coordinator", "owner",
          "unowner", "deploy", "pause", "resume"}

LEMMA ApplyKeepsRevoked ==
  ASSUME NEW v, "revoked" \in DOMAIN v, NEW e, e.kind \in Kinds
  PROVE  "revoked" \in DOMAIN Apply(v, e) /\ v.revoked \subseteq Apply(v, e).revoked
BY DEF Apply, Kinds

\* What is written and what is undone are effects that Apply knows.
LEMMA EffectKinds ==
  /\ \A p, v, id : \A e \in EffectsOn(p, v, id) : e.kind \in Kinds
  /\ \A v, op : \A e \in InverseOf(v, op) : e.kind \in Kinds
<1>1. ASSUME NEW p, NEW v, NEW id, NEW e \in EffectsOn(p, v, id)
      PROVE  e.kind \in Kinds
  BY DEF EffectsOn, Kinds
<1>2. ASSUME NEW v, NEW op, NEW e \in InverseOf(v, op)
      PROVE  e.kind \in Kinds
  BY DEF InverseOf, Kinds
<1> QED
  BY <1>1, <1>2

\* Every replica has init, and views revoke whom the ops before them revoke.
RInv == Ordered /\ RevokedGrow /\ \A r \in Replica : 0 \in known[r]

\* A replica's view revokes whom any op it knows revokes, and nobody else.
ViewRevokesKnown ==
  \A r \in Replica :
    /\ "revoked" \in DOMAIN CurrentView(r)
    /\ CurrentView(r).revoked = UNION {ops[o].view.revoked : o \in known[r]}

LEMMA CurrentRevoked == IInv /\ RInv => ViewRevokesKnown
<1> SUFFICES ASSUME IInv, RInv, NEW r \in Replica
              PROVE  /\ "revoked" \in DOMAIN CurrentView(r)
                     /\ CurrentView(r).revoked = UNION {ops[o].view.revoked : o \in known[r]}
  BY DEF ViewRevokesKnown
<1>1. /\ heads[r] \subseteq known[r] /\ known[r] \subseteq DOMAIN ops /\ 0 \in known[r]
      /\ UNION {ops[o].ancestors : o \in heads[r]} = known[r]
  BY DEF IInv, TypeOK, HeadsAreFrontier, ReopenRestores, Reach, RInv
<1>2. heads[r] # {} /\ heads[r] \subseteq DOMAIN ops
  BY <1>1
<1>3. /\ "revoked" \in DOMAIN CurrentView(r)
      /\ CurrentView(r).revoked = UNION {ops[o].view.revoked : o \in heads[r]}
  BY <1>2, MergedRevoked DEF CurrentView, IInv, RInv
<1>4. \A a \in known[r] : \E o \in heads[r] : ops[a].view.revoked \subseteq ops[o].view.revoked
  BY <1>1 DEF RInv, RevokedGrow
<1>5. UNION {ops[o].view.revoked : o \in heads[r]} = UNION {ops[o].view.revoked : o \in known[r]}
  BY <1>1, <1>4
<1> QED
  BY <1>3, <1>5

\* An op built on the heads of a replica is above all they reach, and its view
\* revokes all they revoke.
LEMMA CommitKeepsRInv ==
  ASSUME IInv, RInv, NEW p \in Principal, NEW k \in Key, NEW id \in OpId \ DOMAIN ops,
         NEW e, e.kind \in Kinds, NEW verb, Commit(p, k, id, e, verb)
  PROVE  RInv'
<1> DEFINE r == Host[p]
            op == BuildOp(r, p, k, id, e, verb)
<1>0. r \in Replica
  BY OpLogAssumption
<1>1. /\ ops' = [o \in DOMAIN ops \cup {id} |-> IF o = id THEN op ELSE ops[o]]
      /\ known' = [known EXCEPT ![r] = @ \cup {id}]
  BY DEF Commit, Accept
<1>2. /\ op.ancestors = {id} \cup known[r]
      /\ op.view = Apply(CurrentView(r), e)
  BY <1>0 DEF BuildOp, IInv, ReopenRestores
<1> HIDE DEF op, r
<1>3. /\ DOMAIN ops' = DOMAIN ops \cup {id} /\ ops'[id] = op
      /\ \A o \in DOMAIN ops : ops'[o] = ops[o]
      /\ known[r] \subseteq DOMAIN ops /\ id \notin DOMAIN ops
      /\ \A o \in DOMAIN ops : ops[o].ancestors \subseteq DOMAIN ops
      /\ \A o \in known[r] : ops[o].ancestors \subseteq known[r]
  BY <1>0, <1>1 DEF IInv, TypeOK
<1>4. Ordered'
  <2> SUFFICES ASSUME NEW o \in DOMAIN ops'
                PROVE  /\ {0, o} \subseteq ops'[o].ancestors
                       /\ \A a \in ops'[o].ancestors :
                            /\ ops'[a].ancestors \subseteq ops'[o].ancestors
                            /\ o \in ops'[a].ancestors => a = o
    BY DEF Ordered
  <2>1. CASE o \in DOMAIN ops
    BY <1>3, <2>1 DEF RInv, Ordered
  <2>2. CASE o = id
    BY <1>0, <1>2, <1>3, <2>2 DEF RInv, Ordered
  <2> QED
    BY <1>3, <2>1, <2>2
<1>5. RevokedGrow'
  <2>1. /\ "revoked" \in DOMAIN op.view
        /\ \A o \in known[r] : ops[o].view.revoked \subseteq op.view.revoked
    BY <1>0, <1>2, CurrentRevoked, ApplyKeepsRevoked DEF ViewRevokesKnown
  <2> QED
    BY <1>2, <1>3, <2>1 DEF RInv, RevokedGrow
<1>6. \A q \in Replica : 0 \in known'[q]
  BY <1>0, <1>1 DEF RInv, IInv, TypeOK
<1> QED
  BY <1>4, <1>5, <1>6 DEF RInv

LEMMA StepRInv == IInv /\ RInv /\ [Next]_vars => RInv'
<1> SUFFICES ASSUME IInv, RInv, [Next]_vars PROVE RInv'
  OBVIOUS
<1>1. ASSUME NEW p \in Principal, NEW k \in Key, NEW id \in OpId, Write(p, k, id)
      PROVE  RInv'
  BY <1>1, EffectKinds, CommitKeepsRInv DEF Write
<1>2. ASSUME NEW p \in Principal, NEW k \in Key, NEW id \in OpId, NEW t \in DOMAIN ops,
             Undo(p, k, id, t)
      PROVE  RInv'
  BY <1>2, EffectKinds, CommitKeepsRInv DEF Undo
<1>3. ASSUME NEW r \in Replica, NEW id \in DOMAIN ops \ {0}, Deliver(r, id)
      PROVE  RInv'
  BY <1>3 DEF Deliver, Accept, RInv, Ordered, RevokedGrow, IInv, TypeOK
<1>4. ASSUME NEW r \in Replica, Reopen(r)
      PROVE  RInv'
  <2>1. known' = known /\ ops' = ops
    BY <1>4 DEF Reopen, IInv, TypeOK, ReopenRestores
  <2> QED
    BY <2>1 DEF RInv, Ordered, RevokedGrow
<1>5. CASE UNCHANGED vars
  BY <1>5 DEF vars, RInv, Ordered, RevokedGrow
<1> QED
  BY <1>1, <1>2, <1>3, <1>4, <1>5 DEF Next

\* After init every replica has it, and nobody is revoked.
LEMMA InitRInv == Init => RInv
<1> SUFFICES ASSUME Init PROVE RInv
  OBVIOUS
<1>1. /\ DOMAIN ops = {0} /\ ops[0] = InitOp
      /\ \A r \in Replica : known[r] = {0}
  BY DEF Init
<1>2. InitOp.ancestors = {0} /\ "revoked" \in DOMAIN InitOp.view
  BY DEF InitOp, EmptyView
<1> QED
  BY <1>1, <1>2 DEF RInv, Ordered, RevokedGrow

\* Once a replica's view revokes a principal it always does, and accepts no op
\* of theirs: not by a merge of heads in whatever order, and not by a delivery.
THEOREM RevokedForGood == Spec => RevocationHolds
<1>2. ASSUME IInv, ViewRevokesKnown, ViewRevokesKnown', [Next]_vars
      PROVE  [\A r \in Replica :
                /\ CurrentView(r).revoked \subseteq CurrentView(r)'.revoked
                /\ \A o \in known[r]' \ known[r] :
                     ops'[o].author \notin CurrentView(r).revoked]_vars
  <2> SUFFICES ASSUME Next, NEW r \in Replica
                PROVE  /\ CurrentView(r).revoked \subseteq CurrentView(r)'.revoked
                       /\ \A o \in known[r]' \ known[r] :
                            ops'[o].author \notin CurrentView(r).revoked
    BY <1>2
  <2>1. ASSUME known[r] \subseteq known'[r], \A o \in known[r] : ops'[o] = ops[o]
        PROVE  CurrentView(r).revoked \subseteq CurrentView(r)'.revoked
    BY <1>2, <2>1 DEF ViewRevokesKnown
  <2>2. ASSUME NEW q \in Replica, NEW id \in OpId, NEW op, Accept(q, id, op), Names(id, op)
        PROVE  /\ CurrentView(r).revoked \subseteq CurrentView(r)'.revoked
               /\ \A o \in known[r]' \ known[r] :
                    ops'[o].author \notin CurrentView(r).revoked
    <3>1. /\ known' = [known EXCEPT ![q] = @ \cup {id}]
          /\ op.author \notin CurrentView(q).revoked
      BY <2>2 DEF Accept, Verified, NotRevoked
    <3>2. known[r] \subseteq known'[r] /\ \A o \in known[r] : ops'[o] = ops[o]
      BY <1>2, <2>2, <3>1 DEF IInv, TypeOK, Names
    <3>3. \A o \in known'[r] \ known[r] : r = q /\ o = id /\ ops'[o] = op
      BY <1>2, <2>2, <3>1 DEF IInv, TypeOK, Names
    <3> QED
      BY <2>1, <3>1, <3>2, <3>3
  <2>3. ASSUME NEW p \in Principal, NEW k \in Key, NEW id \in OpId \ DOMAIN ops, NEW e,
               NEW verb, Commit(p, k, id, e, verb)
        PROVE  /\ CurrentView(r).revoked \subseteq CurrentView(r)'.revoked
               /\ \A o \in known[r]' \ known[r] :
                    ops'[o].author \notin CurrentView(r).revoked
    <3>1. PICK op : op = BuildOp(Host[p], p, k, id, e, verb)
      OBVIOUS
    <3>2. Host[p] \in Replica
      BY OpLogAssumption
    <3>3. /\ Accept(Host[p], id, op)
          /\ ops' = [o \in DOMAIN ops \cup {id} |-> IF o = id THEN op ELSE ops[o]]
      BY <2>3, <3>1 DEF Commit
    <3>4. Names(id, op)
      BY <3>3 DEF Names
    <3> QED
      BY <2>2, <3>2, <3>3, <3>4
  <2>4. ASSUME NEW q \in Replica, NEW id \in DOMAIN ops \ {0}, Deliver(q, id)
        PROVE  /\ CurrentView(r).revoked \subseteq CurrentView(r)'.revoked
               /\ \A o \in known[r]' \ known[r] :
                    ops'[o].author \notin CurrentView(r).revoked
    <3>1. Accept(q, id, ops[id]) /\ Names(id, ops[id]) /\ id \in OpId
      BY <1>2, <2>4 DEF Deliver, Names, IInv, TypeOK
    <3> QED
      BY <2>2, <3>1
  <2>5. ASSUME NEW q \in Replica, Reopen(q)
        PROVE  /\ CurrentView(r).revoked \subseteq CurrentView(r)'.revoked
               /\ \A o \in known[r]' \ known[r] :
                    ops'[o].author \notin CurrentView(r).revoked
    <3>1. known' = known /\ ops' = ops
      BY <1>2, <2>5 DEF Reopen, IInv, TypeOK, ReopenRestores
    <3> QED
      BY <2>1, <3>1
  <2> QED
    BY <2>3, <2>4, <2>5 DEF Next, Write, Undo
<1> QED
  BY Inductive, CurrentRevoked, InitRInv, StepRInv, <1>2, PTL DEF Spec, RevocationHolds
-----------------------------------------------------------------------------
(***************************************************************************)
(* What a merged view says of the ops below it.  A view fits a set of ops  *)
(* when it accounts for every version they created and for every landing;  *)
(* the view of an op fits its ancestors, and the fold of some heads fits   *)
(* all they reach, because each merge is over a view both sides have       *)
(* behind them.  The log is a parameter, as a view keeps fitting when the  *)
(* log grows.                                                              *)
(***************************************************************************)
Moves(O, q, n) == O[q].effect.kind \in {"point", "unpoint"} /\ O[q].effect.entity = n

Removed(O, K, n) ==
  \E q \in K : O[q].effect.kind = "unpoint" /\ O[q].effect.entity = n

Created(O, K, n) ==
  {o \in K : O[o].effect.kind = "point" /\ O[o].effect.entity = n /\ O[o].effect.to = o}

Superseded(O, K, n, o) == \E q \in K \ {o} : Moves(O, q, n) /\ o \in O[q].ancestors

\* Value s of entity n: nothing the ops K created there is lost, unless one of
\* them removed the entity.
EntityFits(O, K, n, s) ==
  /\ s \subseteq K
  /\ \/ Removed(O, K, n)
     \/ s # {} /\ \A o \in Created(O, K, n) : o \in s \/ Superseded(O, K, n, o)

LandsIn(O, K, l) == {o \in K : O[o].effect.kind = "head" /\ O[o].effect.line = l}

\* Head h of line l: the landing above all others, with some below it.
HeadFits(O, K, l, h) ==
  /\ h \subseteq K
  /\ \/ LandsIn(O, K, l) = {} /\ h = {0}
     \/ \E t \in LandsIn(O, K, l) :
          /\ LandsIn(O, K, l) \subseteq O[t].ancestors
          /\ t \in h /\ h \subseteq O[t].ancestors

LineFits(O, K, l, line) ==
  /\ line.coordinator = Owner
  /\ line.seq = Cardinality(LandsIn(O, K, l))
  /\ HeadFits(O, K, l, line.head)

ViewFits(O, K, v) ==
  /\ {"entities", "lines"} \subseteq DOMAIN v
  /\ DOMAIN v.entities = Entity /\ DOMAIN v.lines = Line
  /\ \A n \in Entity : EntityFits(O, K, n, v.entities[n])
  /\ \A l \in Line : LineFits(O, K, l, v.lines[l])

\* An op's effect is about what exists, and a landing has its number.
EffectFits(O, o) ==
  LET e == O[o].effect IN
  /\ e.kind = "point" => e.entity \in Entity /\ e.from \subseteq O[o].ancestors
  /\ e.kind = "head" => /\ e.line \in Line /\ O[o].author = Owner
                        /\ e.seq = Cardinality(LandsIn(O, O[o].ancestors, e.line))

\* Landings are the coordinator's, who knows each when it makes the next.
Serial(O, l) ==
  \A a, b \in LandsIn(O, DOMAIN O, l) : a \in O[b].ancestors \/ b \in O[a].ancestors

VInv ==
  /\ \A o \in DOMAIN ops : ViewFits(ops, ops[o].ancestors, ops[o].view) /\ EffectFits(ops, o)
  /\ \A l \in Line : Serial(ops, l)

\* A view keeps fitting when the log grows.
LEMMA StillFits ==
  ASSUME NEW O, NEW P, NEW K, \A o \in K : P[o] = O[o], NEW v, ViewFits(O, K, v)
  PROVE  ViewFits(P, K, v)
<1>1. ASSUME NEW n \in Entity PROVE EntityFits(P, K, n, v.entities[n])
  <2>1. EntityFits(O, K, n, v.entities[n])
    BY DEF ViewFits
  <2>2. Created(P, K, n) = Created(O, K, n) /\ (Removed(O, K, n) => Removed(P, K, n))
    BY DEF Created, Removed
  <2>3. \A o : Superseded(O, K, n, o) => Superseded(P, K, n, o)
    BY DEF Superseded, Moves
  <2> QED
    BY <2>1, <2>2, <2>3 DEF EntityFits
<1>2. ASSUME NEW l \in Line PROVE LineFits(P, K, l, v.lines[l])
  <2>1. LineFits(O, K, l, v.lines[l])
    BY DEF ViewFits
  <2>2. LandsIn(P, K, l) = LandsIn(O, K, l)
    BY DEF LandsIn
  <2>3. \A t \in LandsIn(O, K, l) : P[t] = O[t]
    BY DEF LandsIn
  <2> QED
    BY <2>1, <2>2, <2>3 DEF LineFits, HeadFits
<1> QED
  BY <1>1, <1>2 DEF ViewFits

\* Ops closed under ancestors, which are ordered and below which is init.
Closed(O, K) ==
  /\ IsFiniteSet(K) /\ 0 \in K /\ K \subseteq DOMAIN O
  /\ \A o \in K :
       /\ {0, o} \subseteq O[o].ancestors /\ O[o].ancestors \subseteq K
       /\ \A a \in O[o].ancestors : O[a].ancestors \subseteq O[o].ancestors

\* What three sets of ops in a merge have in common: those of the base are on
\* both sides, and all are closed.
MergeFrame(O, C, A, B) ==
  /\ C \subseteq A /\ C \subseteq B
  /\ Closed(O, A) /\ Closed(O, B) /\ Closed(O, C)

\* Merging two values of an entity loses no version.
LEMMA MergedEntity ==
  ASSUME NEW O, NEW C, NEW A, NEW B, MergeFrame(O, C, A, B), NEW n, NEW b, NEW x, NEW y,
         EntityFits(O, C, n, b), EntityFits(O, A, n, x), EntityFits(O, B, n, y)
  PROVE  EntityFits(O, A \cup B, n, MergePointer(b, x, y))
<1> DEFINE K == A \cup B
<1>2. /\ \A o : Superseded(O, A, n, o) => Superseded(O, K, n, o)
      /\ \A o : Superseded(O, B, n, o) => Superseded(O, K, n, o)
  BY DEF Superseded
<1>3. (Removed(O, A, n) => Removed(O, K, n)) /\ (Removed(O, B, n) => Removed(O, K, n))
  BY DEF Removed
<1>4. Created(O, K, n) = Created(O, A, n) \cup Created(O, B, n)
  BY DEF Created
<1>5. b \subseteq A /\ b \subseteq B /\ x \subseteq K /\ y \subseteq K
  BY DEF EntityFits, MergeFrame, Closed
<1>6. SUFFICES ASSUME ~Removed(O, A, n), ~Removed(O, B, n)
               PROVE  EntityFits(O, K, n, MergePointer(b, x, y))
  BY <1>3, <1>5 DEF EntityFits, MergePointer, ThreeWay, BothPointers
<1>7. /\ x # {} /\ \A o \in Created(O, A, n) : o \in x \/ Superseded(O, A, n, o)
      /\ y # {} /\ \A o \in Created(O, B, n) : o \in y \/ Superseded(O, B, n, o)
  BY <1>6 DEF EntityFits
<1>8. Created(O, A, n) \subseteq A /\ Created(O, B, n) \subseteq B
  BY DEF Created
<1>9. \A o \in A \cap B : o \in Created(O, A, n) <=> o \in Created(O, B, n)
  BY DEF Created
<1>10. CASE x = b
  <2>1. MergePointer(b, x, y) = y
    BY <1>10 DEF MergePointer, ThreeWay
  <2>2. ASSUME NEW o \in Created(O, K, n) PROVE o \in y \/ Superseded(O, K, n, o)
    <3>1. CASE o \in Created(O, B, n)
      BY <3>1, <1>2, <1>7
    <3>2. CASE o \in Created(O, A, n) /\ o \in x
      BY <3>2, <1>10, <1>2, <1>5, <1>7, <1>8, <1>9
    <3>3. CASE o \in Created(O, A, n) /\ o \notin x
      BY <3>3, <1>2, <1>7
    <3> QED
      BY <2>2, <3>1, <3>2, <3>3, <1>4
  <2> QED
    BY <2>1, <2>2, <1>5, <1>7 DEF EntityFits
<1>11. CASE y = b
  <2>1. MergePointer(b, x, y) = x
    BY <1>11 DEF MergePointer, ThreeWay
  <2>2. ASSUME NEW o \in Created(O, K, n) PROVE o \in x \/ Superseded(O, K, n, o)
    <3>1. CASE o \in Created(O, A, n)
      BY <3>1, <1>2, <1>7
    <3>2. CASE o \in Created(O, B, n) /\ o \in y
      BY <3>2, <1>11, <1>2, <1>5, <1>7, <1>8, <1>9
    <3>3. CASE o \in Created(O, B, n) /\ o \notin y
      BY <3>3, <1>2, <1>7
    <3> QED
      BY <2>2, <3>1, <3>2, <3>3, <1>4
  <2> QED
    BY <2>1, <2>2, <1>5, <1>7 DEF EntityFits
<1>12. CASE x # b /\ y # b
  <2>1. MergePointer(b, x, y) = x \cup y
    BY <1>12, <1>7 DEF MergePointer, ThreeWay, BothPointers
  <2>2. \A o \in Created(O, K, n) : o \in x \cup y \/ Superseded(O, K, n, o)
    BY <1>2, <1>4, <1>7
  <2> QED
    BY <2>1, <2>2, <1>5, <1>7 DEF EntityFits
<1> QED
  BY <1>10, <1>11, <1>12

\* Of two sets of ops closed under ancestors, one has all landings of a line
\* that are in either.
LEMMA LandingsNest ==
  ASSUME NEW O, NEW C, NEW A, NEW B, MergeFrame(O, C, A, B),
         NEW l, Serial(O, l), NEW x, NEW y, LineFits(O, A, l, x), LineFits(O, B, l, y)
  PROVE  LandsIn(O, A, l) \subseteq LandsIn(O, B, l) \/ LandsIn(O, B, l) \subseteq LandsIn(O, A, l)
<1> SUFFICES ASSUME LandsIn(O, A, l) # {}, LandsIn(O, B, l) # {}
             PROVE  \/ LandsIn(O, A, l) \subseteq LandsIn(O, B, l)
                    \/ LandsIn(O, B, l) \subseteq LandsIn(O, A, l)
  OBVIOUS
<1>1. PICK s \in LandsIn(O, A, l) : LandsIn(O, A, l) \subseteq O[s].ancestors
  BY DEF LineFits, HeadFits
<1>2. PICK t \in LandsIn(O, B, l) : LandsIn(O, B, l) \subseteq O[t].ancestors
  BY DEF LineFits, HeadFits
<1>3. s \in O[t].ancestors \/ t \in O[s].ancestors
  BY DEF Serial, LandsIn, MergeFrame, Closed
<1>4. s \in A /\ t \in B
  BY DEF LandsIn
<1>5. CASE s \in O[t].ancestors
  <2>1. s \in B
    BY <1>4, <1>5 DEF MergeFrame, Closed
  <2>2. O[s].ancestors \subseteq B
    BY <2>1 DEF MergeFrame, Closed
  <2> QED
    BY <1>1, <2>2 DEF LandsIn
<1>6. CASE t \in O[s].ancestors
  <2>1. t \in A
    BY <1>4, <1>6 DEF MergeFrame, Closed
  <2>2. O[t].ancestors \subseteq A
    BY <2>1 DEF MergeFrame, Closed
  <2> QED
    BY <1>2, <2>2 DEF LandsIn
<1> QED
  BY <1>3, <1>5, <1>6

\* The head of the side that has all landings stays, or what replaces it is
\* above them too.
LEMMA MergedHead ==
  ASSUME NEW O, NEW C, NEW A, NEW B, MergeFrame(O, C, A, B), NEW l, NEW g, NEW s, NEW t, NEW h,
         HeadFits(O, C, l, g), HeadFits(O, A, l, s), HeadFits(O, B, l, t),
         LandsIn(O, A, l) \subseteq LandsIn(O, B, l),
         \/ h = t /\ s = g
         \/ h = s /\ t = g
         \/ h = s /\ s = t
         \/ h = s \cup t
  PROVE  HeadFits(O, A \cup B, l, h)
<1> DEFINE K == A \cup B
<1>1. LandsIn(O, K, l) = LandsIn(O, B, l)
  BY DEF LandsIn
<1>2. s \subseteq K /\ t \subseteq K /\ h \subseteq K
  BY DEF HeadFits
<1>3. LandsIn(O, C, l) \subseteq LandsIn(O, A, l)
  BY DEF LandsIn, MergeFrame, Closed
<1>4. CASE LandsIn(O, B, l) = {}
  <2>1. s = {0} /\ t = {0}
    BY <1>4 DEF HeadFits
  <2> QED
    BY <2>1, <1>1, <1>2, <1>4 DEF HeadFits
<1>5. CASE LandsIn(O, B, l) # {}
  <2>1. PICK top \in LandsIn(O, B, l) :
          LandsIn(O, B, l) \subseteq O[top].ancestors /\ top \in t /\ t \subseteq O[top].ancestors
    BY <1>5 DEF HeadFits
  <2>2. top \in B
    BY DEF LandsIn
  <2>3. s \subseteq O[top].ancestors
    <3>1. CASE LandsIn(O, A, l) = {}
      <4>1. s = {0}
        BY <3>1 DEF HeadFits
      <4> QED
        BY <4>1, <2>2 DEF MergeFrame, Closed
    <3>2. CASE LandsIn(O, A, l) # {}
      <4>1. PICK r \in LandsIn(O, A, l) : s \subseteq O[r].ancestors
        BY <3>2 DEF HeadFits
      <4>2. r \in O[top].ancestors
        BY <2>1
      <4>3. r \in A
        BY DEF LandsIn
      <4> QED
        BY <4>1, <4>2, <4>3, <2>2 DEF MergeFrame, Closed
    <3> QED
      BY <3>1, <3>2
  <2>4. CASE top \in h
    BY <2>1, <2>3, <2>4, <1>1, <1>2 DEF HeadFits
  <2>5. CASE top \notin h
    <3>1. h = s /\ t = g
      BY <2>1, <2>5
    <3>2. top \in C
      BY <2>1, <3>1 DEF HeadFits
    <3>3. O[top].ancestors \subseteq C
      BY <3>2 DEF MergeFrame, Closed
    <3>4. LandsIn(O, B, l) \subseteq LandsIn(O, A, l)
      BY <2>1, <3>3, <1>3 DEF LandsIn
    <3> QED
      BY <3>1, <3>4, <1>1, <1>2 DEF HeadFits
  <2> QED
    BY <2>4, <2>5
<1> QED
  BY <1>4, <1>5

\* Merging two states of a line keeps its number and the newest landing.
LEMMA MergedLine ==
  ASSUME NEW O, NEW C, NEW A, NEW B, MergeFrame(O, C, A, B),
         NEW l, Serial(O, l), NEW b, NEW x, NEW y,
         LineFits(O, C, l, b), LineFits(O, A, l, x), LineFits(O, B, l, y)
  PROVE  LineFits(O, A \cup B, l, MergeLine(b, x, y))
<1> DEFINE K == A \cup B
            N(S) == LandsIn(O, S, l)
            m == MergeLineState(b, x, y)
<1>1. /\ IsFiniteSet(N(A)) /\ IsFiniteSet(N(B)) /\ IsFiniteSet(N(C))
      /\ N(K) = N(A) \cup N(B) /\ N(C) \subseteq N(A) /\ N(C) \subseteq N(B)
  <2>1. \A S \in {A, B, C} : IsFiniteSet(S) /\ N(S) \subseteq S
    BY DEF LandsIn, MergeFrame, Closed
  <2>2. IsFiniteSet(N(A)) /\ IsFiniteSet(N(B)) /\ IsFiniteSet(N(C))
    BY <2>1, FS_Subset
  <2>3. N(K) = N(A) \cup N(B) /\ N(C) \subseteq N(A) /\ N(C) \subseteq N(B)
    BY DEF LandsIn, MergeFrame, Closed
  <2> QED
    BY <2>2, <2>3
<1>2. Owner # 0 /\ x.coordinator = Owner /\ y.coordinator = Owner /\ b.coordinator = Owner
  BY OpLogAssumption, ViewAssumption DEF LineFits
<1>3. x # NoLine /\ y # NoLine /\ b # NoLine
  BY <1>2 DEF NoLine
<1>4. MergeLine(b, x, y) = ThreeWay(b, x, y, m)
  BY <1>3 DEF MergeLine
<1>5. N(A) \subseteq N(B) \/ N(B) \subseteq N(A)
  BY LandingsNest
<1>6. /\ x.seq = Cardinality(N(A)) /\ y.seq = Cardinality(N(B)) /\ b.seq = Cardinality(N(C))
      /\ HeadFits(O, A, l, x.head) /\ HeadFits(O, B, l, y.head) /\ HeadFits(O, C, l, b.head)
  BY DEF LineFits
<1>7. \A S, T : HeadFits(O, S, l, x.head) /\ N(S) = N(T) /\ S \subseteq T => HeadFits(O, T, l, x.head)
  BY DEF HeadFits
<1>8. \A S, T : HeadFits(O, S, l, y.head) /\ N(S) = N(T) /\ S \subseteq T => HeadFits(O, T, l, y.head)
  BY DEF HeadFits
<1> HIDE DEF N, m
<1>9. /\ N(C) \subseteq N(A) /\ Cardinality(N(C)) = Cardinality(N(A)) => N(C) = N(A)
      /\ N(C) \subseteq N(B) /\ Cardinality(N(C)) = Cardinality(N(B)) => N(C) = N(B)
      /\ N(A) \subseteq N(B) /\ Cardinality(N(A)) = Cardinality(N(B)) => N(A) = N(B)
      /\ N(B) \subseteq N(A) /\ Cardinality(N(A)) = Cardinality(N(B)) => N(A) = N(B)
  BY <1>1, FS_Subset
<1>10. CASE N(K) = N(B) /\ MergeLine(b, x, y) = y
  <2>1. HeadFits(O, K, l, y.head)
    BY <1>6, <1>8, <1>10
  <2> QED
    BY <2>1, <1>2, <1>6, <1>10 DEF LineFits, N
<1>11. CASE N(K) = N(A) /\ MergeLine(b, x, y) = x
  <2>1. HeadFits(O, K, l, x.head)
    BY <1>6, <1>7, <1>11
  <2> QED
    BY <2>1, <1>2, <1>6, <1>11 DEF LineFits, N
<1>12. CASE x = b
  <2>1. MergeLine(b, x, y) = y
    BY <1>4, <1>12 DEF ThreeWay
  <2>2. N(K) = N(B)
    BY <1>1, <1>6, <1>9, <1>12
  <2> QED
    BY <2>1, <2>2, <1>10
<1>13. CASE x # b /\ (y = b \/ x = y)
  <2>1. MergeLine(b, x, y) = x
    BY <1>4, <1>13 DEF ThreeWay
  <2>2. N(K) = N(A)
    BY <1>1, <1>5, <1>6, <1>9, <1>13
  <2> QED
    BY <2>1, <2>2, <1>11
<1>14. CASE x # b /\ y # b /\ x # y
  <2>1. MergeLine(b, x, y) = m
    BY <1>4, <1>14 DEF ThreeWay
  <2>2. /\ m.coordinator = Owner /\ m.seq = Higher(x.seq, y.seq)
        /\ m.head = ThreeWay(b.head, x.head, y.head, x.head \cup y.head)
    BY <1>2 DEF m, MergeLineState, ThreeWay
  <2>3. \/ m.head = y.head /\ x.head = b.head
        \/ m.head = x.head /\ y.head = b.head
        \/ m.head = x.head /\ x.head = y.head
        \/ m.head = x.head \cup y.head
    BY <2>2 DEF ThreeWay
  <2>4. Cardinality(N(A)) \in Nat /\ Cardinality(N(B)) \in Nat
    BY <1>1, FS_CardinalityType
  <2>5. CASE N(A) \subseteq N(B)
    <3>1. HeadFits(O, K, l, m.head)
      BY <2>3, <2>5, <1>6, MergedHead DEF N
    <3>2. N(K) = N(B) /\ Cardinality(N(A)) <= Cardinality(N(B))
      BY <2>5, <1>1, FS_Subset
    <3>3. m.seq = Cardinality(N(K))
      BY <2>2, <2>4, <3>2, <1>6 DEF Higher
    <3> QED
      BY <2>1, <2>2, <3>1, <3>3 DEF LineFits, N
  <2>6. CASE N(B) \subseteq N(A)
    <3>1. MergeFrame(O, C, B, A)
      BY DEF MergeFrame, Closed
    <3>2. \/ m.head = x.head /\ y.head = b.head
          \/ m.head = y.head /\ x.head = b.head
          \/ m.head = y.head /\ y.head = x.head
          \/ m.head = y.head \cup x.head
      BY <2>3
    <3>3. HeadFits(O, B \cup A, l, m.head)
      BY <3>1, <3>2, <2>6, <1>6, MergedHead DEF N
    <3>4. B \cup A = K
      OBVIOUS
    <3>5. HeadFits(O, K, l, m.head)
      BY <3>3, <3>4
    <3>6. N(K) = N(A) /\ Cardinality(N(B)) <= Cardinality(N(A))
      BY <2>6, <1>1, FS_Subset
    <3>7. m.seq = Cardinality(N(K))
      BY <2>2, <2>4, <3>6, <1>6 DEF Higher
    <3> QED
      BY <2>1, <2>2, <3>5, <3>7 DEF LineFits, N
  <2> QED
    BY <2>5, <2>6, <1>5
<1> QED
  BY <1>12, <1>13, <1>14

\* The merge of two views over one that both have behind them fits what is
\* below either.
LEMMA MergedFits ==
  ASSUME NEW O, NEW C, NEW A, NEW B, MergeFrame(O, C, A, B),
         \A l \in Line : Serial(O, l), NEW b, NEW x, NEW y,
         ViewFits(O, C, b), ViewFits(O, A, x), ViewFits(O, B, y)
  PROVE  ViewFits(O, A \cup B, Merge(b, x, y))
<1> DEFINE m == Merge(b, x, y)
<1>1. /\ {"entities", "lines"} \subseteq DOMAIN m
      /\ m.entities = [e \in Entity |-> MergePointer(b.entities[e], x.entities[e], y.entities[e])]
      /\ m.lines = [l \in Line |-> MergeLine(b.lines[l], x.lines[l], y.lines[l])]
  BY DEF Merge
<1> HIDE DEF m
<1>2. ASSUME NEW n \in Entity PROVE EntityFits(O, A \cup B, n, m.entities[n])
  <2>1. /\ EntityFits(O, C, n, b.entities[n])
        /\ EntityFits(O, A, n, x.entities[n])
        /\ EntityFits(O, B, n, y.entities[n])
    BY DEF ViewFits
  <2>2. EntityFits(O, A \cup B, n, MergePointer(b.entities[n], x.entities[n], y.entities[n]))
    BY <2>1, MergedEntity
  <2> QED
    BY <2>2, <1>1
<1>3. ASSUME NEW l \in Line PROVE LineFits(O, A \cup B, l, m.lines[l])
  <2>1. /\ LineFits(O, C, l, b.lines[l])
        /\ LineFits(O, A, l, x.lines[l])
        /\ LineFits(O, B, l, y.lines[l])
    BY DEF ViewFits
  <2>2. LineFits(O, A \cup B, l, MergeLine(b.lines[l], x.lines[l], y.lines[l]))
    BY <2>1, MergedLine
  <2> QED
    BY <2>2, <1>1
<1>4. ViewFits(O, A \cup B, m)
  BY <1>1, <1>2, <1>3 DEF ViewFits
<1> QED
  BY <1>4 DEF m

\* What some ops reach is closed.
LEMMA ReachClosed ==
  ASSUME TypeOK, Ordered, NEW S, S \subseteq DOMAIN ops, S # {}
  PROVE  Closed(ops, Reach(S))
<1>1. Reach(S) \subseteq DOMAIN ops
  BY DEF Reach, TypeOK
<1>2. IsFiniteSet(Reach(S))
  BY <1>1, OpsFinite
<1>3. 0 \in Reach(S)
  BY DEF Reach, Ordered
<1>4. ASSUME NEW o \in Reach(S)
      PROVE  /\ {0, o} \subseteq ops[o].ancestors /\ ops[o].ancestors \subseteq Reach(S)
             /\ \A a \in ops[o].ancestors : ops[a].ancestors \subseteq ops[o].ancestors
  <2>1. PICK h \in S : o \in ops[h].ancestors
    BY DEF Reach
  <2>2. ops[o].ancestors \subseteq ops[h].ancestors
    BY <2>1 DEF Ordered
  <2> QED
    BY <2>2, <1>1 DEF Ordered, Reach
<1> QED
  BY <1>1, <1>2, <1>3, <1>4 DEF Closed

\* The fold of heads fits all they reach.
LEMMA FoldFits ==
  ASSUME TypeOK, Ordered, VInv, NEW S, S \subseteq DOMAIN ops, S # {}
  PROVE  ViewFits(ops, Reach(S), MergedView(S))
<1>0. MaxOp \in Nat /\ S \subseteq 0..MaxOp
  BY OpLogAssumption DEF TypeOK, OpId
<1>1. PICK f : IsFold(S, f) /\ MergedView(S) = f[MaxOp]
  BY FoldDefined
<1> DEFINE Upto(n) == {m \in S : m <= n}
            Good(n) == Upto(n) # {} => ViewFits(ops, Reach(Upto(n)), f[n])
            T == {n \in 0..MaxOp : ~Good(n)}
<1>2. ASSUME NEW n \in 0..MaxOp, n # 0 => Good(n - 1)
      PROVE  Good(n)
  <2> DEFINE before == IF n = 0 THEN EmptyView ELSE f[n - 1]
              below == {m \in S : m < n}
  <2>1. f[n] = FoldStep(S, n, before)
    BY <1>1 DEF IsFold
  <2>2. below # {} => ViewFits(ops, Reach(below), before)
    <3>1. CASE n = 0
      <4>1. below = {}
        BY <1>0, <3>1
      <4> QED
        BY <4>1
    <3>2. CASE n # 0
      <4>1. below = Upto(n - 1)
        BY <1>0, <3>2
      <4> QED
        BY <1>2, <3>2, <4>1
    <3> QED
      BY <3>1, <3>2
  <2> HIDE DEF before
  <2>3. CASE n \notin S
    <3>1. Upto(n) = below
      BY <1>0, <2>3
    <3>2. f[n] = before
      BY <2>1, <2>3 DEF FoldStep
    <3> QED
      BY <2>2, <3>1, <3>2
  <2>4. CASE n \in S /\ below = {}
    <3>1. Upto(n) = {n}
      BY <1>0, <2>4
    <3>2. f[n] = ops[n].view
      BY <2>1, <2>4 DEF FoldStep
    <3>3. Reach({n}) = ops[n].ancestors
      BY DEF Reach
    <3> HIDE DEF Upto
    <3> QED
      BY <2>4, <3>1, <3>2, <3>3 DEF VInv
  <2>5. CASE n \in S /\ below # {}
    <3>1. Upto(n) = below \cup {n}
      BY <1>0, <2>5
    <3> DEFINE base == LCA(below \cup {n})
    <3>2. base \in CommonAncestors(below \cup {n}) /\ base \in DOMAIN ops
      BY <2>5, LCAIsCommon
    <3>3. f[n] = Merge(ops[base].view, before, ops[n].view)
      BY <2>1, <2>5 DEF FoldStep
    <3> HIDE DEF base
    <3>4. \A o \in below \cup {n} : ops[base].ancestors \subseteq ops[o].ancestors
      BY <2>5, <3>2 DEF CommonAncestors, Ordered
    <3>5. Reach({n}) = ops[n].ancestors /\ Reach({base}) = ops[base].ancestors
      BY DEF Reach
    <3>6. Reach(below \cup {n}) = Reach(below) \cup ops[n].ancestors
      BY DEF Reach
    <3>7. /\ ops[base].ancestors \subseteq Reach(below)
          /\ ops[base].ancestors \subseteq ops[n].ancestors
      BY <2>5, <3>4 DEF Reach
    <3>8. below \subseteq DOMAIN ops /\ {n} \subseteq DOMAIN ops /\ {base} \subseteq DOMAIN ops
      BY <2>5, <3>2
    <3> HIDE DEF below
    <3>9. MergeFrame(ops, ops[base].ancestors, Reach(below), ops[n].ancestors)
      <4>1. Closed(ops, Reach(below))
        BY <2>5, <3>8, ReachClosed
      <4>2. Closed(ops, ops[n].ancestors)
        BY <3>5, <3>8, ReachClosed
      <4>3. Closed(ops, ops[base].ancestors)
        BY <3>5, <3>8, ReachClosed
      <4> QED
        BY <4>1, <4>2, <4>3, <3>7 DEF MergeFrame
    <3>10. /\ ViewFits(ops, ops[base].ancestors, ops[base].view)
           /\ ViewFits(ops, ops[n].ancestors, ops[n].view)
           /\ \A l \in Line : Serial(ops, l)
      BY <3>8 DEF VInv
    <3>11. ViewFits(ops, Reach(below), before)
      BY <2>2, <2>5 DEF below
    <3>12. ViewFits(ops, Reach(below) \cup ops[n].ancestors, f[n])
      BY <3>3, <3>9, <3>10, <3>11, MergedFits
    <3> HIDE DEF Upto
    <3>13. ViewFits(ops, Reach(Upto(n)), f[n])
      BY <3>1, <3>6, <3>12
    <3> QED
      BY <3>13
  <2> QED
    BY <2>3, <2>4, <2>5 DEF below
<1> HIDE DEF Good
<1>3. T = {}
  <2> SUFFICES ASSUME T # {} PROVE FALSE
    OBVIOUS
  <2>1. PICK n \in T : \A j \in T : n <= j
    <3>1. T \in SUBSET Nat
      BY <1>0
    <3> HIDE DEF T
    <3> QED
      BY <3>1, LeastNatural
  <2>2. n # 0 => n - 1 \in 0..MaxOp /\ n - 1 \notin T
    BY <1>0, <2>1
  <2> QED
    BY <1>2, <2>1, <2>2
<1>4. Good(MaxOp) /\ Upto(MaxOp) = S
  BY <1>0, <1>3
<1> HIDE DEF Upto
<1> QED
  BY <1>1, <1>4 DEF Good

-----------------------------------------------------------------------------
\* What verbs and undos put into an op: a new version, or one that the undone
\* op replaced; a landing names itself.
Fits(K, id, e) ==
  /\ e.kind \in {"point", "unpoint", "revoke", "pause", "resume", "head"}
  /\ e.kind \in {"point", "unpoint"} => e.entity \in Entity
  /\ e.kind = "point" => e.to \in K \cup {id}
  /\ e.kind = "head" => e.line \in Line /\ e.to = id

LEMMA WrittenFits ==
  ASSUME NEW p, NEW v, NEW id, NEW e \in EffectsOn(p, v, id), NEW K
  PROVE  Fits(K, id, e)
BY DEF EffectsOn, Fits

LEMMA UndoneFits ==
  ASSUME TypeOK, VInv, NEW K, NEW t \in K, t \in DOMAIN ops, ops[t].ancestors \subseteq K,
         NEW v, NEW id, NEW e \in InverseOf(v, ops[t])
  PROVE  Fits(K, id, e) /\ e.kind # "head"
<1>1. EffectFits(ops, t)
  BY DEF VInv
<1> DEFINE d == ops[t].effect
<1>2. \/ e.kind \in {"pause", "resume"}
      \/ d.kind = "point" /\ e.kind = "unpoint" /\ e.entity = d.entity
      \/ d.kind = "point" /\ e.kind = "point" /\ e.entity = d.entity /\ e.to \in d.from
  BY DEF InverseOf
<1>3. d.kind = "point" => d.entity \in Entity /\ d.from \subseteq K
  BY <1>1 DEF EffectFits
<1> HIDE DEF d
<1> QED
  BY <1>2, <1>3 DEF Fits

\* Log P continues O with an op on top of all of K.
Extends(O, P, K, id, e) ==
  /\ IsFiniteSet(K) /\ id \notin K
  /\ \A o \in K : P[o] = O[o]
  /\ P[id].ancestors = {id} \cup K /\ P[id].effect = e

\* A view that fits all a replica knows fits that and the next op, once the
\* op's effect is applied.
LEMMA AppliedFits ==
  ASSUME NEW O, NEW P, NEW K, NEW id, NEW e, Extends(O, P, K, id, e),
         NEW v, ViewFits(O, K, v), Fits(K, id, e),
         e.kind = "head" => e.seq = v.lines[e.line].seq + 1
  PROVE  /\ ViewFits(P, {id} \cup K, Apply(v, e))
         /\ e.kind = "head" => e.seq = Cardinality(LandsIn(P, {id} \cup K, e.line))
<1> DEFINE w == Apply(v, e)
            J == {id} \cup K
<1>0. /\ IsFiniteSet(K) /\ id \notin K
      /\ \A o \in K : P[o] = O[o]
      /\ P[id].ancestors = {id} \cup K /\ P[id].effect = e
  BY DEF Extends
<1>1. ViewFits(P, K, v)
  BY <1>0, StillFits
<1>2. /\ {"entities", "lines"} \subseteq DOMAIN v
      /\ DOMAIN v.entities = Entity /\ DOMAIN v.lines = Line
      /\ \A n \in Entity : EntityFits(P, K, n, v.entities[n])
      /\ \A l \in Line : LineFits(P, K, l, v.lines[l])
  BY <1>1 DEF ViewFits
<1>3. \A l \in Line : v.lines[l] # NoLine
  BY <1>2, OpLogAssumption, ViewAssumption DEF LineFits, NoLine
<1>4. /\ {"entities", "lines"} \subseteq DOMAIN w
      /\ DOMAIN w.entities = Entity /\ DOMAIN w.lines = Line
      /\ \A n \in Entity :
           /\ e.kind = "point" /\ e.entity = n => w.entities[n] = {e.to}
           /\ ~(e.kind \in {"point", "unpoint"} /\ e.entity = n) => w.entities[n] = v.entities[n]
           /\ e.kind = "unpoint" /\ e.entity = n => w.entities[n] = {}
      /\ \A l \in Line :
           /\ ~(e.kind = "head" /\ e.line = l) => w.lines[l] = v.lines[l]
           /\ e.kind = "head" /\ e.line = l => w.lines[l] = AdvanceLine(v, e.to, e.seq, v.lines[l])
  BY <1>2 DEF Apply, Fits
<1> HIDE DEF w
<1>5. ASSUME NEW n \in Entity PROVE EntityFits(P, J, n, w.entities[n])
  <2>1. EntityFits(P, K, n, v.entities[n])
    BY <1>2
  <2>2. Removed(P, K, n) => Removed(P, J, n)
    BY DEF Removed
  <2>3. \A o : Superseded(P, K, n, o) => Superseded(P, J, n, o)
    BY DEF Superseded
  <2>4. CASE e.kind = "point" /\ e.entity = n
    <3>1. w.entities[n] = {e.to} /\ e.to \in J
      BY <2>4, <1>4 DEF Fits
    <3>2. ASSUME NEW o \in Created(P, J, n) PROVE o \in {e.to} \/ Superseded(P, J, n, o)
      <4>1. CASE o = id
        BY <4>1, <1>0 DEF Created
      <4>2. CASE o # id
        <5>1. o \in K
          BY <4>2 DEF Created
        <5>2. Moves(P, id, n) /\ o \in P[id].ancestors /\ id \in J \ {o}
          BY <2>4, <4>2, <5>1, <1>0 DEF Moves
        <5> QED
          BY <5>2 DEF Superseded
      <4> QED
        BY <4>1, <4>2
    <3> QED
      BY <3>1, <3>2 DEF EntityFits
  <2>5. CASE e.kind = "unpoint" /\ e.entity = n
    BY <2>5, <1>0, <1>4 DEF EntityFits, Removed
  <2>6. CASE ~(e.kind \in {"point", "unpoint"} /\ e.entity = n)
    <3>1. w.entities[n] = v.entities[n]
      BY <2>6, <1>4
    <3>2. Created(P, J, n) = Created(P, K, n)
      BY <2>6, <1>0 DEF Created
    <3> QED
      BY <3>1, <3>2, <2>1, <2>2, <2>3 DEF EntityFits
  <2> QED
    BY <2>4, <2>5, <2>6
<1>6. ASSUME NEW l \in Line
      PROVE  /\ LineFits(P, J, l, w.lines[l])
             /\ e.kind = "head" /\ e.line = l => e.seq = Cardinality(LandsIn(P, J, l))
  <2>1. LineFits(P, K, l, v.lines[l])
    BY <1>2
  <2>2. CASE ~(e.kind = "head" /\ e.line = l)
    <3>1. w.lines[l] = v.lines[l]
      BY <2>2, <1>4
    <3>2. LandsIn(P, J, l) = LandsIn(P, K, l)
      BY <2>2, <1>0 DEF LandsIn
    <3> QED
      BY <3>1, <3>2, <2>1, <2>2 DEF LineFits, HeadFits
  <2>3. CASE e.kind = "head" /\ e.line = l
    <3>1. LandsIn(P, J, l) = LandsIn(P, K, l) \cup {id} /\ id \notin LandsIn(P, K, l)
      BY <2>3, <1>0 DEF LandsIn
    <3>2. IsFiniteSet(LandsIn(P, K, l))
      <4>1. LandsIn(P, K, l) \subseteq K
        BY DEF LandsIn
      <4> QED
        BY <4>1, <1>0, FS_Subset
    <3>3. Cardinality(LandsIn(P, J, l)) = Cardinality(LandsIn(P, K, l)) + 1
      BY <3>1, <3>2, FS_AddElement
    <3>4. e.seq = Cardinality(LandsIn(P, J, l))
      BY <2>1, <2>3, <3>3 DEF LineFits
    <3>5. w.lines[l] = AdvanceLine(v, id, e.seq, v.lines[l])
      BY <2>3, <1>4 DEF Fits
    <3>6. /\ w.lines[l].head = {id} /\ w.lines[l].seq = e.seq
          /\ w.lines[l].coordinator = v.lines[l].coordinator
      BY <3>5, <1>3 DEF AdvanceLine
    <3>7. HeadFits(P, J, l, {id})
      <4>1. id \in LandsIn(P, J, l) /\ LandsIn(P, J, l) \subseteq P[id].ancestors
        BY <3>1, <1>0 DEF LandsIn
      <4> QED
        BY <4>1 DEF HeadFits
    <3> QED
      BY <2>1, <3>4, <3>6, <3>7 DEF LineFits
  <2> QED
    BY <2>2, <2>3
<1>7. ViewFits(P, J, w)
  BY <1>4, <1>5, <1>6 DEF ViewFits
<1>8. e.kind = "head" => e.seq = Cardinality(LandsIn(P, J, e.line))
  BY <1>6 DEF Fits
<1> QED
  BY <1>7, <1>8 DEF w

\* A replica's view accounts for every op it knows.
LEMMA CurrentFits ==
  ASSUME IInv, RInv, VInv, NEW r \in Replica
  PROVE  ViewFits(ops, known[r], CurrentView(r))
<1>1. /\ heads[r] \subseteq known[r] /\ known[r] \subseteq DOMAIN ops /\ 0 \in known[r]
      /\ Reach(heads[r]) = known[r]
  BY DEF IInv, TypeOK, HeadsAreFrontier, ReopenRestores, RInv
<1>2. heads[r] # {} /\ heads[r] \subseteq DOMAIN ops
  BY <1>1 DEF Reach
<1> QED
  BY <1>1, <1>2, FoldFits DEF CurrentView, IInv, RInv

\* An op built on a replica's heads accounts for its ancestors, and follows
\* every landing when it is one.
LEMMA CommitKeepsVInv ==
  ASSUME IInv, RInv, VInv, NEW p \in Principal, NEW k \in Key, NEW id \in OpId \ DOMAIN ops,
         NEW e, Fits(known[Host[p]], id, e), NEW verb, Commit(p, k, id, e, verb)
  PROVE  VInv'
<1> DEFINE r == Host[p]
            op == BuildOp(r, p, k, id, e, verb)
            v == CurrentView(r)
<1>0. r \in Replica /\ Host[Owner] \in Replica
  BY OpLogAssumption
<1>1. /\ ops' = [o \in DOMAIN ops \cup {id} |-> IF o = id THEN op ELSE ops[o]]
      /\ Legal(v, op)
  BY DEF Commit, Accept, Verified, BuildOp, CurrentView
<1>2. /\ op.ancestors = {id} \cup known[r] /\ op.effect = e /\ op.author = p
      /\ op.view = Apply(v, e)
  BY <1>0 DEF BuildOp, IInv, ReopenRestores
<1>3. ViewFits(ops, known[r], v)
  BY <1>0, CurrentFits
<1> HIDE DEF op, r, v
<1>4. /\ DOMAIN ops' = DOMAIN ops \cup {id} /\ ops'[id] = op
      /\ \A o \in DOMAIN ops : ops'[o] = ops[o]
      /\ known[r] \subseteq DOMAIN ops /\ id \notin DOMAIN ops
      /\ \A o \in DOMAIN ops : ops[o].ancestors \subseteq DOMAIN ops
  BY <1>0, <1>1 DEF IInv, TypeOK
<1>5. /\ e.kind = "point" => e.from = v.entities[e.entity]
      /\ e.kind = "head" => /\ v.lines[e.line].coordinator = p
                            /\ e.seq = v.lines[e.line].seq + 1
  BY <1>1, <1>2 DEF Legal, PointLegal, HeadLegal
<1>6. IsFiniteSet(known[r])
  BY <1>4, OpsFinite DEF IInv
<1>7. Fits(known[r], id, e)
  BY DEF r
<1>8. /\ ViewFits(ops', op.ancestors, op.view)
      /\ e.kind = "head" => e.seq = Cardinality(LandsIn(ops', op.ancestors, e.line))
  <2>1. Extends(ops, ops', known[r], id, e)
    BY <1>2, <1>4, <1>6 DEF Extends
  <2>2. /\ ViewFits(ops', {id} \cup known[r], Apply(v, e))
        /\ e.kind = "head" => e.seq = Cardinality(LandsIn(ops', {id} \cup known[r], e.line))
    BY <1>3, <1>5, <1>7, <2>1, AppliedFits
  <2> QED
    BY <2>2, <1>2
<1>9. e.kind = "head" => p = Owner
  BY <1>3, <1>5, <1>7 DEF ViewFits, LineFits, Fits
<1>10. EffectFits(ops', id)
  <2>1. e.kind = "point" => e.entity \in Entity /\ e.from \subseteq op.ancestors
    BY <1>2, <1>3, <1>5, <1>7 DEF ViewFits, EntityFits, Fits
  <2>2. e.kind = "head" => e.line \in Line
    BY <1>7 DEF Fits
  <2> QED
    BY <1>2, <1>4, <1>8, <1>9, <2>1, <2>2 DEF EffectFits
<1>11. ASSUME NEW o \in DOMAIN ops
       PROVE  ViewFits(ops', ops'[o].ancestors, ops'[o].view) /\ EffectFits(ops', o)
  <2>1. /\ ViewFits(ops, ops[o].ancestors, ops[o].view) /\ EffectFits(ops, o)
        /\ ops'[o] = ops[o]
    BY <1>4 DEF VInv
  <2>2. \A q \in ops[o].ancestors : ops'[q] = ops[q]
    BY <1>4
  <2>3. \A l : LandsIn(ops', ops[o].ancestors, l) = LandsIn(ops, ops[o].ancestors, l)
    BY <2>2 DEF LandsIn
  <2>4. ViewFits(ops', ops[o].ancestors, ops[o].view)
    BY <2>1, <2>2, StillFits
  <2>5. EffectFits(ops', o)
    BY <2>1, <2>3 DEF EffectFits
  <2> QED
    BY <2>1, <2>4, <2>5
<1>12. ASSUME NEW l \in Line PROVE Serial(ops', l)
  <2> SUFFICES ASSUME NEW a \in LandsIn(ops', DOMAIN ops', l), NEW b \in LandsIn(ops', DOMAIN ops', l)
               PROVE  a \in ops'[b].ancestors \/ b \in ops'[a].ancestors
    BY DEF Serial
  <2>1. CASE a # id /\ b # id
    <3>1. a \in LandsIn(ops, DOMAIN ops, l) /\ b \in LandsIn(ops, DOMAIN ops, l)
      BY <2>1, <1>4 DEF LandsIn
    <3>2. a \in ops[b].ancestors \/ b \in ops[a].ancestors
      BY <3>1 DEF VInv, Serial
    <3>3. ops'[a] = ops[a] /\ ops'[b] = ops[b]
      BY <3>1, <1>4 DEF LandsIn
    <3> QED
      BY <3>2, <3>3
  <2>2. ASSUME e.kind = "head", NEW c \in LandsIn(ops', DOMAIN ops', l), c # id
        PROVE  c \in op.ancestors
    <3>1. c \in DOMAIN ops /\ ops[c].effect.kind = "head"
      BY <2>2, <1>4 DEF LandsIn
    <3>2. ops[c].author = Owner
      BY <3>1 DEF VInv, EffectFits
    <3>3. r = Host[Owner]
      BY <1>9, <2>2 DEF r
    <3>4. c = 0 \/ c \in known[r]
      BY <3>1, <3>2, <3>3 DEF IInv, AuthorKnows
    <3>5. 0 \in known[r]
      BY <1>0 DEF RInv
    <3> QED
      BY <3>4, <3>5, <1>2
  <2>3. CASE a = id /\ b # id
    <3>1. e.kind = "head"
      BY <2>3, <1>2, <1>4 DEF LandsIn
    <3> QED
      BY <3>1, <2>2, <2>3, <1>4
  <2>4. CASE b = id /\ a # id
    <3>1. e.kind = "head"
      BY <2>4, <1>2, <1>4 DEF LandsIn
    <3> QED
      BY <3>1, <2>2, <2>4, <1>4
  <2>5. CASE a = id /\ b = id
    BY <2>5, <1>2, <1>4
  <2> QED
    BY <2>1, <2>3, <2>4, <2>5
<1>13. ViewFits(ops', ops'[id].ancestors, ops'[id].view)
  BY <1>4, <1>8
<1> QED
  BY <1>4, <1>10, <1>11, <1>12, <1>13 DEF VInv

LEMMA StepVInv == IInv /\ RInv /\ VInv /\ [Next]_vars => VInv'
<1> SUFFICES ASSUME IInv, RInv, VInv, [Next]_vars PROVE VInv'
  OBVIOUS
<1>1. ASSUME NEW p \in Principal, NEW k \in Key, NEW id \in OpId, Write(p, k, id)
      PROVE  VInv'
  BY <1>1, WrittenFits, CommitKeepsVInv DEF Write
<1>2. ASSUME NEW p \in Principal, NEW k \in Key, NEW id \in OpId, NEW t \in DOMAIN ops,
             Undo(p, k, id, t)
      PROVE  VInv'
  <2>1. Host[p] \in Replica /\ t \in known[Host[p]] /\ id \notin DOMAIN ops
    BY <1>2, OpLogAssumption DEF Undo
  <2>2. ops[t].ancestors \subseteq known[Host[p]]
    BY <2>1 DEF IInv, TypeOK
  <2>3. PICK e \in InverseOf(CurrentView(Host[p]), ops[t]) : Commit(p, k, id, e, "undo")
    BY <1>2 DEF Undo
  <2>4. Fits(known[Host[p]], id, e)
    BY <2>1, <2>2, UndoneFits DEF IInv
  <2> QED
    BY <2>1, <2>3, <2>4, CommitKeepsVInv
<1>3. ASSUME ops' = ops PROVE VInv'
  BY <1>3 DEF VInv
<1> QED
  BY <1>1, <1>2, <1>3 DEF Next, Deliver, Reopen, vars

LEMMA InitVInv == Init => VInv
<1> SUFFICES ASSUME Init PROVE VInv
  OBVIOUS
<1>1. DOMAIN ops = {0} /\ ops[0] = InitOp
  BY DEF Init
<1>2. InitOp.effect.kind = "init" /\ InitOp.ancestors = {0}
  BY DEF InitOp
<1>3. /\ {"entities", "lines"} \subseteq DOMAIN InitOp.view
      /\ InitOp.view.entities = [e \in Entity |-> {0}]
      /\ InitOp.view.lines = [l \in Line |-> [head |-> {0}, seq |-> 0, coordinator |-> Owner]]
  BY DEF InitOp, EmptyView
<1>4. \A l : LandsIn(ops, {0}, l) = {}
  BY <1>1, <1>2 DEF LandsIn
<1>5. \A n \in Entity : EntityFits(ops, {0}, n, {0})
  BY <1>1, <1>2 DEF EntityFits, Created
<1>6. \A l \in Line : LineFits(ops, {0}, l, [head |-> {0}, seq |-> 0, coordinator |-> Owner])
  BY <1>4, FS_EmptySet DEF LineFits, HeadFits
<1>7. ViewFits(ops, {0}, InitOp.view)
  BY <1>3, <1>5, <1>6 DEF ViewFits
<1>8. EffectFits(ops, 0)
  BY <1>1, <1>2 DEF EffectFits
<1>9. \A l : Serial(ops, l)
  BY <1>1, <1>4 DEF Serial
<1> QED
  BY <1>1, <1>2, <1>7, <1>8, <1>9 DEF VInv

\* A version a writer created is in the view, or was seen by an op that moved
\* the entity on, or the entity was removed: no merge of heads drops it, in
\* whatever order the ops crossed and whichever common ancestor is taken.
THEOREM NoVersionLost == Spec => []NewVersionsAccounted
<1>1. IInv /\ RInv /\ VInv => NewVersionsAccounted
  <2> SUFFICES ASSUME IInv, RInv, VInv, NEW r \in Replica, NEW o \in known[r],
                      ops[o].effect.kind = "point", ops[o].effect.to = o
               PROVE  Accounted(r, o)
    BY DEF NewVersionsAccounted
  <2> DEFINE n == ops[o].effect.entity
  <2>1. o \in DOMAIN ops
    BY DEF IInv, TypeOK
  <2>2. n \in Entity
    BY <2>1 DEF VInv, EffectFits
  <2>3. EntityFits(ops, known[r], n, CurrentView(r).entities[n])
    BY <2>2, CurrentFits DEF ViewFits
  <2>4. o \in Created(ops, known[r], n)
    BY DEF Created
  <2>5. \/ o \in CurrentView(r).entities[n]
        \/ Superseded(ops, known[r], n, o)
        \/ Removed(ops, known[r], n)
    BY <2>3, <2>4 DEF EntityFits
  <2> QED
    BY <2>5 DEF Accounted, Superseded, Removed, Moves, Touches
<1> QED
  BY <1>1, Inductive, InitRInv, InitVInv, StepRInv, StepVInv, PTL DEF Spec

\* However a line's landings and the ops of others cross, the line's number
\* counts the landings and its head holds the newest.
THEOREM LandingsKept == Spec => []NewestLandingKept
<1>1. IInv /\ RInv /\ VInv => NewestLandingKept
  <2> SUFFICES ASSUME IInv, RInv, VInv, NEW r \in Replica, NEW l \in Line
               PROVE  LET line == CurrentView(r).lines[l]
                      IN /\ line.seq = Cardinality(Landings(r, l))
                         /\ \A o \in Landings(r, l) :
                              ops[o].effect.seq = line.seq
                                => o \in line.head /\ line.head \subseteq ops[o].ancestors
    BY DEF NewestLandingKept
  <2> DEFINE line == CurrentView(r).lines[l]
              M == LandsIn(ops, known[r], l)
  <2>1. Landings(r, l) = M
    BY DEF Landings, LandsIn
  <2>2. LineFits(ops, known[r], l, line)
    BY CurrentFits DEF ViewFits
  <2>3. ASSUME NEW o \in M, ops[o].effect.seq = line.seq
        PROVE  o \in line.head /\ line.head \subseteq ops[o].ancestors
    <3>1. PICK t \in M : /\ M \subseteq ops[t].ancestors
                         /\ t \in line.head /\ line.head \subseteq ops[t].ancestors
      BY <2>2 DEF LineFits, HeadFits
    <3> DEFINE B == LandsIn(ops, ops[o].ancestors, l)
    <3>2. o \in known[r] /\ o \in DOMAIN ops /\ t \in DOMAIN ops
      BY DEF LandsIn, IInv, TypeOK
    <3>3. Cardinality(B) = Cardinality(M)
      BY <2>2, <2>3, <3>2 DEF VInv, EffectFits, LandsIn, LineFits
    <3>4. B \subseteq M /\ M \subseteq known[r]
      BY <3>2 DEF LandsIn, IInv, TypeOK
    <3>5. IsFiniteSet(M)
      <4>1. M \subseteq DOMAIN ops
        BY <3>4 DEF IInv, TypeOK
      <4> QED
        BY <4>1, OpsFinite DEF IInv
    <3> HIDE DEF M, B, line
    <3>6. B = M
      BY <3>3, <3>4, <3>5, FS_Subset
    <3>7. t \in ops[o].ancestors
      BY <3>6 DEF B, LandsIn
    <3>8. t = o
      BY <3>1, <3>2, <3>7 DEF RInv, Ordered
    <3> QED
      BY <3>1, <3>8
  <2> QED
    BY <2>1, <2>2, <2>3 DEF LineFits
<1> QED
  BY <1>1, Inductive, InitRInv, InitVInv, StepRInv, StepVInv, PTL DEF Spec
=============================================================================
