-------------------------------- MODULE OpLog --------------------------------
(***************************************************************************)
(* The operation log of crates/tessra-oplog: a DAG of signed ops kept by   *)
(* every replica of a repository, the merged view at its heads, and        *)
(* acceptance of ops that arrive in any order the parents allow, any       *)
(* number of times.                                                        *)
(*                                                                         *)
(* An op is named by its ID, a hash: the order of two IDs says nothing     *)
(* about the order of the ops, so an op takes any unused ID.  Op 0 is      *)
(* init.  Each op carries one effect that reaches the view.  A version an  *)
(* op creates is named by the op; version 0 is what init created.  `prev`  *)
(* is the prev field of a version, {} when it has none.  An op's ancestors *)
(* are fixed when it is built; the code finds them by walking parents.     *)
(* Signatures, capabilities and key rotation are not modelled: only the    *)
(* owner and revocation decide who may write.                              *)
(***************************************************************************)
EXTENDS ViewMerge

CONSTANTS
  Replica,     \* stores of one repository
  Host,        \* Host[p]: the replica whose daemon holds the key of p
  Owner,       \* the principal init made owner and coordinator
  Key,         \* idempotency keys
  Change,      \* entities whose versions are revisions; the rest are memories and the like
  Repertoire,  \* what occurs together: kinds of effects, who writes them, how many ops
  MaxOp        \* the largest number of ops after init

OpId == 1..MaxOp

ASSUME OpLogAssumption ==
  /\ MaxOp \in Nat
  /\ Id = OpId
  /\ Owner \in Principal
  /\ Host \in [Principal -> Replica]
  /\ Change \subseteq Entity

VARIABLES
  ops,    \* every op built anywhere, by ID
  known,  \* known[r]: the ops r has verified and stored
  heads,  \* heads[r]: the heads of r's DAG
  idem    \* idem[r]: r's index of (author, idempotency key)

vars == <<ops, known, heads, idem>>

-----------------------------------------------------------------------------
\* The view init leaves: every entity at its first version, trunk at seq 0.
InitOp ==
  [author |-> Owner, verb |-> "init", key |-> {}, parents |-> {}, ancestors |-> {0},
   effect |-> [kind |-> "init"],
   view |-> [EmptyView EXCEPT !.entities = [e \in Entity |-> {0}],
                              !.owners = {Owner},
                              !.lines = [l \in Line |->
                                 [head |-> {0}, seq |-> 0, coordinator |-> Owner]]]]

\* Every op the ops of S descend from, themselves included.
Reach(S) == UNION {ops[o].ancestors : o \in S}

\* The latest common ancestor: common to all, ancestor of no other that is;
\* ties break on the lowest ID.  Init is common to every set.
CommonAncestors(S) == {a \in Reach(S) : \A o \in S : a \in ops[o].ancestors}

Latest(S) ==
  {a \in CommonAncestors(S) :
     \A b \in CommonAncestors(S) \ {a} : a \notin ops[b].ancestors}

LCA(S) == CHOOSE a \in Latest(S) : \A b \in Latest(S) : a <= b

\* The heads folded pairwise in ascending ID, each time over the latest
\* common ancestor of all folded so far.
MergedView(S) ==
  LET fold[n \in 0..MaxOp] ==
        LET below == {m \in S : m < n}
            before == IF n = 0 THEN EmptyView ELSE fold[n - 1]
        IN CASE n \notin S -> before
             [] n \in S /\ below = {} -> ops[n].view
             [] OTHER -> Merge(ops[LCA(below \cup {n})].view, before, ops[n].view)
  IN fold[MaxOp]

CurrentView(r) == MergedView(heads[r])

PrevOf(version) == IF version = 0 THEN {} ELSE ops[version].effect.prev

-----------------------------------------------------------------------------
(***************************************************************************)
(* Verification (verify.rs).  v is the merged view of the op's parents, c  *)
(* the receiver's current view.                                            *)
(***************************************************************************)
OwnerOnly == {"unpoint", "revoke", "pause", "resume"}

\* Step 6.  Agents hold no capability for the verbs of these effects, but an
\* undo needs none.
Authorized(v, op) ==
  op.verb = "undo" \/ op.effect.kind \notin OwnerOnly \/ op.author \in v.owners

\* Step 7.  A point is a compare-and-set on what the author saw, and a new
\* revision names the version it replaces, unless that is a conflict.
PointLegal(v, e) ==
  /\ e.from = v.entities[e.entity]
  /\ e.entity \in Change /\ Cardinality(e.from) = 1 => e.prev = e.from

\* Faulty variant of HeadLegal: any author moves a line.
HeadLegalForAll(v, author, e) ==
  e.from = v.lines[e.line].head /\ e.seq = v.lines[e.line].seq + 1

HeadLegal(v, author, e) ==
  /\ v.lines[e.line].coordinator = author
  /\ e.from = v.lines[e.line].head
  /\ e.seq = v.lines[e.line].seq + 1

Legal(v, op) ==
  /\ op.effect.kind = "point" => PointLegal(v, op.effect)
  /\ op.effect.kind = "head" => HeadLegal(v, op.author, op.effect)

NotRevoked(c, author) == author \notin c.revoked

\* Faulty variant of Verified: the author is checked at the op's parents only.
VerifiedAtParents(r, op) ==
  LET v == MergedView(op.parents)
  IN NotRevoked(v, op.author) /\ Authorized(v, op) /\ Legal(v, op)

\* Revocation is checked at the receiver's view (step 4), the rest at the
\* view the author saw.
Verified(r, op) ==
  LET v == MergedView(op.parents)
  IN NotRevoked(CurrentView(r), op.author) /\ Authorized(v, op) /\ Legal(v, op)

\* Faulty variant of NextHeads: every earlier head is dropped.
HeadsOnlyNew(old, id, parents) == {id}

NextHeads(old, id, parents) == (old \ parents) \cup {id}

\* Faulty variant of LookupIdem: a repeated idempotency key is not looked up
NoLookup(r, op) == FALSE

LookupIdem(r, op) == <<op.author, op.key>> \in idem[r]

\* Faulty variant of Accept: an op is taken before its parents are here.
AcceptOrphan(r, id, op) ==
  /\ ~LookupIdem(r, op)
  /\ Verified(r, op)
  /\ known' = [known EXCEPT ![r] = @ \cup {id}]
  /\ heads' = [heads EXCEPT ![r] = NextHeads(@, id, op.parents)]
  /\ idem' = [idem EXCEPT ![r] = @ \cup {<<op.author, op.key>>}]

\* OpLog::accept.  A known (author, key) answers with the earlier op and
\* changes nothing, as does an op that fails; both are stuttering steps.
Accept(r, id, op) ==
  /\ ~LookupIdem(r, op)
  /\ op.parents \subseteq known[r]
  /\ Verified(r, op)
  /\ known' = [known EXCEPT ![r] = @ \cup {id}]
  /\ heads' = [heads EXCEPT ![r] = NextHeads(@, id, op.parents)]
  /\ idem' = [idem EXCEPT ![r] = @ \cup {<<op.author, op.key>>}]

-----------------------------------------------------------------------------
(***************************************************************************)
(* Writing.                                                                *)
(***************************************************************************)

\* Kinds of effects, "undo" for any an undo makes, are written together with
\* those of one repertoire, by its writers and at their replicas.
Used == {ops[o].effect.kind : o \in {n \in DOMAIN ops : ops[n].verb = "write"}}
          \cup (IF \E o \in DOMAIN ops : ops[o].verb = "undo" THEN {"undo"} ELSE {})

Together(p, kinds, ids) ==
  LET used    == Used \cup kinds
      writers == {p} \cup {ops[o].author : o \in DOMAIN ops \ {0}}
      reached == {r \in Replica : known[r] # {0}}
  IN \E x \in Repertoire :
       /\ used \subseteq x.kinds /\ writers \subseteq x.writers
       /\ DOMAIN ops \cup ids \subseteq 0..x.ops
       /\ reached \subseteq {Host[q] : q \in x.writers}

\* The effects a writer builds on view v: `from` is what it saw.  A new
\* version names the one it replaces as prev; a conflict is resolved by a new
\* version made from one of its sides; a line whose head is a conflict is not
\* landed on (trunk_head).
EffectsOn(p, v, id) ==
  LET of(kind, effects) == IF Together(p, {kind}, {id}) THEN effects ELSE {}
      fresh(n) == IF v.entities[n] = {} THEN {{}} ELSE {{c} : c \in v.entities[n]}
  IN UNION {
    of("point", UNION {{[kind |-> "point", entity |-> n, to |-> id,
                         from |-> v.entities[n], prev |-> q] : q \in fresh(n)} :
                       n \in Entity}),
    of("unpoint", {[kind |-> "unpoint", entity |-> n] :
                     n \in {m \in Entity : v.entities[m] # {}}}),
    of("revoke", {[kind |-> "revoke", principal |-> q] : q \in Principal \ {Owner}}),
    of("pause", {[kind |-> "pause", scope |-> s] : s \in Scope \ v.paused}),
    of("resume", {[kind |-> "resume", scope |-> s] : s \in v.paused}),
    of("head", {[kind |-> "head", line |-> l, to |-> id, from |-> v.lines[l].head,
                 seq |-> v.lines[l].seq + 1] :
                   l \in {m \in Line : Cardinality(v.lines[m].head) = 1}}) }

\* build_op: an op on all current heads of the author's replica, its view
\* the merged view with the effect applied.
BuildOp(r, p, k, id, e, verb) ==
  [author |-> p, verb |-> verb, key |-> {k}, parents |-> heads[r],
   ancestors |-> {id} \cup Reach(heads[r]),
   effect |-> e, view |-> Apply(CurrentView(r), e)]

Commit(p, k, id, e, verb) ==
  LET op == BuildOp(Host[p], p, k, id, e, verb)
  IN /\ Accept(Host[p], id, op)
     /\ ops' = [o \in DOMAIN ops \cup {id} |-> IF o = id THEN op ELSE ops[o]]

Write(p, k, id) ==
  /\ id \notin DOMAIN ops
  /\ \E e \in EffectsOn(p, CurrentView(Host[p]), id) : Commit(p, k, id, e, "write")

\* undo_as: the inverse of an op of one's own, refused when the pointer has
\* moved on, when the op resolved a conflict, and for heads and revocations.
InverseOf(v, op) ==
  LET e == op.effect IN
  CASE e.kind = "point" /\ v.entities[e.entity] = {e.to} /\ e.from = {} ->
         {[kind |-> "unpoint", entity |-> e.entity]}
    [] e.kind = "point" /\ v.entities[e.entity] = {e.to} /\ Cardinality(e.from) = 1 ->
         {[kind |-> "point", entity |-> e.entity, to |-> c, from |-> {e.to},
           prev |-> PrevOf(c)] : c \in e.from}
    [] e.kind = "pause" -> {[kind |-> "resume", scope |-> e.scope]}
    [] e.kind = "resume" -> {[kind |-> "pause", scope |-> e.scope]}
    [] OTHER -> {}

Undo(p, k, id, target) ==
  /\ Together(p, {"undo"}, {id})
  /\ id \notin DOMAIN ops
  /\ target \in known[Host[p]] /\ ops[target].author = p
  /\ \E e \in InverseOf(CurrentView(Host[p]), ops[target]) : Commit(p, k, id, e, "undo")

\* An op arrives at a replica: from any other, in any order, any number of
\* times.
Deliver(r, id) ==
  /\ \E p \in Principal : Host[p] = r /\ Together(p, {}, {})
  /\ Accept(r, id, ops[id])
  /\ UNCHANGED ops

\* OpLog::open: what is in memory is rebuilt by walking parents from the
\* stored heads.
Reopen(r) ==
  /\ known' = [known EXCEPT ![r] = Reach(heads[r])]
  /\ idem' = [idem EXCEPT ![r] =
                {<<ops[o].author, ops[o].key>> : o \in Reach(heads[r]) \ {0}}]
  /\ UNCHANGED <<ops, heads>>

Init ==
  /\ ops = [o \in {0} |-> InitOp]
  /\ known = [r \in Replica |-> {0}]
  /\ heads = [r \in Replica |-> {0}]
  /\ idem = [r \in Replica |-> {}]

Next ==
  \/ \E p \in Principal, k \in Key, id \in OpId : Write(p, k, id)
  \/ \E p \in Principal, k \in Key, id \in OpId, t \in DOMAIN ops : Undo(p, k, id, t)
  \/ \E r \in Replica, id \in DOMAIN ops \ {0} : Deliver(r, id)
  \/ \E r \in Replica : Reopen(r)

Spec == Init /\ [][Next]_vars

-----------------------------------------------------------------------------
(***************************************************************************)
(* Properties.                                                             *)
(***************************************************************************)

\* A replica holds no op without everything it descends from.
TypeOK ==
  /\ 0 \in DOMAIN ops /\ DOMAIN ops \subseteq {0} \cup OpId
  /\ \A o \in DOMAIN ops :
       /\ ops[o].author \in Principal
       /\ ops[o].key \in SUBSET Key
       /\ ops[o].parents \subseteq DOMAIN ops
       /\ ops[o].ancestors \subseteq DOMAIN ops
  /\ known \in [Replica -> SUBSET DOMAIN ops]
  /\ heads \in [Replica -> SUBSET DOMAIN ops]
  /\ idem \in [Replica -> SUBSET (Principal \X SUBSET Key)]
  /\ \A r \in Replica : \A o \in known[r] : ops[o].ancestors \subseteq known[r]

\* The heads a replica keeps by removing the parents of each op it accepts
\* are exactly the ops it knows no child of, in whatever order the ops came
\* and however often.
HeadsAreFrontier ==
  \A r \in Replica :
    heads[r] = {o \in known[r] : \A q \in known[r] : o \notin ops[q].parents}

\* Replicas that hold the same ops show the same view, whatever order the ops
\* reached each of them in.
Converged ==
  \A r, q \in Replica : known[r] = known[q] => CurrentView(r) = CurrentView(q)

\* A daemon that restarts finds every op it had accepted, and every
\* idempotency key: both are reachable from the stored heads (OpLog::open).
ReopenRestores ==
  \A r \in Replica :
    /\ Reach(heads[r]) = known[r]
    /\ idem[r] = {<<ops[o].author, ops[o].key>> : o \in known[r] \ {0}}

\* A retried call never makes a second op: an author and a key name at most
\* one op, across restarts and redeliveries.
OneOpPerKey ==
  \A a, b \in DOMAIN ops :
    ops[a].author = ops[b].author /\ ops[a].key = ops[b].key => a = b

\* Once a revocation is in a replica's view, it stays there and no op of the
\* revoked principal enters that replica, whatever arrives and in whatever
\* order the heads are merged.
RevocationHolds ==
  [][\A r \in Replica :
       /\ CurrentView(r).revoked \subseteq CurrentView(r)'.revoked
       /\ \A o \in known[r]' \ known[r] :
            ops'[o].author \notin CurrentView(r).revoked]_vars

\* What the version pointed at by op o became: it is in the entity's current
\* value, or a known op that saw it moved the entity on, or some known op
\* removed the entity (a removal wins over a concurrent change).
Touches(q, n) == ops[q].effect.kind \in {"point", "unpoint"} /\ ops[q].effect.entity = n

Accounted(r, o) ==
  LET n == ops[o].effect.entity IN
  \/ ops[o].effect.to \in CurrentView(r).entities[n]
  \/ \E q \in known[r] \ {o} : Touches(q, n) /\ o \in ops[q].ancestors
  \/ \E q \in known[r] : ops[q].effect.kind = "unpoint" /\ Touches(q, n)

\* A version a writer created is never dropped by merging heads: concurrent
\* edits of one entity end in a conflict that holds them all.
NewVersionsAccounted ==
  \A r \in Replica : \A o \in known[r] :
    ops[o].effect.kind = "point" /\ ops[o].effect.to = o => Accounted(r, o)

\* The landings of a line a replica knows.
Landings(r, l) ==
  {o \in known[r] : ops[o].effect.kind = "head" /\ ops[o].effect.line = l}

\* One coordinator serializes a line: however its landings and the ops of
\* others are merged, the newest landing is never lost from the head, seq
\* counts the landings, and the head names nothing but landings it saw.
NewestLandingKept ==
  \A r \in Replica, l \in Line :
    LET line == CurrentView(r).lines[l]
    IN /\ line.seq = Cardinality(Landings(r, l))
       /\ \A o \in Landings(r, l) :
            ops[o].effect.seq = line.seq
              => o \in line.head /\ line.head \subseteq ops[o].ancestors

=============================================================================
