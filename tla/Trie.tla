-------------------------------- MODULE Trie --------------------------------
(***************************************************************************)
(* The persistent trie that the view's maps are built from                 *)
(* (crates/tessra-core/src/trie.rs): insert, remove, get, entries and the  *)
(* structural merge of two forks of a base.                                *)
(*                                                                         *)
(* A key is a sequence of nibbles.  A node is a function from the nibbles  *)
(* of its bitmap to its slots.  Nodes are content addressed, so a node     *)
(* stands for its ID, and equal IDs are equal nodes.  Depths start at 1.   *)
(* A value is Member in a set, and in a map of pointers the set of the     *)
(* versions it names: one for TrieValue::Id, several for Conflict.         *)
(***************************************************************************)
EXTENDS Naturals, Sequences, FiniteSets, Functions, TLC

CONSTANTS Key, Version, Member,
          Writes,     \* bound: how often the base and each fork is written
          MaxJoin     \* bound: merges

Side == {"base", "left", "right"}

ASSUME KeyAssumption == \A k, l \in Key : Len(k) = Len(l)
ASSUME BoundsAssumption == Writes \in [Side -> Nat] /\ MaxJoin \in Nat

VARIABLES tries,     \* the roots of a base and of its two forks
          policy,    \* the policy its forks are merged with
          written,   \* writes to each of the three
          joins, forked

vars == <<tries, policy, written, joins, forked>>

-----------------------------------------------------------------------------
(* Nodes and slots.                                                        *)

Empty == [kind |-> "empty"]
Leaf(k, v) == [kind |-> "leaf", key |-> k, value |-> v]
Node(slots) == [kind |-> "node", slots |-> slots]
EmptyNode == << >>

GetSlot(node, n) == IF n \in DOMAIN node THEN node[n] ELSE Empty

SetSlot(node, n, slot) ==
    IF slot = Empty THEN Restrict(node, DOMAIN node \ {n}) ELSE (n :> slot) @@ node

(* A node with one leaf is not collapsed. *)
NormalizeEmpty(node) == IF node = EmptyNode THEN Empty ELSE Node(node)

(* Canonical form: no slots is no node, a single leaf moves up. *)
Normalize(node) ==
    IF node = EmptyNode THEN Empty
    ELSE IF \E n \in DOMAIN node : DOMAIN node = {n} /\ node[n].kind = "leaf"
         THEN node[CHOOSE n \in DOMAIN node : TRUE]
         ELSE Node(node)

(* A slot seen as a node at some depth; at depth 1, as a root. *)
Expand(slot, d) ==
    CASE slot.kind = "empty" -> EmptyNode
      [] slot.kind = "leaf"  -> slot.key[d] :> slot
      [] slot.kind = "node"  -> slot.slots

-----------------------------------------------------------------------------
(* One trie.                                                               *)

RECURSIVE GetIn(_, _, _)
GetIn(node, d, k) ==
    LET slot == GetSlot(node, k[d])
    IN  CASE slot.kind = "empty" -> Empty
          [] slot.kind = "leaf"  -> IF slot.key = k THEN slot ELSE Empty
          [] slot.kind = "node"  -> GetIn(slot.slots, d + 1, k)

(* The node of two leaves: as deep as their keys agree. *)
RECURSIVE PairNode(_, _, _)
PairNode(d, x, y) ==
    IF x.key[d] = y.key[d] THEN x.key[d] :> Node(PairNode(d + 1, x, y))
    ELSE (x.key[d] :> x) @@ (y.key[d] :> y)

RECURSIVE InsertIn(_, _, _)
InsertIn(node, d, leaf) ==
    LET slot == GetSlot(node, leaf.key[d])
    IN  SetSlot(node, leaf.key[d],
                CASE slot.kind = "empty" -> leaf
                  [] slot.kind = "leaf"  -> IF slot.key = leaf.key THEN leaf
                                            ELSE Node(PairNode(d + 1, slot, leaf))
                  [] slot.kind = "node"  -> Node(InsertIn(slot.slots, d + 1, leaf)))

RECURSIVE RemoveIn(_, _, _)
RemoveIn(node, d, k) ==
    LET slot == GetSlot(node, k[d])
    IN  IF slot.kind = "empty" \/ (slot.kind = "leaf" /\ slot.key # k) THEN Node(node)
        ELSE Normalize(SetSlot(node, k[d], IF slot.kind = "leaf" THEN Empty
                                           ELSE RemoveIn(slot.slots, d + 1, k)))

RECURSIVE Walk(_)
Walk(node) ==
    UNION {IF node[n].kind = "leaf" THEN {node[n]} ELSE Walk(node[n].slots) : n \in DOMAIN node}

-----------------------------------------------------------------------------
(* The merge.                                                              *)

Ids(value) == IF value = Member THEN {} ELSE value

(* Both sides have the key: all versions.  A side removed what the other
   changed: the policy says.  Else what there is. *)
MergeLeaf(pol, base, a, b) ==
    CASE a.kind = "leaf" /\ b.kind = "leaf" -> Leaf(a.key, Ids(a.value) \cup Ids(b.value))
      [] a = Empty /\ b = Empty -> Empty
      [] OTHER -> IF base # Empty /\ pol = "pointers" THEN Empty
                  ELSE IF a = Empty THEN b ELSE a

(* The rule for one key is used whatever keys the leaves have. *)
OneKeyAlways(slots) == \A s \in slots : s.kind # "node"

OneKey(slots) ==
    /\ \A s \in slots : s.kind # "node"
    /\ \A s, t \in slots \ {Empty} : s.key = t.key

RECURSIVE MergeSub(_, _, _, _, _)
MergeSub(pol, d, base, a, b) ==
    IF a = base THEN b
    ELSE IF b = base \/ a = b THEN a
    ELSE IF OneKey({base, a, b}) THEN MergeLeaf(pol, base, a, b)
    ELSE LET nodes  == <<Expand(base, d), Expand(a, d), Expand(b, d)>>
             merged == [n \in UNION {DOMAIN nodes[i] : i \in 1 .. 3} |->
                          MergeSub(pol, d + 1, GetSlot(nodes[1], n), GetSlot(nodes[2], n),
                                   GetSlot(nodes[3], n))]
         IN  Normalize(Restrict(merged, {n \in DOMAIN merged : merged[n] # Empty}))

Merge3(pol, base, a, b) == Expand(MergeSub(pol, 1, Node(base), Node(a), Node(b)), 1)

-----------------------------------------------------------------------------
(* A base is written, forked, its forks written, and joined into the next
   base.                                                                   *)

MayWrite(s) == forked = (s # "base") /\ written[s] < Writes[s]

Values == IF policy = "pointers" THEN {{v} : v \in Version} ELSE {Member}

Write(s, root) ==
    /\ tries' = [tries EXCEPT ![s] = root]
    /\ written' = [written EXCEPT ![s] = @ + 1]
    /\ UNCHANGED <<policy, joins, forked>>

Insert(s, k, v) == MayWrite(s) /\ Write(s, InsertIn(tries[s], 1, Leaf(k, v)))

Remove(s, k) == MayWrite(s) /\ Write(s, Expand(RemoveIn(tries[s], 1, k), 1))

Fork ==
    /\ ~forked /\ joins < MaxJoin
    /\ forked' = TRUE
    /\ tries' = [s \in Side |-> tries["base"]]
    /\ written' = [s \in Side |-> 0]
    /\ UNCHANGED <<policy, joins>>

Join ==
    /\ forked
    /\ forked' = FALSE /\ joins' = joins + 1
    /\ tries' = [tries EXCEPT !["base"] = Merge3(policy, @, tries["left"], tries["right"])]
    /\ written' = [written EXCEPT !["base"] = Writes["base"]]
    /\ UNCHANGED policy

Init ==
    /\ tries = [s \in Side |-> EmptyNode]
    /\ policy \in {"pointers", "set"}
    /\ written = [s \in Side |-> 0]
    /\ joins = 0 /\ forked = FALSE

Next ==
    \/ \E s \in Side, k \in Key : Remove(s, k) \/ \E v \in Values : Insert(s, k, v)
    \/ Fork
    \/ Join

Spec == Init /\ [][Next]_vars

-----------------------------------------------------------------------------
(* The trie of a set of leaves, by definition: at each depth a slot for each
   nibble, a leaf when it is the only one there. *)
RECURSIVE Canonical(_, _)
Canonical(leaves, d) ==
    [n \in {l.key[d] : l \in leaves} |->
        LET here == {l \in leaves : l.key[d] = n}
        IN  IF Cardinality(here) = 1 THEN CHOOSE l \in here : TRUE
            ELSE Node(Canonical(here, d + 1))]

(* Two tries with the same contents have the same root: however it was written,
   collapsed and merged, a trie is the one that its entries define, so the merge
   may take a side wholesale when IDs are equal (normalize, set_slot, merge_sub). *)
CanonicalForm == \A s \in Side : tries[s] = Canonical(Walk(tries[s]), 1)

Contents(node) ==
    [k \in Key |-> LET slot == GetIn(node, 1, k)
                   IN  IF slot = Empty THEN {}
                       ELSE IF slot.value = Member THEN {Member} ELSE slot.value]

Abstract ==
    INSTANCE Maps WITH Version <- Version \cup {Member},
                       maps <- [s \in Side |-> Contents(tries[s])]

(* What get finds is what was put, removed and merged key by key, by the rules of
   ViewMerge, although the merge works on subtrees and meets leaves and nodes at
   different depths (insert, remove, get, merge3). *)
IsAMap == Abstract!Spec
=============================================================================
