-------------------------------- MODULE Maps --------------------------------
(***************************************************************************)
(* What a persistent map promises (the contents of crates/tessra-core      *)
(* trie.rs, whatever their layout): versions are written and removed key   *)
(* by key, and two maps forked from a base are merged key by key, by the   *)
(* rule ViewMerge has for the map's policy.                                *)
(***************************************************************************)
CONSTANTS Key, Version

VARIABLES maps,    \* the base and its two forks: key -> the versions it has
          policy   \* the policy of the map

vars == <<maps, policy>>

Rule == INSTANCE ViewMerge WITH Id <- {}, Entity <- {}, Line <- {}, Principal <- {},
                                Target <- {}, Scope <- {}

KeyMerge(b, x, y) ==
  IF policy = "pointers" THEN Rule!MergePointer(b, x, y) ELSE Rule!MergeSet(b, x, y)

Put(s, k, v) == [maps EXCEPT ![s][k] = {v}]

Drop(s, k) == [maps EXCEPT ![s][k] = {}]

Fork == [s \in DOMAIN maps |-> maps["base"]]

Join ==
  [maps EXCEPT !["base"] =
     [k \in Key |-> KeyMerge(@[k], maps["left"][k], maps["right"][k])]]

Init ==
  /\ maps = [s \in {"base", "left", "right"} |-> [k \in Key |-> {}]]
  /\ policy \in {"pointers", "set"}

Next ==
  /\ maps' \in {Fork, Join} \cup {Drop(s, k) : s \in DOMAIN maps, k \in Key}
                \cup {Put(s, k, v) : s \in DOMAIN maps, k \in Key, v \in Version}
  /\ UNCHANGED policy

Spec == Init /\ [][Next]_vars
=============================================================================
