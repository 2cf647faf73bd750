------------------------------- MODULE MCLanding -------------------------------
(***************************************************************************)
(* Small instances of Landing for TLC: the verbs that are called together. *)
(***************************************************************************)
EXTENDS Landing

Play(verbs, keyed, spaces, n) ==
  [verbs |-> verbs, keyed |-> keyed, spaces |-> spaces, revs |-> n]

\* Every workspace proposes and the owner lands, one by one or in passes.
Passes == Play({"snapshot", "propose", "land", "all"}, {}, Workspace, 6)

\* The owner and one agent.
Pair == {Root, CHOOSE w \in Workspace : w # Root}
PairPasses == {Play({"snapshot", "propose", "land", "all"}, {}, Pair, 6)}

\* Candidates and rewinds (which stack changes on changes that have not landed),
\* undo and revert, and snapshots and proposals repeated under an earlier key.
All == {Passes,
        Play({"snapshot", "propose", "all", "try", "rewind"}, {}, Pair, 5),
        Play({"snapshot", "propose", "land", "undo", "revert"}, {}, Pair, 5),
        Play({"snapshot", "land", "try", "rewind", "undo"}, {}, Pair, 3),
        Play({"snapshot", "propose", "land", "all"}, {"snapshot", "propose"}, Pair, 4)}
=============================================================================
