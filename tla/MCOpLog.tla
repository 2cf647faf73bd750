------------------------------- MODULE MCOpLog -------------------------------
(***************************************************************************)
(* Small instances of OpLog for TLC: principal n writes at replica n.      *)
(***************************************************************************)
EXTENDS OpLog

HostThree == [p \in Principal |-> CASE p = 1 -> "r1" [] p = 2 -> "r2" [] OTHER -> "r3"]
OpIds == 1..MaxOp

Campaign(kinds, writers, n) == [kinds |-> kinds, writers |-> writers, ops |-> n]

\* What occurs together: undo, the scopes, revocation, concurrent values and
\* landings of one coordinator.  Four ops of two writers may merge criss-cross.
Kinds ==
  {Campaign({"point", "undo"}, Principal, 3), Campaign({"point", "revoke"}, Principal, 3),
   Campaign({"point", "unpoint"}, {1, 2}, 3),
   Campaign({"pause", "resume", "undo"}, {1, 2}, 3), Campaign({"point", "head"}, {1, 2}, 4)}
=============================================================================
