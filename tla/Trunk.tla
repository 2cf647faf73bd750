-------------------------------- MODULE Trunk --------------------------------
(***************************************************************************)
(* What a line promises the agents that land on it (spec/03-operations.md, *)
(* landing): one serial history, to which the coordinator adds one change  *)
(* at a time, each change at most once, and from which nothing is taken    *)
(* away.                                                                   *)
(***************************************************************************)
EXTENDS Naturals, Sequences

CONSTANTS
  Change,  \* changes
  First    \* the change the repository starts with

VARIABLES
  log,     \* the changes landed, oldest first
  seq      \* the sequence number of the line's head

Landings == {log[i] : i \in DOMAIN log}

Init == log = <<First>> /\ seq = 0

Land(c) ==
  /\ c \notin Landings
  /\ log' = Append(log, c)
  /\ seq' = seq + 1

Next == \E c \in Change : Land(c)

Spec == Init /\ [][Next]_<<log, seq>>
=============================================================================
