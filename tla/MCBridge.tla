------------------------------ MODULE MCBridge ------------------------------
(***************************************************************************)
(* Small instances of Bridge for TLC.                                      *)
(***************************************************************************)
EXTENDS Bridge

Play(branches, cuts, ignores, with) ==
    [branches |-> branches, cuts |-> cuts, ignores |-> ignores, git |-> with]

(* One branch, with commits of others; and a second branch, exported to only. *)
All == {Play({Main}, {"import"}, TRUE, TRUE),
        Play({Main}, {"import", "export"}, FALSE, TRUE),
        Play(Branch, {}, FALSE, FALSE)}

Shared == {Play({Main}, {}, FALSE, TRUE)}
=============================================================================
