----------------------------- MODULE MCViewForks -----------------------------
(***************************************************************************)
(* Small instances of ViewForks for TLC.  Parts of a view that merge       *)
(* independently are written in campaigns of their own.                    *)
(***************************************************************************)
EXTENDS ViewForks

Pointers == [kinds |-> {"point", "unpoint"}, ids |-> {1, 2, 3}, maxBase |-> 2, maxSide |-> 2]
Lines == [kinds |-> {"head", "coordinator"}, ids |-> {1, 2, 3}, maxBase |-> 2, maxSide |-> 1]
Sets == [kinds |-> {"propose", "unpropose", "owner", "unowner", "revoke", "deploy",
                    "pause", "resume"},
         ids |-> {1, 2}, maxBase |-> 1, maxSide |-> 1]

AllParts == {Pointers, Lines, Sets}
=============================================================================
