------------------------------- MODULE MCTrie -------------------------------
(***************************************************************************)
(* A trie over keys that part at the first, the second and the last nibble. *)
(***************************************************************************)
EXTENDS Trie

MCKey == {<<0, 0, 0>>, <<0, 0, 1>>, <<0, 1, 0>>, <<1, 0, 0>>}
MCWrites == ("base" :> 3) @@ ("left" :> 2) @@ ("right" :> 1)
=============================================================================
