--------------------------- MODULE MCPracticePage ---------------------------
(***************************************************************************)
(* Instances of PracticePage for TLC: a canvas whose two nodes are joined  *)
(* and, from another tab, one from which the first node was deleted.       *)
(***************************************************************************)
EXTENDS PracticePage, TLC

CONSTANTS tidy, moved

At(x) == [id |-> x, look |-> tidy]

Joined == [nodes |-> <<At(1), At(2)>>, edges |-> <<[source |-> 1, target |-> 2]>>]

Gap == [nodes |-> <<At(2)>>, edges |-> << >>]

MCCanvases == {Gap}

SaveSymmetry == Permutations(Saves)
=============================================================================
