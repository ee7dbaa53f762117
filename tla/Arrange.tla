------------------------------- MODULE Arrange -------------------------------
(***************************************************************************)
(* Orders and filters of lists: what ORDER BY and Array.filter return.     *)
(***************************************************************************)
EXTENDS Integers, FiniteSets

\* The elements of a finite set by their places, of which no two are the same.
InOrder(S, place) ==
    [i \in 1 .. Cardinality(S) |->
        CHOOSE s \in S : Cardinality({t \in S : place[t] <= place[s]}) = i]

\* The elements of a list at some of its indices, in the order of the list.
AtIndices(list, indices) ==
    LET order == InOrder(indices, [i \in indices |-> i])
    IN  [i \in DOMAIN order |-> list[order[i]]]
=============================================================================
