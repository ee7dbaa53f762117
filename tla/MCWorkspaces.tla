---------------------------- MODULE MCWorkspaces ----------------------------
(***************************************************************************)
(* Instances of Workspaces for TLC.  Two canvases have the same nodes and  *)
(* two the same edges, so that a save may leave either column as it was;   *)
(* the last two are refused by the schema.                                 *)
(***************************************************************************)
EXTENDS Workspaces, TLC

CONSTANTS a, b, w1, u1, p1

Draw(nodes, edges) == [nodes |-> nodes, edges |-> edges]

Arrow(x, y) == [source |-> x, target |-> y]

TwoNodes    == Draw(<<a, b>>, << >>)
Connected   == Draw(<<a, b>>, <<Arrow(a, b)>>)
OneNode     == Draw(<<a>>, << >>)
Dangling    == Draw(<<a>>, <<Arrow(a, b)>>)
NamedTwice  == Draw(<<a, a>>, << >>)

MCDrawings == {TwoNodes, Connected, OneNode, Dangling, NamedTwice}

MCOpened == [w \in {w1} |-> [owner |-> u1, problem |-> p1]]

MCNoneOpened == [w \in {} |-> [owner |-> u1, problem |-> p1]]

RequestSymmetry == Permutations(Requests)
=============================================================================
