--------------------------- MODULE CanvasPayload ---------------------------
(***************************************************************************)
(* The canvas a client sends to PUT /workspaces/{id}: a list of nodes and  *)
(* a list of edges, validated as a graph by the request schema             *)
(* (backend/app/schemas/system_design.py) before any handler runs.         *)
(*                                                                         *)
(* A node is abstracted to its id and an edge to its two ends: kinds,      *)
(* labels, positions and notes are never compared by the code modelled     *)
(* here.  Nodes stay a list, because a list can name one id twice.         *)
(***************************************************************************)
EXTENDS Naturals, Sequences

CONSTANTS NodeIds,  \* the ids a client may give to a node
          MaxNodes, \* MAX_NODES, 120 in the code
          MaxEdges  \* MAX_EDGES, 300 in the code

ASSUME BoundsAssumption == MaxNodes \in Nat /\ MaxEdges \in Nat

CanvasEdge == [source : NodeIds, target : NodeIds]

Canvas == [nodes : Seq(NodeIds), edges : Seq(CanvasEdge)]

\* The canvas of a workspace that was opened and never saved.
BlankCanvas == [nodes |-> << >>, edges |-> << >>]

\* Lists longer than the schema's bounds are refused field by field.
WithinBounds(c) == Len(c.nodes) <= MaxNodes /\ Len(c.edges) <= MaxEdges

\* The field validator on nodes: no id is used twice.
UniqueNodeIds(c) ==
    \A i, j \in 1 .. Len(c.nodes) : c.nodes[i] = c.nodes[j] => i = j

\* The model validator: no dangling edge and no self-loop.
EdgesReferenceRealNodes(c) ==
    LET ids == {c.nodes[i] : i \in 1 .. Len(c.nodes)}
    IN  \A j \in 1 .. Len(c.edges) :
            /\ c.edges[j].source \in ids
            /\ c.edges[j].target \in ids
            /\ c.edges[j].source # c.edges[j].target

ValidCanvas(c) ==
    /\ WithinBounds(c)
    /\ UniqueNodeIds(c)
    /\ EdgesReferenceRealNodes(c)
=============================================================================
