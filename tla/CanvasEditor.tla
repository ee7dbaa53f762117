---------------------------- MODULE CanvasEditor ----------------------------
(***************************************************************************)
(* The canvas editor, frontend/src/components/canvas/DesignCanvas.tsx: the *)
(* nodes and edges on the screen, the two stacks of snapshots behind undo  *)
(* and redo, the counter that names new nodes, and the flag that the page  *)
(* shows as "Unsaved changes".                                             *)
(*                                                                         *)
(* The browser renders between two gestures, so that each handler sees the *)
(* state the previous gesture left; two handlers called within one gesture *)
(* see the same state.  A node is its id and its look, which stands for    *)
(* position and label; the id `n${k}` is k.  An edge is its two ends.      *)
(***************************************************************************)
EXTENDS CanvasPayload, Arrange, SequencesExt

CONSTANTS Looks,
          Tidy,        \* the look that auto-layout gives to a node
          MaxHistory,  \* MAX_HISTORY, 50 in the code
          MaxEdits  \* bound on the edits

ASSUME LooksAssumption == Tidy \in Looks /\ NodeIds \subseteq Nat

ASSUME HistoryAssumption == MaxHistory \in Nat \ {0} /\ MaxEdits \in Nat

VARIABLES
    nodes, edges,  \* what is on the screen; a node is its id and its look
    past, future,  \* the undo and redo stacks, of [nodes, edges]
    nodeIdCounter,
    dirty,
    edits          \* how many there were

\* What is drawn: a list of nodes and a list of edges.
Drawing == [nodes : Seq([id : NodeIds, look : Looks]), edges : Seq(CanvasEdge)]

editorVars == <<nodes, edges, past, future, nodeIdCounter, dirty, edits>>

Ids == {nodes[i].id : i \in 1 .. Len(nodes)}

Screen == [nodes |-> nodes, edges |-> edges]

(***************************************************************************)
(* What a save sends: edges with an end missing are dropped.               *)
(***************************************************************************)
Serialize ==
    [nodes |-> nodes,
     edges |-> AtIndices(edges, {i \in DOMAIN edges :
                                    edges[i].source \in Ids /\ edges[i].target \in Ids})]

(***************************************************************************)
(* The editor is mounted on a canvas.  React Flow measures the nodes it    *)
(* first shows and reports their dimensions as changes.                    *)
(***************************************************************************)
Mount(c) ==
    /\ nodes' = c.nodes /\ edges' = c.edges
    /\ past' = << >> /\ future' = << >>
    /\ nodeIdCounter' = Len(c.nodes) + 1
    /\ dirty' = (c.nodes # << >>)

AnotherEdit == edits < MaxEdits /\ edits' = edits + 1

Push(stack, s) == IF Len(stack) = MaxHistory THEN Append(Tail(stack), s) ELSE Append(stack, s)

\* commitHistory, with the stack as an earlier call in the same gesture left it.
CommitHistory(stack, s) ==
    /\ past' = Push(stack, s)
    /\ future' = << >>
    /\ dirty' = TRUE

\* Slip: a node is numbered by its place.
AddComponentByPlace(l) ==
    /\ AnotherEdit /\ nodeIdCounter \in NodeIds
    /\ CommitHistory(past, Screen)
    /\ nodes' = Append(nodes, [id |-> Len(nodes) + 1, look |-> l])
    /\ nodeIdCounter' = nodeIdCounter + 1
    /\ UNCHANGED edges

\* A component is clicked, or dropped, into place.
AddComponent(l) ==
    /\ AnotherEdit /\ nodeIdCounter \in NodeIds
    /\ CommitHistory(past, Screen)
    /\ nodes' = Append(nodes, [id |-> nodeIdCounter, look |-> l])
    /\ nodeIdCounter' = nodeIdCounter + 1
    /\ UNCHANGED edges

(***************************************************************************)
(* React Flow's addEdge: an edge that is there already is not added again. *)
(* Edges are told apart by their ends and by the handles they leave from   *)
(* and arrive at, of which a node has several on each side, so that two    *)
(* edges may have the same ends.                                           *)
(***************************************************************************)
WithEdge(e) == {Append(edges, e)} \cup (IF Contains(edges, e) THEN {edges} ELSE {})

\* A line is drawn; every node has handles of both kinds, so it may end where it began.
Connect(x, y) ==
    /\ AnotherEdit
    /\ CommitHistory(past, Screen)
    /\ edges' \in WithEdge([source |-> x, target |-> y])
    /\ UNCHANGED <<nodes, nodeIdCounter>>

\* Where the edges are that end at x, and the nodes that bear another id.
Incident(x) == {i \in DOMAIN edges : edges[i].source = x \/ edges[i].target = x}

OtherNodes(x) == {i \in DOMAIN nodes : nodes[i].id # x}

\* Slip: the edges stay.
DeleteNodeAlone(x) ==
    /\ AnotherEdit
    /\ CommitHistory(past, Screen)
    /\ nodes' = AtIndices(nodes, OtherNodes(x))
    /\ UNCHANGED <<edges, nodeIdCounter>>

(***************************************************************************)
(* React Flow removes the edges of a deleted node first.  It calls both    *)
(* handlers in one task, with no render in between: handleEdgesChange and  *)
(* handleNodesChange each commit the same snapshot.                        *)
(***************************************************************************)
DeleteNode(x) ==
    /\ AnotherEdit
    /\ CommitHistory(IF Incident(x) = {} THEN past ELSE Push(past, Screen), Screen)
    /\ nodes' = AtIndices(nodes, OtherNodes(x))
    /\ edges' = AtIndices(edges, DOMAIN edges \ Incident(x))
    /\ UNCHANGED nodeIdCounter

\* One edge goes, by its id; others may have the same ends.
DeleteEdge(i) ==
    /\ AnotherEdit
    /\ CommitHistory(past, Screen)
    /\ edges' = AtIndices(edges, DOMAIN edges \ {i})
    /\ UNCHANGED <<nodes, nodeIdCounter>>

\* The nodes with this id look otherwise.
Restyled(x, l) ==
    [i \in 1 .. Len(nodes) |-> IF nodes[i].id = x THEN [nodes[i] EXCEPT !.look = l] ELSE nodes[i]]

\* A drag commits when it ends, by when its moves have been rendered.
DragNode(x, l) ==
    /\ AnotherEdit
    /\ nodes' = Restyled(x, l)
    /\ CommitHistory(past, [nodes |-> Restyled(x, l), edges |-> edges])
    /\ UNCHANGED <<edges, nodeIdCounter>>

\* Slip: the page is not told.
RenameQuietly(x, l) ==
    /\ AnotherEdit
    /\ nodes' = Restyled(x, l)
    /\ UNCHANGED <<edges, past, future, nodeIdCounter, dirty>>

\* A label is edited in place: React Flow reports a replaced node.
RenameNode(x, l) ==
    /\ AnotherEdit
    /\ nodes' = Restyled(x, l)
    /\ dirty' = TRUE
    /\ UNCHANGED <<edges, past, future, nodeIdCounter>>

AutoLayout ==
    /\ AnotherEdit
    /\ CommitHistory(past, Screen)
    /\ nodes' = [i \in 1 .. Len(nodes) |-> [nodes[i] EXCEPT !.look = Tidy]]
    /\ UNCHANGED <<edges, nodeIdCounter>>

Show(s) == nodes' = s.nodes /\ edges' = s.edges

Undo ==
    /\ past # << >>
    /\ past' = Front(past)
    /\ future' = Append(future, Screen)
    /\ Show(Last(past))
    /\ UNCHANGED <<nodeIdCounter, dirty, edits>>

\* Slip: what was on the screen is not kept.
RedoForgetting ==
    /\ future # << >>
    /\ future' = Front(future)
    /\ Show(Last(future))
    /\ UNCHANGED <<past, nodeIdCounter, dirty, edits>>

\* The past is not trimmed here.
Redo ==
    /\ future # << >>
    /\ future' = Front(future)
    /\ past' = Append(past, Screen)
    /\ Show(Last(future))
    /\ UNCHANGED <<nodeIdCounter, dirty, edits>>

\* A gesture that tells the page that there is something to save.
Edit ==
    \/ \E l \in Looks : AddComponent(l)
    \/ \E x, y \in Ids : Connect(x, y)
    \/ \E x \in Ids : DeleteNode(x)
    \/ \E i \in DOMAIN edges : DeleteEdge(i)
    \/ \E x \in Ids, l \in Looks : DragNode(x, l) \/ RenameNode(x, l)
    \/ AutoLayout
-----------------------------------------------------------------------------
(***************************************************************************)
(* Neither the screen nor a snapshot holds an edge without its nodes, so   *)
(* that what a save leaves out is never something the user sees.           *)
(***************************************************************************)
EdgesHaveEnds ==
    \A s \in {Screen} \cup ToSet(past) \cup ToSet(future) :
        \A e \in ToSet(s.edges) :
            \E m, n \in ToSet(s.nodes) : m.id = e.source /\ n.id = e.target

\* The stacks and the screen as EditHistory sees them.
Line == INSTANCE EditHistory WITH
    line <- past \o <<Screen>> \o Reverse(future),
    at   <- Len(past) + 1

(***************************************************************************)
(* Undo undoes, but for three kinds of edit: whatever is added, connected, *)
(* removed or laid out is reversed by one undo, and undo and redo lose     *)
(* nothing, with these exceptions and no others: a node that is deleted    *)
(* with its edges takes two undos, a drag is not reversed, and a label     *)
(* that is edited in place is no step of the history.                      *)
(***************************************************************************)
EditsAreLinear ==
    /\ Line!Init
    /\ [][\/ Line!Edit /\ edits' = edits + 1
          \/ Line!Back /\ Undo
          \/ Line!Forward /\ Redo
          \/ Line!StartAgain /\ Mount(Screen')
          \/ Line!EditTwice /\ \E x \in Ids : DeleteNode(x)
          \/ Line!Settle /\ \E x \in Ids, l \in Looks : DragNode(x, l)
          \/ Line!Amend /\ \E x \in Ids, l \in Looks : RenameNode(x, l)
         ]_<<nodes, edges, past, future>>

(***************************************************************************)
(* What the comment at DesignCanvas.tsx:247-249 is after: an undo that is  *)
(* of use for drags, which are committed once, when they end.  One undo    *)
(* after a drag should show what was there before it.                      *)
(***************************************************************************)
DragsCanBeUndone ==
    [][\A x \in Ids, l \in Looks : DragNode(x, l) => Line!Edit]_<<nodes, edges, past, future>>
=============================================================================
