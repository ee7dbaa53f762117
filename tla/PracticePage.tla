---------------------------- MODULE PracticePage ----------------------------
(***************************************************************************)
(* One tab with the practice page of a problem,                            *)
(* frontend/src/app/system-design/[slug]/page.tsx: it mounts the editor on *)
(* the stored canvas, saves it under the version it knows, and guards work *)
(* that is not saved by its flag.  The server is the versioned canvas that *)
(* Workspaces achieves when saves take turns; another tab may save to it.  *)
(*                                                                         *)
(* Requests may be lost before or after the server has served them, and    *)
(* arrive and return in any order; a save may be sent while another is     *)
(* under way (Ctrl+S is not switched off by it, as the button is).         *)
(***************************************************************************)
EXTENDS CanvasEditor

CONSTANTS Saves,          \* the save requests this tab may send
          First,          \* the canvas stored at first
          Canvases,       \* those that another tab may store
          MaxOtherSaves   \* bound on the saves of another tab

VARIABLES
    stored,    \* the server's row: its version, nodes and edges
    version,   \* of the workspace the page holds, 0 when it holds none
    mine,      \* history: the canvas that version stood for when the page learnt of it
    save,      \* the requests
    numbered,  \* history: the nodes were numbered without a gap when the editor was mounted
    excuse,    \* history: why the flag may be off although the screen is not saved
    others     \* how often another tab has saved

pageVars == <<stored, version, mine, save, numbered, excuse, others>>

vars == <<editorVars, pageVars>>

CanvasOf(c) == [nodes |-> c.nodes, edges |-> c.edges]

\* The request schema's validators, which compare nodes by their ids.
Acceptable(c) == ValidCanvas([nodes |-> [i \in 1 .. Len(c.nodes) |-> c.nodes[i].id],
                              edges |-> c.edges])

\* The canvases of the server are such as it takes.
ASSUME CanvasAssumption == \A c \in Canvases \cup {First} : c \in Drawing /\ Acceptable(c)

NumberedInOrder(c) == {c.nodes[i].id : i \in 1 .. Len(c.nodes)} = 1 .. Len(c.nodes)

Unsent == [at |-> "unsent", canvas |-> BlankCanvas, expected |-> 0, outcome |-> "none", saved |-> 0]

\* A request of which nothing more is heard.
Done == [Unsent EXCEPT !.at = "done"]

\* load: the page has the workspace, or shows a scratchpad; then the editor is mounted.
Loaded(ws) ==
    /\ nodes = ws.nodes /\ edges = ws.edges
    /\ past = << >> /\ future = << >>
    /\ nodeIdCounter = Len(ws.nodes) + 1
    /\ dirty = (ws.nodes # << >>)
    /\ version = ws.version /\ mine = CanvasOf(ws)
    /\ numbered = NumberedInOrder(ws)

Scratchpad == [version |-> 0, nodes |-> << >>, edges |-> << >>]

Init ==
    /\ stored = [version |-> 1, nodes |-> First.nodes, edges |-> First.edges]
    /\ \E ws \in {stored, Scratchpad} : Loaded(ws)
    /\ save = [s \in Saves |-> Unsent]
    /\ excuse = "none" /\ others = 0 /\ edits = 0

\* An edit raises the flag, and the page warns before it is left.
EditCanvas ==
    /\ Edit
    /\ excuse' = "none"
    /\ UNCHANGED <<stored, version, mine, save, numbered, others>>

UndoOrRedo ==
    /\ Undo \/ Redo
    /\ excuse' = "undone"
    /\ UNCHANGED <<stored, version, mine, save, numbered, others>>

\* What the editor makes of the end of a save, however it ended.
Lowered(why) ==
    /\ dirty' = FALSE /\ excuse' = why
    /\ UNCHANGED <<nodes, edges, past, future, nodeIdCounter, edits,
                   stored, numbered, others>>

(***************************************************************************)
(* handleSave of the page and the editor: without a workspace the promise  *)
(* is fulfilled at once, and the editor lowers the flag.                   *)
(***************************************************************************)
SaveScratchpad ==
    /\ version = 0
    /\ UNCHANGED <<version, mine, save>>
    /\ Lowered("failed")

HandleSave(s) ==
    /\ version # 0 /\ save[s].at = "unsent"
    /\ save' = [save EXCEPT ![s] = [@ EXCEPT !.at = "sent", !.canvas = Serialize,
                                             !.expected = version]]
    /\ UNCHANGED <<editorVars, stored, version, mine, numbered, excuse, others>>

\* The server's answer to a save, as save_workspace computes it.
Outcome(s) ==
    IF ~Acceptable(save[s].canvas) THEN "invalid"
    ELSE IF save[s].expected # stored.version THEN "conflict"
    ELSE "saved"

\* The request reaches the server, also one whose page has been reloaded since.
Arrive(s) ==
    /\ save[s].at \in {"sent", "forgotten"}
    /\ save' = [save EXCEPT ![s] =
                   IF @.at = "forgotten" THEN Done
                   ELSE [@ EXCEPT !.at = "answered", !.outcome = Outcome(s),
                                  !.saved = stored.version + 1]]
    /\ stored' = IF Outcome(s) = "saved"
                   THEN [version |-> stored.version + 1, nodes |-> save[s].canvas.nodes,
                         edges |-> save[s].canvas.edges]
                   ELSE stored
    /\ UNCHANGED <<editorVars, version, mine, numbered, excuse, others>>

\* Slip: a conflict teaches the page the version, from the details of the error.
ReturnCurrent(s) ==
    /\ save[s].at = "answered"
    /\ save' = [save EXCEPT ![s] = Done]
    /\ CASE save[s].outcome = "saved" -> version' = save[s].saved /\ mine' = save[s].canvas
         [] save[s].outcome = "conflict" -> version' = save[s].saved - 1 /\ UNCHANGED mine
         [] OTHER -> UNCHANGED <<version, mine>>
    /\ Lowered("failed")

(***************************************************************************)
(* The answer is heard: setWorkspace(updated) when the canvas was saved,   *)
(* nothing but a toast otherwise.  The page's handleSave fulfils its       *)
(* promise in every case, so that the editor lowers the flag.              *)
(***************************************************************************)
Return(s) ==
    /\ save[s].at = "answered"
    /\ save' = [save EXCEPT ![s] = Done]
    /\ \/ /\ save[s].outcome = "saved"
          /\ version' = save[s].saved /\ mine' = save[s].canvas
          /\ Lowered(IF Serialize = save[s].canvas THEN "none" ELSE "overtaken")
       \/ /\ save[s].outcome # "saved"
          /\ UNCHANGED <<version, mine>>
          /\ Lowered("failed")

\* The page no longer listens; a request that is still on its way may yet arrive.
Forgotten(s) ==
    CASE save[s].at = "sent" -> [save[s] EXCEPT !.at = "forgotten"]
      [] save[s].at = "answered" -> Done
      [] OTHER -> save[s]

\* The connection fails, before or after the request has arrived.
Fail(s) ==
    /\ save[s].at \in {"sent", "answered"}
    /\ save' = [save EXCEPT ![s] = Forgotten(s)]
    /\ UNCHANGED <<version, mine>>
    /\ Lowered("failed")

\* Another tab saves a canvas it has read; any that the server would take.
OtherTab ==
    /\ others < MaxOtherSaves /\ others' = others + 1
    /\ \E c \in Canvases : stored' = [version |-> stored.version + 1,
                                      nodes |-> c.nodes, edges |-> c.edges]
    /\ UNCHANGED <<editorVars, version, mine, save, numbered, excuse>>

\* The user leaves the page and returns, with or without a session.
Reload ==
    /\ \E ws \in {stored, Scratchpad} :
          /\ Mount(ws)
          /\ version' = ws.version /\ mine' = CanvasOf(ws)
          /\ numbered' = NumberedInOrder(ws)
    /\ save' = [s \in Saves |-> Forgotten(s)]
    /\ excuse' = "none"
    /\ UNCHANGED <<edits, stored, others>>

Next ==
    \/ EditCanvas \/ UndoOrRedo
    \/ SaveScratchpad
    \/ \E s \in Saves : HandleSave(s) \/ Arrive(s) \/ Return(s) \/ Fail(s)
    \/ OtherTab \/ Reload

Spec == Init /\ [][Next]_vars
-----------------------------------------------------------------------------
\* The screen is not what the page has loaded or was told is saved.
Unsaved == Serialize # mine

(***************************************************************************)
(* What the comment at page.tsx:82 promises: leaving the page with work    *)
(* that is not saved warns.  (Of a page that has a workspace to save to.)  *)
(***************************************************************************)
UnsavedWorkIsGuarded == Unsaved /\ version # 0 => dirty

(***************************************************************************)
(* The flag is wrong in three ways only: an undo or redo of a canvas that  *)
(* was saved, a save that failed or never was sent, and a save that left   *)
(* before the last edit.  No other sequence of edits, saves, answers in    *)
(* any order and reloads leaves unsaved work unguarded.                    *)
(***************************************************************************)
UnsavedWorkIsGuardedButFor == Unsaved /\ ~dirty => excuse # "none"

(***************************************************************************)
(* The version a page sends is a promise that it has seen the canvas that  *)
(* bears it: while it is the current one, the page last loaded or saved    *)
(* exactly what is stored.  So a save never replaces another tab's work    *)
(* that this one has not seen, whatever answers were lost.                 *)
(***************************************************************************)
KnownVersionIsKnownCanvas ==
    version = stored.version => mine = CanvasOf(stored)

(***************************************************************************)
(* The counter never gives out an id in use, whatever was deleted, undone  *)
(* and redone, when the canvas that was mounted numbered its nodes without *)
(* a gap.  (With a gap it does: it starts at the number of nodes.)         *)
(***************************************************************************)
NewIdsAreFresh ==
    numbered => \A i, j \in 1 .. Len(nodes) : nodes[i].id = nodes[j].id => i = j
=============================================================================
