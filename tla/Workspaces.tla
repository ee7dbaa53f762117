----------------------------- MODULE Workspaces -----------------------------
(***************************************************************************)
(* The system-design workspace API: open, save, share and review a canvas  *)
(* (backend/app/services/system_design_service.py), each request served    *)
(* inside one database session (backend/app/db/session.py).                *)
(*                                                                         *)
(* A session is a unit of work: the row is loaded, the object is changed   *)
(* in memory, and the changed columns are written when the session         *)
(* commits, after the handler has returned.  No row is locked in between   *)
(* and nothing re-checks the row at commit, so two requests that overlap   *)
(* may both act on what the row was before either wrote.  `Overlap` says   *)
(* whether requests that write one canvas may overlap; requests on         *)
(* different canvases, and reviews, always may.                            *)
(***************************************************************************)
EXTENDS CanvasPayload

CONSTANTS Users,
          Entitled,  \* the users whose plan unlocks sharing and reviews
          Slugs,     \* what a client may name as a problem
          Problems,  \* the slugs that are in the database
          WsIds,     \* the primary keys new rows draw from
          Opened,    \* rows opened and not yet saved when the model starts
          Requests,  \* the requests clients will send, each at most once
          Drawings,  \* the canvases clients send, well formed or not
          Overlap,   \* may requests that write one canvas overlap in time?
          None       \* no row, no share link, no session

ASSUME PlanAssumption == Entitled \subseteq Users

ASSUME SlugAssumption == Problems \subseteq Slugs

ASSUME DrawingsAssumption == Drawings \subseteq Canvas

ASSUME OverlapAssumption == Overlap \in BOOLEAN

ASSUME OpenedAssumption ==
    /\ DOMAIN Opened \subseteq WsIds
    /\ Opened \in [DOMAIN Opened -> [owner : Users, problem : Problems]]
    /\ \A v, w \in DOMAIN Opened : Opened[v] = Opened[w] => v = w

VARIABLES
    db,      \* the workspace table: a row, or None, for each primary key
    reviews, \* the review table
    pc,      \* where each request is
    session, \* each request's unit of work, kept as its answer once it is ok
    log      \* history: what each row held after every commit that versioned it

vars == <<db, reviews, pc, session, log>>
-----------------------------------------------------------------------------
Row == [owner : Users, problem : Problems, version : Nat,
        nodes : Seq(NodeIds), edges : Seq(CanvasEdge),
        share : Requests \cup {None}]

\* Slip: the version starts as NULL.
NewRowUnversioned(u, p) ==
    [owner |-> u, problem |-> p, version |-> None,
     nodes |-> BlankCanvas.nodes, edges |-> BlankCanvas.edges, share |-> None]

\* A share slug is a fresh random token: the request that drew it names it.
NewRow(u, p) ==
    [owner |-> u, problem |-> p, version |-> 1,
     nodes |-> BlankCanvas.nodes, edges |-> BlankCanvas.edges, share |-> None]

Review == [id : Requests, ws : WsIds, user : Users, version : Nat,
           nodes : Seq(NodeIds), edges : Seq(CanvasEdge)]

(***************************************************************************)
(* loaded: the row as the session read it (None: the object is new).       *)
(* object: the row as the handler leaves it.                               *)
(* seen:   a save's log position its author had on screen (0: no version). *)
(***************************************************************************)
Session == [kind : {"open", "save", "share", "review"}, user : Users,
            ws : WsIds, loaded : Row \cup {None}, object : Row, seen : Nat]

\* None is not one of the things it stands for the absence of.
ASSUME NoneAssumption ==
    /\ None \notin Row \cup Session \cup Requests
    /\ None \notin [version : Nat, nodes : Seq(NodeIds), edges : Seq(CanvasEdge)]

LogEntry == [version : Nat, nodes : Seq(NodeIds), edges : Seq(CanvasEdge),
             seen : Nat, by : Requests \cup {None}]

Entry(row, seen, by) ==
    [version |-> row.version, nodes |-> row.nodes, edges |-> row.edges,
     seen |-> seen, by |-> by]

\* Inside a handler: about to flush, awaiting the model, returned but not committed.
Running == {"insert", "call", "exit"}

Refusals == {"refused", "not_found", "invalid", "conflict", "premium_required"}

Failures == {"error", "lost"}

Finished == {"ok"} \cup Refusals \cup Failures
-----------------------------------------------------------------------------
Init ==
    /\ db = [w \in WsIds |-> IF w \in DOMAIN Opened
                             THEN NewRow(Opened[w].owner, Opened[w].problem)
                             ELSE None]
    /\ log = [w \in WsIds |-> IF w \in DOMAIN Opened
                              THEN <<Entry(db[w], 0, None)>>
                              ELSE << >>]
    /\ reviews = {}
    /\ pc = [r \in Requests |-> "idle"]
    /\ session = [r \in Requests |-> None]

\* A request that changed nothing is answered and its session discarded.
Answer(r, outcome) ==
    /\ pc' = [pc EXCEPT ![r] = outcome]
    /\ session' = [session EXCEPT ![r] = None]
    /\ UNCHANGED <<db, reviews, log>>

\* The handler goes on, having loaded and changed what s says.
Proceed(r, step, s) ==
    /\ pc' = [pc EXCEPT ![r] = step]
    /\ session' = [session EXCEPT ![r] = s]
    /\ UNCHANGED <<db, reviews, log>>

InSession(kind, u, w, loaded, object, seen) ==
    [kind |-> kind, user |-> u, ws |-> w, loaded |-> loaded,
     object |-> object, seen |-> seen]

Writing == {q \in Requests : pc[q] \in Running /\ session[q].kind # "review"}

\* No writer is under way on u's canvas for p, or there may be several.
Quiet(u, p) ==
    Overlap \/ \A q \in Writing : \/ session[q].object.owner # u
                                  \/ session[q].object.problem # p

QuietRow(w) == db[w] # None => Quiet(db[w].owner, db[w].problem)

\* _owned_workspace: someone else's row is as good as missing.
Owned(w, u) == db[w] # None /\ db[w].owner = u

RowsOf(u, p) == {w \in WsIds : Owned(w, u) /\ db[w].problem = p}

UnusedIds == {w \in WsIds : /\ db[w] = None
                            /\ \A q \in Requests : session[q] # None => session[q].ws # w}

\* The dependencies turn the request away: no valid session, or rate limited.
TurnedAway(r) == pc[r] = "idle" /\ Answer(r, "refused")

(***************************************************************************)
(* POST /problems/{slug}/workspace, up to the read that looks for the row. *)
(* An existing row is returned; otherwise a new one is to be inserted.     *)
(***************************************************************************)
OpenWorkspace(r, u, p) ==
    /\ pc[r] = "idle"
    /\ Quiet(u, p)
    /\ \/ p \notin Problems /\ Answer(r, "not_found")
       \/ p \in Problems /\ RowsOf(u, p) # {} /\ Answer(r, "ok")
       \/ /\ p \in Problems /\ RowsOf(u, p) = {}
          /\ \E w \in UnusedIds :
                Proceed(r, "insert", InSession("open", u, w, None, NewRow(u, p), 0))

\* Slip: the INSERT does not wait for an uncommitted twin.
KeyNeverPending(r) == FALSE

\* Slip: each of two twins waits for the other before either has inserted.
KeyPendingEarly(r) ==
    \E q \in Requests \ {r} :
        /\ pc[q] \in {"insert", "exit"} /\ session[q].kind = "open"
        /\ session[q].object.owner = session[r].object.owner
        /\ session[q].object.problem = session[r].object.problem

\* Another transaction has inserted the same user and problem and not committed.
KeyPending(r) ==
    \E q \in Requests \ {r} :
        /\ pc[q] = "exit" /\ session[q].kind = "open"
        /\ session[q].object.owner = session[r].object.owner
        /\ session[q].object.problem = session[r].object.problem

(***************************************************************************)
(* The flush sends the INSERT.  The unique constraint makes it wait for an *)
(* uncommitted twin and fail on a committed one; nothing catches that.     *)
(***************************************************************************)
Insert(r) ==
    /\ pc[r] = "insert"
    /\ ~KeyPending(r)
    /\ IF RowsOf(session[r].object.owner, session[r].object.problem) = {}
       THEN Proceed(r, "exit", session[r])
       ELSE Answer(r, "error")

\* Slip: the version is not bumped.
SavedUnversioned(row, c) == [row EXCEPT !.nodes = c.nodes, !.edges = c.edges]

\* What a save makes of the row it loaded.
Saved(row, c) ==
    [row EXCEPT !.nodes = c.nodes, !.edges = c.edges, !.version = @ + 1]

\* Slip: expected_version is ignored.
NeverStale(w, b) == FALSE

(***************************************************************************)
(* The client's expected_version is not the stored one.  b is the position *)
(* in the row's history of the state the client last read, whose version   *)
(* it sends; 0 when it sends none.                                         *)
(***************************************************************************)
Stale(w, b) == b # 0 /\ log[w][b].version # db[w].version

\* Slip: the edges are not checked against the nodes.
ListsOnly(c) == WithinBounds(c) /\ UniqueNodeIds(c)

\* WorkspaceSaveRequest adds only the version to the payload it inherits.
SaveRequestValid(c) == ValidCanvas(c)

\* PUT /workspaces/{id}: the schema, then ownership, then the version.
SaveWorkspace(r, u, w, b, c) ==
    /\ pc[r] = "idle"
    /\ QuietRow(w)
    /\ \/ ~SaveRequestValid(c) /\ Answer(r, "invalid")
       \/ SaveRequestValid(c) /\ ~Owned(w, u) /\ Answer(r, "not_found")
       \/ /\ SaveRequestValid(c) /\ Owned(w, u) /\ Stale(w, b)
          /\ Answer(r, "conflict")
       \/ /\ SaveRequestValid(c) /\ Owned(w, u) /\ ~Stale(w, b)
          /\ Proceed(r, "exit", InSession("save", u, w, db[w], Saved(db[w], c), b))

\* Slip: a new slug is drawn every time.
SharedAnew(row, r) == [row EXCEPT !.share = r]

\* Slip: sharing counts as a save.
SharedWithBump(row, r) ==
    [row EXCEPT !.share = IF @ = None THEN r ELSE @, !.version = @ + 1]

\* What sharing makes of the row it loaded: a slug is drawn only if none is set.
Shared(row, r) == [row EXCEPT !.share = IF @ = None THEN r ELSE @]

\* POST /workspaces/{id}/share: entitlement, then ownership.
ShareWorkspace(r, u, w) ==
    /\ pc[r] = "idle"
    /\ QuietRow(w)
    /\ \/ u \notin Entitled /\ Answer(r, "premium_required")
       \/ u \in Entitled /\ ~Owned(w, u) /\ Answer(r, "not_found")
       \/ /\ u \in Entitled /\ Owned(w, u)
          /\ Proceed(r, "exit", InSession("share", u, w, db[w], Shared(db[w], r), 0))

\* POST /workspaces/{id}/review, up to the call to the model.
ReviewWorkspace(r, u, w) ==
    /\ pc[r] = "idle"
    /\ \/ ~Owned(w, u) /\ Answer(r, "not_found")
       \/ Owned(w, u) /\ u \notin Entitled /\ Answer(r, "premium_required")
       \/ /\ Owned(w, u) /\ u \in Entitled
          /\ Proceed(r, "call", InSession("review", u, w, db[w], db[w], 0))

ReviewRow(r, s) ==
    [id |-> r, ws |-> s.ws, user |-> s.user, version |-> s.object.version,
     nodes |-> s.object.nodes, edges |-> s.object.edges]

\* Slip: the review is stored although the request fails.
ModelReplyAfterStoring(r) ==
    /\ pc[r] = "call"
    /\ \/ Proceed(r, "exit", session[r])
       \/ /\ pc' = [pc EXCEPT ![r] = "error"]
          /\ reviews' = reviews \cup {ReviewRow(r, session[r])}
          /\ UNCHANGED <<db, session, log>>

\* The model answers: the review row is flushed, or the error ends the request.
ModelReply(r) ==
    /\ pc[r] = "call"
    /\ \/ Proceed(r, "exit", session[r])
       \/ Answer(r, "error")
-----------------------------------------------------------------------------
Changed(loaded, object, stored) == IF object # loaded THEN object ELSE stored

(***************************************************************************)
(* An UPDATE sets only the columns whose value differs from the one that   *)
(* was loaded, and meets whatever the row holds by then.                   *)
(***************************************************************************)
Written(s, stored) ==
    [owner   |-> stored.owner,
     problem |-> stored.problem,
     version |-> Changed(s.loaded.version, s.object.version, stored.version),
     nodes   |-> Changed(s.loaded.nodes, s.object.nodes, stored.nodes),
     edges   |-> Changed(s.loaded.edges, s.object.edges, stored.edges),
     share   |-> Changed(s.loaded.share, s.object.share, stored.share)]

CommitOpen(r, s) ==
    /\ s.kind = "open"
    /\ db' = [db EXCEPT ![s.ws] = s.object]
    /\ log' = [log EXCEPT ![s.ws] = Append(@, Entry(s.object, 0, r))]
    /\ UNCHANGED reviews

CommitSave(r, s) ==
    /\ s.kind = "save"
    /\ db' = [db EXCEPT ![s.ws] = Written(s, @)]
    /\ log' = [log EXCEPT ![s.ws] = Append(@, Entry(Written(s, db[s.ws]), s.seen, r))]
    /\ UNCHANGED reviews

CommitShare(r, s) ==
    /\ s.kind = "share"
    /\ db' = [db EXCEPT ![s.ws] = Written(s, @)]
    /\ UNCHANGED <<reviews, log>>

\* Slip: the version is read again after the model's answer.
CommitReviewRereading(r, s) ==
    /\ s.kind = "review"
    /\ reviews' = reviews \cup
           {[ReviewRow(r, s) EXCEPT !.version = db[s.ws].version]}
    /\ UNCHANGED <<db, log>>

CommitReview(r, s) ==
    /\ s.kind = "review"
    /\ reviews' = reviews \cup {ReviewRow(r, s)}
    /\ UNCHANGED <<db, log>>

\* get_db commits once the handler has returned.
Commit(r) ==
    /\ pc[r] = "exit"
    /\ \/ CommitOpen(r, session[r])
       \/ CommitSave(r, session[r])
       \/ CommitShare(r, session[r])
       \/ CommitReview(r, session[r])
    /\ pc' = [pc EXCEPT ![r] = "ok"]
    /\ UNCHANGED session

\* The process or the connection dies: the transaction is rolled back.
Crash(r) == pc[r] \in Running /\ Answer(r, "lost")

Begin(r) ==
    \/ TurnedAway(r)
    \/ \E u \in Users, p \in Slugs : OpenWorkspace(r, u, p)
    \/ \E u \in Users, w \in WsIds, c \in Drawings :
           \E b \in 0 .. Len(log[w]) : SaveWorkspace(r, u, w, b, c)
    \/ \E u \in Users, w \in WsIds : ShareWorkspace(r, u, w)
    \/ \E u \in Users, w \in WsIds : ReviewWorkspace(r, u, w)

Serve(r) == Insert(r) \/ ModelReply(r) \/ Commit(r)

Next == \E r \in Requests : Begin(r) \/ Serve(r) \/ Crash(r)

(***************************************************************************)
(* A request that has begun is served: the event loop resumes a coroutine  *)
(* whose await is over, PostgreSQL answers, and the model call returns or  *)
(* fails (the SDK bounds it by a timeout).  Clients need not send anything *)
(* and nothing need crash.                                                 *)
(***************************************************************************)
Fairness == \A r \in Requests : WF_vars(Serve(r))

Spec == Init /\ [][Next]_vars /\ Fairness
-----------------------------------------------------------------------------
TypeOK ==
    /\ db \in [WsIds -> Row \cup {None}]
    /\ reviews \in SUBSET Review
    /\ pc \in [Requests -> {"idle"} \cup Running \cup Finished]
    /\ session \in [Requests -> Session \cup {None}]
    /\ log \in [WsIds -> Seq(LogEntry)]
    /\ \A r \in Requests : pc[r] \in Running => session[r] # None

(***************************************************************************)
(* However their requests overlap, a user has at most one canvas for a     *)
(* problem: get_or_create_workspace looks before it inserts, and what the  *)
(* look misses the unique constraint catches.                              *)
(***************************************************************************)
OneWorkspacePerProblem ==
    \A v, w \in WsIds :
        /\ db[v] # None /\ db[w] # None
        /\ db[v].owner = db[w].owner /\ db[v].problem = db[w].problem
        => v = w

(***************************************************************************)
(* A review names a canvas and a version the workspace really held         *)
(* together, although saves may land while the model is answering:         *)
(* review_workspace stores the version it loaded with the canvas it sent.  *)
(***************************************************************************)
ReviewsPinStoredCanvas ==
    \A rv \in reviews : \E i \in 1 .. Len(log[rv.ws]) :
        /\ log[rv.ws][i].version = rv.version
        /\ log[rv.ws][i].nodes = rv.nodes
        /\ log[rv.ws][i].edges = rv.edges

(***************************************************************************)
(* A request has its effect exactly when it is answered ok: whatever made  *)
(* it fail (a refusal, the model, the constraint, a crash between two      *)
(* steps), its session leaves no trace in either table.                    *)
(***************************************************************************)
EffectsOfOkRequestsOnly ==
    /\ \A w \in WsIds : \A i \in 1 .. Len(log[w]) :
           log[w][i].by # None => pc[log[w][i].by] = "ok"
    /\ \A rv \in reviews : pc[rv.id] = "ok"
    /\ \A w \in WsIds :
           db[w] # None /\ db[w].share # None => pc[db[w].share] = "ok"
    /\ \A r \in Requests :
           pc[r] = "ok" /\ session[r] # None =>
               CASE session[r].kind \in {"open", "save"} ->
                        \E i \in 1 .. Len(log[session[r].ws]) : log[session[r].ws][i].by = r
                 [] session[r].kind = "review" -> \E rv \in reviews : rv.id = r
                 [] OTHER -> db[session[r].ws].share # None

\* Every request the server took up comes to an end, the blocked inserts too.
RequestsFinish == \A r \in Requests : pc[r] \in Running ~> pc[r] \in Finished
-----------------------------------------------------------------------------
(***************************************************************************)
(* The remaining properties are what optimistic concurrency is for.        *)
(***************************************************************************)

(***************************************************************************)
(* No save silently overwrites one its author had not seen: a save that    *)
(* states a version replaces the very state its author last read           *)
(* (save_workspace; models/system_design.py, the comment on version).      *)
(***************************************************************************)
SavesBuildOnWhatTheyReplace ==
    \A w \in WsIds : \A i \in 2 .. Len(log[w]) : log[w][i].seen \in {0, i - 1}

(***************************************************************************)
(* A version names one state of the canvas, so that a client's version and *)
(* a review's version mean something after later saves.                    *)
(***************************************************************************)
VersionNamesOneCanvas ==
    \A w \in WsIds : \A i, j \in 1 .. Len(log[w]) :
        log[w][i].version = log[w][j].version => i = j

(***************************************************************************)
(* What is stored is a graph the schema would accept, although an UPDATE   *)
(* writes nodes and edges as separate columns.                             *)
(***************************************************************************)
StoredCanvasesValid ==
    \A w \in WsIds :
        db[w] # None => ValidCanvas([nodes |-> db[w].nodes, edges |-> db[w].edges])

(***************************************************************************)
(* A share link that a client was given stays the workspace's link, even   *)
(* if it is asked for again: create_share_link reuses the slug it finds.   *)
(***************************************************************************)
AnsweredLinksResolve ==
    \A r \in Requests :
        pc[r] = "ok" /\ session[r] # None /\ session[r].kind = "share"
        => db[session[r].ws].share = session[r].object.share

(***************************************************************************)
(* With saves of one canvas one after another, each workspace is the       *)
(* versioned register that VersionedCanvas describes.                      *)
(***************************************************************************)
Promise == INSTANCE VersionedCanvas WITH
    Ids      <- WsIds,
    Canvases <- {c \in Drawings : ValidCanvas(c)},
    Blank    <- BlankCanvas,
    stored   <- [w \in WsIds |->
                    IF db[w] = None THEN None
                    ELSE [version |-> db[w].version, nodes |-> db[w].nodes,
                          edges |-> db[w].edges]],
    seen     <- [w \in WsIds |-> [i \in 1 .. Len(log[w]) |-> log[w][i].seen]]

SavesAreAtomic == Promise!Spec
=============================================================================
