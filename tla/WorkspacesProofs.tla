-------------------------- MODULE WorkspacesProofs --------------------------
(***************************************************************************)
(* Theorems about Workspaces, for every value of its constants.            *)
(***************************************************************************)
EXTENDS Workspaces, TLAPS

(***************************************************************************)
(* Type correctness is not inductive alone: the UPDATE of a save yields a  *)
(* row only because the row it loaded is still there.                      *)
(***************************************************************************)
SessionsHaveRows ==
    \A r \in Requests :
        pc[r] \in Running /\ session[r].kind # "open" => db[session[r].ws] # None

TypeInv == TypeOK /\ SessionsHaveRows

LEMMA NoneIsNothing ==
    /\ None \notin Row /\ None \notin Session /\ None \notin Requests
    /\ None \notin [version : Nat, nodes : Seq(NodeIds), edges : Seq(CanvasEdge)]
  BY NoneAssumption

\* What a session is made of.
LEMMA InSessionType ==
    ASSUME NEW kind \in {"open", "save", "share", "review"}, NEW u \in Users,
           NEW w \in WsIds, NEW loaded \in Row \cup {None}, NEW object \in Row,
           NEW seen \in Nat
    PROVE  /\ InSession(kind, u, w, loaded, object, seen) \in Session
           /\ InSession(kind, u, w, loaded, object, seen).kind = kind
           /\ InSession(kind, u, w, loaded, object, seen).ws = w
           /\ InSession(kind, u, w, loaded, object, seen).loaded = loaded
           /\ InSession(kind, u, w, loaded, object, seen).object = object
           /\ InSession(kind, u, w, loaded, object, seen).seen = seen
  BY DEF InSession, Session

LEMMA NewRowType ==
    ASSUME NEW u \in Users, NEW p \in Problems
    PROVE  NewRow(u, p) \in Row
  <1>1. BlankCanvas.nodes \in Seq(NodeIds) /\ BlankCanvas.edges \in Seq(CanvasEdge)
    BY DEF BlankCanvas
  <1> QED  BY <1>1 DEF NewRow, Row

LEMMA EntryType ==
    ASSUME NEW row \in Row, NEW seen \in Nat, NEW by \in Requests \cup {None}
    PROVE  /\ Entry(row, seen, by) \in LogEntry
           /\ Entry(row, seen, by).version = row.version
           /\ Entry(row, seen, by).nodes = row.nodes
           /\ Entry(row, seen, by).edges = row.edges
           /\ Entry(row, seen, by).seen = seen
  BY DEF Entry, LogEntry, Row

LEMMA WrittenType ==
    ASSUME NEW s \in Session, NEW stored \in Row
    PROVE  Written(s, stored) \in Row
  BY DEF Written, Changed, Session, Row
-----------------------------------------------------------------------------
\* The two ways a handler's step can leave the request.
LEMMA AnswerType ==
    ASSUME TypeInv, NEW r \in Requests, NEW outcome \in Finished, Answer(r, outcome)
    PROVE  TypeInv'
  <1>1. outcome \notin Running
    BY DEF Finished, Running, Refusals, Failures
  <1> QED  BY <1>1 DEF TypeInv, TypeOK, SessionsHaveRows, Answer

LEMMA ProceedType ==
    ASSUME TypeInv, NEW r \in Requests, NEW step \in Running, NEW s \in Session,
           s.kind = "open" \/ db[s.ws] # None, Proceed(r, step, s)
    PROVE  TypeInv'
  BY NoneIsNothing DEF TypeInv, TypeOK, SessionsHaveRows, Proceed

LEMMA OutcomesAndSteps ==
    /\ {"ok", "refused", "not_found", "invalid", "conflict", "premium_required",
        "error", "lost"} \subseteq Finished
    /\ {"insert", "call", "exit"} \subseteq Running
    /\ "idle" \notin Running /\ "ok" \notin Running
  BY DEF Finished, Running, Refusals, Failures

LEMMA OpenType ==
    ASSUME TypeInv, NEW r \in Requests, NEW u \in Users, NEW p \in Slugs,
           OpenWorkspace(r, u, p)
    PROVE  TypeInv'
  <1>1. CASE Answer(r, "not_found") \/ Answer(r, "ok")
    BY <1>1, AnswerType, OutcomesAndSteps
  <1>2. ASSUME p \in Problems, NEW w \in UnusedIds,
               Proceed(r, "insert", InSession("open", u, w, None, NewRow(u, p), 0))
        PROVE  TypeInv'
    <2>1. w \in WsIds
      BY DEF UnusedIds
    <2>2. InSession("open", u, w, None, NewRow(u, p), 0) \in Session
      BY <1>2, <2>1, NewRowType, InSessionType
    <2>3. InSession("open", u, w, None, NewRow(u, p), 0).kind = "open"
      BY DEF InSession
    <2> QED  BY <1>2, <2>2, <2>3, ProceedType, OutcomesAndSteps
  <1> QED  BY <1>1, <1>2 DEF OpenWorkspace

LEMMA InsertType ==
    ASSUME TypeInv, NEW r \in Requests, Insert(r)
    PROVE  TypeInv'
  <1>1. CASE Proceed(r, "exit", session[r])
    <2>1. session[r] \in Session /\ (session[r].kind = "open" \/ db[session[r].ws] # None)
      BY OutcomesAndSteps DEF TypeInv, TypeOK, SessionsHaveRows, Insert
    <2> QED  BY <1>1, <2>1, ProceedType, OutcomesAndSteps
  <1>2. CASE Answer(r, "error")
    BY <1>2, AnswerType, OutcomesAndSteps
  <1> QED  BY <1>1, <1>2 DEF Insert

LEMMA OwnedRow ==
    ASSUME TypeInv, NEW w \in WsIds, NEW u \in Users, Owned(w, u)
    PROVE  db[w] \in Row
  BY DEF TypeInv, TypeOK, Owned

LEMMA SavedType ==
    ASSUME TypeInv, NEW w \in WsIds, NEW u \in Users, Owned(w, u), NEW c \in Drawings,
           NEW b \in 0 .. Len(log[w])
    PROVE  Saved(db[w], c) \in Row /\ b \in Nat
  <1>1. c.nodes \in Seq(NodeIds) /\ c.edges \in Seq(CanvasEdge)
    BY DrawingsAssumption DEF Canvas
  <1>2. db[w] \in Row
    BY OwnedRow
  <1>3. db[w].version + 1 \in Nat
    BY <1>2 DEF Row
  <1>4. b \in Nat
    BY DEF TypeInv, TypeOK
  <1> QED  BY <1>1, <1>2, <1>3, <1>4 DEF Row, Saved

LEMMA SharedType ==
    ASSUME TypeInv, NEW w \in WsIds, NEW u \in Users, Owned(w, u), NEW r \in Requests
    PROVE  Shared(db[w], r) \in Row
  <1>1. db[w] \in Row
    BY OwnedRow
  <1> QED  BY <1>1 DEF Row, Shared

LEMMA SaveType ==
    ASSUME TypeInv, NEW r \in Requests, NEW u \in Users, NEW w \in WsIds,
           NEW c \in Drawings, NEW b \in 0 .. Len(log[w]), SaveWorkspace(r, u, w, b, c)
    PROVE  TypeInv'
  <1> DEFINE saved == Saved(db[w], c)
  <1>1. CASE Answer(r, "invalid") \/ Answer(r, "not_found") \/ Answer(r, "conflict")
    BY <1>1, AnswerType, OutcomesAndSteps
  <1>2. ASSUME Owned(w, u), Proceed(r, "exit", InSession("save", u, w, db[w], saved, b))
        PROVE  TypeInv'
    <2>1. db[w] \in Row /\ saved \in Row /\ b \in Nat
      BY <1>2, OwnedRow, SavedType
    <2> HIDE DEF saved
    <2>2. InSession("save", u, w, db[w], saved, b) \in Session
      BY <2>1, InSessionType
    <2> QED  BY <1>2, <2>1, <2>2, InSessionType, ProceedType, OutcomesAndSteps DEF Owned
  <1> QED  BY <1>1, <1>2 DEF SaveWorkspace

LEMMA ShareType ==
    ASSUME TypeInv, NEW r \in Requests, NEW u \in Users, NEW w \in WsIds,
           ShareWorkspace(r, u, w)
    PROVE  TypeInv'
  <1> DEFINE shared == Shared(db[w], r)
  <1>1. CASE Answer(r, "premium_required") \/ Answer(r, "not_found")
    BY <1>1, AnswerType, OutcomesAndSteps
  <1>2. ASSUME Owned(w, u), Proceed(r, "exit", InSession("share", u, w, db[w], shared, 0))
        PROVE  TypeInv'
    <2>1. db[w] \in Row
      BY <1>2, OwnedRow
    <2>2. shared \in Row
      BY <1>2, SharedType
    <2>3. InSession("share", u, w, db[w], shared, 0) \in Session
      BY <2>1, <2>2, InSessionType
    <2> HIDE DEF shared
    <2> QED  BY <1>2, <2>1, <2>2, <2>3, InSessionType, ProceedType, OutcomesAndSteps DEF Owned
  <1> QED  BY <1>1, <1>2 DEF ShareWorkspace

LEMMA ReviewType ==
    ASSUME TypeInv, NEW r \in Requests, NEW u \in Users, NEW w \in WsIds,
           ReviewWorkspace(r, u, w)
    PROVE  TypeInv'
  <1>1. CASE Answer(r, "not_found") \/ Answer(r, "premium_required")
    BY <1>1, AnswerType, OutcomesAndSteps
  <1>2. ASSUME Owned(w, u), Proceed(r, "call", InSession("review", u, w, db[w], db[w], 0))
        PROVE  TypeInv'
    <2>1. db[w] \in Row
      BY <1>2, OwnedRow
    <2>2. InSession("review", u, w, db[w], db[w], 0) \in Session
      BY <2>1, InSessionType
    <2> QED  BY <1>2, <2>1, <2>2, InSessionType, ProceedType, OutcomesAndSteps DEF Owned
  <1> QED  BY <1>1, <1>2 DEF ReviewWorkspace

LEMMA ModelReplyType ==
    ASSUME TypeInv, NEW r \in Requests, ModelReply(r)
    PROVE  TypeInv'
  <1>1. CASE Proceed(r, "exit", session[r])
    <2>1. session[r] \in Session /\ (session[r].kind = "open" \/ db[session[r].ws] # None)
      BY OutcomesAndSteps DEF TypeInv, TypeOK, SessionsHaveRows, ModelReply
    <2> QED  BY <1>1, <2>1, ProceedType, OutcomesAndSteps
  <1>2. CASE Answer(r, "error")
    BY <1>2, AnswerType, OutcomesAndSteps
  <1> QED  BY <1>1, <1>2 DEF ModelReply
LEMMA CommitType ==
    ASSUME TypeInv, NEW r \in Requests, Commit(r)
    PROVE  TypeInv'
  <1> DEFINE s == session[r]
  <1>1. s \in Session /\ s.ws \in WsIds
    BY OutcomesAndSteps DEF TypeInv, TypeOK, Commit, Session
  <1>2. /\ s.user \in Users /\ s.seen \in Nat /\ s.object \in Row
        /\ s.object.version \in Nat /\ s.object.nodes \in Seq(NodeIds)
        /\ s.object.edges \in Seq(CanvasEdge)
    BY <1>1 DEF Session, Row
  <1>3. pc' \in [Requests -> {"idle"} \cup Running \cup Finished]
    BY OutcomesAndSteps DEF TypeInv, TypeOK, Commit
  <1>4. session' = session /\ \A q \in Requests : pc'[q] \in Running => pc[q] \in Running
    BY OutcomesAndSteps DEF TypeInv, TypeOK, Commit
  <1>5. s.kind # "open" => db[s.ws] \in Row
    BY <1>1, OutcomesAndSteps DEF TypeInv, TypeOK, SessionsHaveRows, Commit
  <1>6. /\ db' \in [WsIds -> Row \cup {None}]
        /\ \A w \in WsIds : db[w] # None => db'[w] # None
        /\ log' \in [WsIds -> Seq(LogEntry)]
        /\ reviews' \in SUBSET Review
    <2> HIDE DEF s
    <2>1. CASE CommitOpen(r, s)
      <3>1. Entry(s.object, 0, r) \in LogEntry
        BY <1>2, EntryType
      <3> QED  BY <2>1, <3>1, <1>1, <1>2, NoneIsNothing DEF CommitOpen, TypeInv, TypeOK
    <2>2. CASE CommitSave(r, s)
      <3>1. Written(s, db[s.ws]) \in Row
        BY <2>2, <1>1, <1>5, WrittenType DEF CommitSave
      <3>2. Entry(Written(s, db[s.ws]), s.seen, r) \in LogEntry
        BY <3>1, <1>2, EntryType
      <3> QED  BY <2>2, <3>1, <3>2, <1>1, NoneIsNothing DEF CommitSave, TypeInv, TypeOK
    <2>3. CASE CommitShare(r, s)
      <3>1. Written(s, db[s.ws]) \in Row
        BY <2>3, <1>1, <1>5, WrittenType DEF CommitShare
      <3> QED  BY <2>3, <3>1, <1>1, NoneIsNothing DEF CommitShare, TypeInv, TypeOK
    <2>4. CASE CommitReview(r, s)
      BY <2>4, <1>1, <1>2 DEF CommitReview, ReviewRow, TypeInv, TypeOK, Review
    <2> QED  BY <2>1, <2>2, <2>3, <2>4 DEF Commit, s
  <1> QED  BY <1>3, <1>4, <1>6 DEF TypeInv, TypeOK, SessionsHaveRows, Session

LEMMA CrashType ==
    ASSUME TypeInv, NEW r \in Requests, Crash(r)
    PROVE  TypeInv'
  BY AnswerType, OutcomesAndSteps DEF Crash

LEMMA BeginType ==
    ASSUME TypeInv, NEW r \in Requests, Begin(r)
    PROVE  TypeInv'
  <1>1. CASE TurnedAway(r)
    BY <1>1, AnswerType, OutcomesAndSteps DEF TurnedAway
  <1> QED  BY <1>1, OpenType, SaveType, ShareType, ReviewType DEF Begin

LEMMA StutterType ==
    ASSUME TypeInv, UNCHANGED vars
    PROVE  TypeInv'
  BY DEF TypeInv, TypeOK, SessionsHaveRows, vars

LEMMA InitType ==
    ASSUME Init
    PROVE  TypeInv
  <1>1. ASSUME NEW w \in DOMAIN Opened
        PROVE  NewRow(Opened[w].owner, Opened[w].problem) \in Row
    BY OpenedAssumption, NewRowType
  <1>2. db \in [WsIds -> Row \cup {None}]
    BY <1>1 DEF Init
  <1>3. ASSUME NEW w \in WsIds
        PROVE  log[w] \in Seq(LogEntry)
    <2>1. CASE w \in DOMAIN Opened
      <3>1. db[w] \in Row
        BY <2>1, <1>1 DEF Init
      <3>2. Entry(db[w], 0, None) \in LogEntry
        BY <3>1, EntryType
      <3> QED  BY <2>1, <3>2 DEF Init
    <2>2. CASE w \notin DOMAIN Opened
      BY <2>2 DEF Init
    <2> QED  BY <2>1, <2>2
  <1>4. log \in [WsIds -> Seq(LogEntry)]
    BY <1>3 DEF Init
  <1> QED  BY <1>2, <1>4, OutcomesAndSteps DEF Init, TypeInv, TypeOK, SessionsHaveRows

LEMMA TypeInvariant == Spec => []TypeInv
  <1>1. TypeInv /\ [Next]_vars => TypeInv'
    BY BeginType, InsertType, ModelReplyType, CommitType, CrashType, StutterType
       DEF Next, Serve
  <1> QED  BY <1>1, InitType, PTL DEF Spec

(***************************************************************************)
(* Every state the API reaches is well typed, whatever requests overlap.   *)
(***************************************************************************)
THEOREM TypeCorrect == Spec => []TypeOK
  <1>1. TypeInv => TypeOK
    BY DEF TypeInv
  <1> QED  BY <1>1, TypeInvariant, PTL
-----------------------------------------------------------------------------
(***************************************************************************)
(* Reviews.  A review is stored with the row its session loaded, so the    *)
(* invariant says that every row, when loaded, is the last entry of its    *)
(* history, and that histories only grow.                                  *)
(***************************************************************************)
Matches(e, row) ==
    e.version = row.version /\ e.nodes = row.nodes /\ e.edges = row.edges

InHistory(w, row) == \E i \in 1 .. Len(log[w]) : Matches(log[w][i], row)

RowsEndTheirHistory ==
    \A w \in WsIds : db[w] # None =>
        Len(log[w]) \in 1 .. Len(log[w]) /\ Matches(log[w][Len(log[w])], db[w])

\* A review sends a stored canvas to the model; sharing leaves the canvas alone.
Fits(s) ==
    /\ s.kind = "review" => InHistory(s.ws, s.object)
    /\ s.kind = "share" => Matches(s.object, s.loaded)

SessionsFit == \A r \in Requests : pc[r] \in Running => Fits(session[r])

ReviewInv ==
    /\ RowsEndTheirHistory
    /\ SessionsFit
    /\ ReviewsPinStoredCanvas

LEMMA AnswerReview ==
    ASSUME TypeInv, ReviewInv, NEW r \in Requests, NEW outcome \in Finished,
           Answer(r, outcome)
    PROVE  ReviewInv'
  <1>1. outcome \notin Running
    BY DEF Finished, Running, Refusals, Failures
  <1>2. SessionsFit'
    BY <1>1 DEF ReviewInv, SessionsFit, Fits, InHistory, Answer, TypeInv, TypeOK
  <1>3. RowsEndTheirHistory' /\ ReviewsPinStoredCanvas'
    BY DEF ReviewInv, RowsEndTheirHistory, ReviewsPinStoredCanvas, Answer
  <1> QED  BY <1>2, <1>3 DEF ReviewInv

LEMMA ProceedReview ==
    ASSUME TypeInv, ReviewInv, NEW r \in Requests, NEW step, NEW s,
           Fits(s), Proceed(r, step, s)
    PROVE  ReviewInv'
  <1>1. SessionsFit'
    BY DEF ReviewInv, SessionsFit, Fits, InHistory, Proceed, TypeInv, TypeOK
  <1>2. RowsEndTheirHistory' /\ ReviewsPinStoredCanvas'
    BY DEF ReviewInv, RowsEndTheirHistory, ReviewsPinStoredCanvas, Proceed
  <1> QED  BY <1>1, <1>2 DEF ReviewInv

\* A handler under way goes on with the session it has.
LEMMA ResumeReview ==
    ASSUME TypeInv, ReviewInv, NEW r \in Requests, pc[r] \in Running, NEW step,
           Proceed(r, step, session[r])
    PROVE  ReviewInv'
  <1>1. Fits(session[r])
    BY DEF ReviewInv, SessionsFit
  <1> QED  BY <1>1, ProceedReview

LEMMA BeginReview ==
    ASSUME TypeInv, ReviewInv, NEW r \in Requests, Begin(r)
    PROVE  ReviewInv'
  <1>1. CASE TurnedAway(r)
    BY <1>1, AnswerReview, OutcomesAndSteps DEF TurnedAway
  <1>2. ASSUME NEW u \in Users, NEW p \in Slugs, OpenWorkspace(r, u, p)
        PROVE  ReviewInv'
    <2>1. ASSUME NEW w \in UnusedIds
          PROVE  Fits(InSession("open", u, w, None, NewRow(u, p), 0))
      BY DEF InSession, Fits
    <2> QED  BY <1>2, <2>1, AnswerReview, ProceedReview, OutcomesAndSteps DEF OpenWorkspace
  <1>3. ASSUME NEW u \in Users, NEW w \in WsIds, NEW c \in Drawings,
               NEW b \in 0 .. Len(log[w]), SaveWorkspace(r, u, w, b, c)
        PROVE  ReviewInv'
    <2>1. \A object : Fits(InSession("save", u, w, db[w], object, b))
      BY DEF InSession, Fits
    <2> QED  BY <1>3, <2>1, AnswerReview, ProceedReview, OutcomesAndSteps DEF SaveWorkspace
  <1>4. ASSUME NEW u \in Users, NEW w \in WsIds, ShareWorkspace(r, u, w)
        PROVE  ReviewInv'
    <2> DEFINE shared == Shared(db[w], r)
               s == InSession("share", u, w, db[w], shared, 0)
    <2>1. CASE Owned(w, u) /\ Proceed(r, "exit", s)
      <3>1. db[w] \in Row
        BY <2>1, OwnedRow
      <3>2. Matches(shared, db[w])
        BY <3>1 DEF Matches, Row, Shared
      <3>3. s.kind = "share" /\ s.object = shared /\ s.loaded = db[w]
        BY DEF InSession
      <3>4. Fits(s)
        <4> HIDE DEF s, shared
        <4> QED  BY <3>2, <3>3 DEF Fits
      <3> QED  BY <2>1, <3>4, ProceedReview
    <2> QED  BY <1>4, <2>1, AnswerReview, OutcomesAndSteps DEF ShareWorkspace
  <1>5. ASSUME NEW u \in Users, NEW w \in WsIds, ReviewWorkspace(r, u, w)
        PROVE  ReviewInv'
    <2> DEFINE s == InSession("review", u, w, db[w], db[w], 0)
    <2>1. CASE Owned(w, u) /\ Proceed(r, "call", s)
      <3>1. s.ws = w /\ s.object = db[w]
        BY DEF InSession
      <3>2. InHistory(w, db[w])
        BY <2>1 DEF ReviewInv, RowsEndTheirHistory, InHistory, Owned
      <3>3. Fits(s)
        BY <3>1, <3>2 DEF Fits, InSession
      <3> QED  BY <2>1, <3>3, ProceedReview
    <2> QED  BY <1>5, <2>1, AnswerReview, OutcomesAndSteps DEF ReviewWorkspace
  <1> QED  BY <1>1, <1>2, <1>3, <1>4, <1>5 DEF Begin

LEMMA AppendKeeps ==
    ASSUME NEW S, NEW q \in Seq(S), NEW e \in S
    PROVE  /\ Append(q, e) \in Seq(S)
           /\ Len(Append(q, e)) = Len(q) + 1 /\ Len(q) \in Nat
           /\ \A i \in 1 .. Len(q) : Append(q, e)[i] = q[i]
           /\ Append(q, e)[Len(q) + 1] = e
  OBVIOUS

\* What a commit does to the tables and the histories.
LEMMA CommitEffect ==
    ASSUME TypeInv, NEW r \in Requests, Commit(r)
    PROVE  /\ session[r] \in Session
           /\ session' = session /\ pc' = [pc EXCEPT ![r] = "ok"]
           /\ session[r].ws \in WsIds
           /\ session[r].kind # "open" => db[session[r].ws] \in Row
  <1>1. pc[r] \in Running /\ session[r] \in Session
    BY OutcomesAndSteps DEF TypeInv, TypeOK, Commit
  <1>2. session[r].ws \in WsIds
    BY <1>1 DEF Session
  <1>3. session[r].kind # "open" => db[session[r].ws] \in Row
    BY <1>1, <1>2 DEF TypeInv, TypeOK, SessionsHaveRows
  <1>4. session' = session /\ pc' = [pc EXCEPT ![r] = "ok"]
    BY DEF Commit
  <1> QED  BY <1>1, <1>2, <1>3, <1>4

\* A commit that adds a version adds the row it stores to the end of the history.
Versions(w, row, seen, r) ==
    /\ db' = [db EXCEPT ![w] = row]
    /\ log' = [log EXCEPT ![w] = Append(@, Entry(row, seen, r))]
    /\ reviews' = reviews

LEMMA VersionsKeepHistory ==
    ASSUME TypeInv, ReviewInv, NEW r \in Requests, NEW w \in WsIds, NEW row \in Row,
           NEW seen \in Nat, Versions(w, row, seen, r)
    PROVE  /\ \A v \in WsIds : \A i \in 1 .. Len(log[v]) :
                  i \in 1 .. Len(log'[v]) /\ log'[v][i] = log[v][i]
           /\ RowsEndTheirHistory'
  <1>1. log \in [WsIds -> Seq(LogEntry)] /\ Entry(row, seen, r) \in LogEntry
    BY EntryType DEF TypeInv, TypeOK
  <1>2. \A v \in WsIds :
            log'[v] = IF v = w THEN Append(log[w], Entry(row, seen, r)) ELSE log[v]
    BY <1>1 DEF Versions
  <1>3. \A v \in WsIds : db'[v] = IF v = w THEN row ELSE db[v]
    BY DEF Versions, TypeInv, TypeOK
  <1>4. /\ Len(Append(log[w], Entry(row, seen, r))) = Len(log[w]) + 1
        /\ Len(log[w]) \in Nat
        /\ \A i \in 1 .. Len(log[w]) :
              Append(log[w], Entry(row, seen, r))[i] = log[w][i]
        /\ Append(log[w], Entry(row, seen, r))[Len(log[w]) + 1] = Entry(row, seen, r)
    BY <1>1, AppendKeeps
  <1>5. Matches(Entry(row, seen, r), row)
    BY EntryType DEF Matches
  <1>6. ASSUME NEW v \in WsIds, NEW i \in 1 .. Len(log[v])
        PROVE  i \in 1 .. Len(log'[v]) /\ log'[v][i] = log[v][i]
    <2>1. CASE v = w
      <3>1. log'[v] = Append(log[w], Entry(row, seen, r)) /\ i \in 1 .. Len(log[w])
        BY <2>1, <1>2
      <3>2. i \in 1 .. Len(log[w]) + 1
        BY <3>1, <1>4
      <3> QED  BY <2>1, <3>1, <3>2, <1>4
    <2>2. CASE v # w
      BY <2>2, <1>2
    <2> QED  BY <2>1, <2>2
  <1>7. ASSUME NEW v \in WsIds, db'[v] # None
        PROVE  /\ Len(log'[v]) \in 1 .. Len(log'[v])
               /\ Matches(log'[v][Len(log'[v])], db'[v])
    <2>1. CASE v = w
      <3>1. Len(log'[v]) = Len(log[w]) + 1
            /\ log'[v][Len(log'[v])] = Entry(row, seen, r) /\ db'[v] = row
        BY <2>1, <1>2, <1>3, <1>4
      <3> QED  BY <3>1, <1>4, <1>5
    <2>2. CASE v # w
      BY <2>2, <1>2, <1>3, <1>7 DEF ReviewInv, RowsEndTheirHistory
    <2> QED  BY <2>1, <2>2
  <1> QED  BY <1>6, <1>7 DEF RowsEndTheirHistory

LEMMA CommitReviewInv ==
    ASSUME TypeInv, ReviewInv, NEW r \in Requests, Commit(r)
    PROVE  ReviewInv'
  <1> DEFINE s == session[r]
  <1>1. s \in Session /\ s.ws \in WsIds /\ (s.kind # "open" => db[s.ws] \in Row)
        /\ session' = session /\ pc' = [pc EXCEPT ![r] = "ok"]
    BY CommitEffect
  <1>2. \A q \in Requests : pc'[q] \in Running => pc[q] \in Running
    BY <1>1, OutcomesAndSteps DEF TypeInv, TypeOK
  <1>3. s.object \in Row /\ s.seen \in Nat /\ s.kind \in {"open", "save", "share", "review"}
    BY <1>1 DEF Session
  <1>4. pc[r] \in Running
    BY OutcomesAndSteps DEF Commit
  <1>5. ASSUME NEW row \in Row, NEW seen \in Nat, Versions(s.ws, row, seen, r)
        PROVE  ReviewInv'
    <2>1. \A v \in WsIds : \A i \in 1 .. Len(log[v]) :
              i \in 1 .. Len(log'[v]) /\ log'[v][i] = log[v][i]
      BY <1>1, <1>5, VersionsKeepHistory
    <2>2. RowsEndTheirHistory'
      BY <1>1, <1>5, VersionsKeepHistory
    <2>3. ReviewsPinStoredCanvas'
      <3>1. reviews' = reviews /\ \A rv \in reviews : rv.ws \in WsIds
        BY <1>5 DEF Versions, TypeInv, TypeOK, Review
      <3>2. ASSUME NEW rv \in reviews
            PROVE  \E i \in 1 .. Len(log'[rv.ws]) :
                      /\ log'[rv.ws][i].version = rv.version
                      /\ log'[rv.ws][i].nodes = rv.nodes
                      /\ log'[rv.ws][i].edges = rv.edges
        <4>1. PICK i \in 1 .. Len(log[rv.ws]) :
                      /\ log[rv.ws][i].version = rv.version
                      /\ log[rv.ws][i].nodes = rv.nodes
                      /\ log[rv.ws][i].edges = rv.edges
          BY <3>2 DEF ReviewInv, ReviewsPinStoredCanvas
        <4>2. i \in 1 .. Len(log'[rv.ws]) /\ log'[rv.ws][i] = log[rv.ws][i]
          BY <3>1, <2>1
        <4> QED  BY <4>1, <4>2
      <3> QED  BY <3>1, <3>2 DEF ReviewsPinStoredCanvas
    <2>4. SessionsFit'
      <3>1. \A q \in Requests : pc[q] \in Running => session[q].ws \in WsIds
        BY DEF TypeInv, TypeOK, Session
      <3> QED  BY <3>1, <2>1, <1>1, <1>2 DEF ReviewInv, SessionsFit, Fits, InHistory
    <2> QED  BY <2>2, <2>3, <2>4 DEF ReviewInv
  <1> HIDE DEF s
  <1>6. CASE CommitOpen(r, s)
    <2>1. Versions(s.ws, s.object, 0, r)
      BY <1>6 DEF CommitOpen, Versions
    <2> QED  BY <2>1, <1>3, <1>5
  <1>7. CASE CommitSave(r, s)
    <2>1. Written(s, db[s.ws]) \in Row
      BY <1>7, <1>1, WrittenType DEF CommitSave
    <2>2. Versions(s.ws, Written(s, db[s.ws]), s.seen, r)
      BY <1>7 DEF CommitSave, Versions
    <2> QED  BY <2>1, <2>2, <1>3, <1>5
  <1>8. CASE CommitShare(r, s)
    <2>1. Matches(Written(s, db[s.ws]), db[s.ws])
      BY <1>8, <1>4 DEF CommitShare, ReviewInv, SessionsFit, Fits, Matches, Written, Changed, s
    <2>2. \A v \in WsIds : db'[v] # None => db[v] # None /\ Matches(db'[v], db[v])
      BY <2>1, <1>1, <1>8, NoneIsNothing DEF CommitShare, TypeInv, TypeOK, Matches
    <2>3. RowsEndTheirHistory'
      BY <2>2, <1>8 DEF CommitShare, ReviewInv, RowsEndTheirHistory, Matches
    <2>4. ReviewsPinStoredCanvas' /\ SessionsFit'
      BY <1>1, <1>2, <1>8
         DEF CommitShare, ReviewInv, ReviewsPinStoredCanvas, SessionsFit, Fits, InHistory
    <2> QED  BY <2>3, <2>4 DEF ReviewInv
  <1>9. CASE CommitReview(r, s)
    <2>1. InHistory(s.ws, s.object)
      BY <1>9, <1>4 DEF CommitReview, ReviewInv, SessionsFit, Fits, s
    <2>2. ASSUME NEW rv \in reviews'
          PROVE  \E i \in 1 .. Len(log[rv.ws]) :
                    /\ log[rv.ws][i].version = rv.version
                    /\ log[rv.ws][i].nodes = rv.nodes
                    /\ log[rv.ws][i].edges = rv.edges
      <3>1. CASE rv \in reviews
        BY <3>1 DEF ReviewInv, ReviewsPinStoredCanvas
      <3>2. CASE rv \notin reviews
        <4>1. rv.ws = s.ws /\ rv.version = s.object.version
              /\ rv.nodes = s.object.nodes /\ rv.edges = s.object.edges
          BY <3>2, <1>9 DEF CommitReview, ReviewRow
        <4> QED  BY <4>1, <2>1 DEF InHistory, Matches
      <3> QED  BY <3>1, <3>2
    <2>4. ReviewsPinStoredCanvas'
      BY <2>2, <1>9 DEF CommitReview, ReviewsPinStoredCanvas
    <2>3. RowsEndTheirHistory' /\ SessionsFit'
      BY <1>1, <1>2, <1>9
         DEF CommitReview, ReviewInv, RowsEndTheirHistory, SessionsFit, Fits, InHistory
    <2> QED  BY <2>3, <2>4 DEF ReviewInv
  <1> QED  BY <1>6, <1>7, <1>8, <1>9 DEF Commit, s

LEMMA InitReview ==
    ASSUME Init
    PROVE  ReviewInv
  <1>1. ASSUME NEW w \in WsIds, db[w] # None
        PROVE  Len(log[w]) \in 1 .. Len(log[w]) /\ Matches(log[w][Len(log[w])], db[w])
    <2>1. w \in DOMAIN Opened
      BY <1>1 DEF Init
    <2>2. log[w] = <<Entry(db[w], 0, None)>>
      BY <2>1 DEF Init
    <2>3. Len(log[w]) = 1 /\ log[w][1] = Entry(db[w], 0, None)
      BY <2>2
    <2>4. Matches(Entry(db[w], 0, None), db[w])
      BY DEF Matches, Entry
    <2> QED  BY <2>3, <2>4
  <1>2. SessionsFit /\ ReviewsPinStoredCanvas
    BY OutcomesAndSteps DEF Init, SessionsFit, ReviewsPinStoredCanvas
  <1> QED  BY <1>1, <1>2 DEF ReviewInv, RowsEndTheirHistory

LEMMA ReviewInvariant == Spec => []ReviewInv
  <1>1. TypeInv /\ ReviewInv /\ [Next]_vars => ReviewInv'
    <2> SUFFICES ASSUME TypeInv, ReviewInv, [Next]_vars
                 PROVE  ReviewInv'
      OBVIOUS
    <2>1. ASSUME NEW r \in Requests, Insert(r)
          PROVE  ReviewInv'
      BY <2>1, AnswerReview, ResumeReview, OutcomesAndSteps DEF Insert
    <2>2. ASSUME NEW r \in Requests, ModelReply(r)
          PROVE  ReviewInv'
      BY <2>2, AnswerReview, ResumeReview, OutcomesAndSteps DEF ModelReply
    <2>3. ASSUME NEW r \in Requests, Crash(r)
          PROVE  ReviewInv'
      BY <2>3, AnswerReview, OutcomesAndSteps DEF Crash
    <2>4. CASE UNCHANGED vars
      BY <2>4 DEF vars, ReviewInv, RowsEndTheirHistory, SessionsFit, Fits, InHistory,
                  ReviewsPinStoredCanvas
    <2> QED  BY <2>1, <2>2, <2>3, <2>4, BeginReview, CommitReviewInv DEF Next, Serve
  <1> QED  BY <1>1, InitReview, TypeInvariant, PTL DEF Spec

(***************************************************************************)
(* However saves and reviews overlap, a stored review names a canvas and a *)
(* version that the workspace held together.                               *)
(***************************************************************************)
THEOREM ReviewsArePinned == Spec => []ReviewsPinStoredCanvas
  <1>1. ReviewInv => ReviewsPinStoredCanvas
    BY DEF ReviewInv
  <1> QED  BY <1>1, ReviewInvariant, PTL
-----------------------------------------------------------------------------
(***************************************************************************)
(* The unique key.  A row that was inserted and not committed holds its    *)
(* key already: whoever inserts the same key waits for it or fails.        *)
(***************************************************************************)
SameKey(x, y) == x.owner = y.owner /\ x.problem = y.problem

Inserted(r) == pc[r] = "exit" /\ session[r].kind = "open"

\* The id of a row about to be inserted belongs to no row and no other session.
IdsReserved ==
    \A r \in Requests : pc[r] \in Running /\ session[r].kind = "open" =>
        /\ db[session[r].ws] = None
        /\ \A q \in Requests \ {r} :
               pc[q] \in Running => session[q].ws # session[r].ws

\* The key of an inserted row belongs to no row and no other inserted row.
KeysReserved ==
    \A r \in Requests : Inserted(r) =>
        /\ \A w \in WsIds : db[w] # None => ~SameKey(db[w], session[r].object)
        /\ \A q \in Requests \ {r} :
               Inserted(q) => ~SameKey(session[q].object, session[r].object)

\* Only reviews await the model.
CallsAreReviews == \A r \in Requests : pc[r] = "call" => session[r].kind = "review"

KeyInv == OneWorkspacePerProblem /\ IdsReserved /\ KeysReserved /\ CallsAreReviews

LEMMA KeyAnswer ==
    ASSUME TypeInv, KeyInv, NEW r \in Requests, NEW outcome \in Finished,
           Answer(r, outcome)
    PROVE  KeyInv'
  <1>1. outcome \notin Running /\ outcome # "exit" /\ outcome # "call"
    BY DEF Finished, Running, Refusals, Failures
  <1>2. /\ db' = db /\ pc' = [pc EXCEPT ![r] = outcome]
        /\ session' = [session EXCEPT ![r] = None]
    BY DEF Answer
  <1>3. \A q \in Requests : pc'[q] \in Running \/ pc'[q] = "exit" \/ pc'[q] = "call" =>
            q # r /\ pc'[q] = pc[q] /\ session'[q] = session[q]
    BY <1>1, <1>2 DEF TypeInv, TypeOK
  <1>7. CallsAreReviews'
    BY <1>3 DEF KeyInv, CallsAreReviews
  <1>4. IdsReserved'
    BY <1>2, <1>3 DEF KeyInv, IdsReserved
  <1>5. KeysReserved'
    BY <1>2, <1>3 DEF KeyInv, KeysReserved, Inserted
  <1>6. OneWorkspacePerProblem'
    BY <1>2 DEF KeyInv, OneWorkspacePerProblem
  <1> QED  BY <1>4, <1>5, <1>6, <1>7 DEF KeyInv

LEMMA KeyProceed ==
    ASSUME TypeInv, KeyInv, NEW r \in Requests, NEW step \in Running, NEW s \in Session,
           Proceed(r, step, s), step = "call" => s.kind = "review",
           s.kind # "open" => db[s.ws] # None,
           s.kind = "open" =>
               /\ db[s.ws] = None
               /\ \A q \in Requests \ {r} : pc[q] \in Running => session[q].ws # s.ws,
           s.kind = "open" /\ step = "exit" =>
               /\ \A w \in WsIds : db[w] # None => ~SameKey(db[w], s.object)
               /\ \A q \in Requests \ {r} :
                      Inserted(q) => ~SameKey(session[q].object, s.object)
    PROVE  KeyInv'
  <1>1. /\ db' = db /\ pc' = [pc EXCEPT ![r] = step]
        /\ session' = [session EXCEPT ![r] = s]
    BY DEF Proceed
  <1>2. pc'[r] = step /\ session'[r] = s
    BY <1>1 DEF TypeInv, TypeOK
  <1>3. \A q \in Requests \ {r} : pc'[q] = pc[q] /\ session'[q] = session[q]
    BY <1>1 DEF TypeInv, TypeOK
  <1>4. IdsReserved'
    BY <1>1, <1>2, <1>3 DEF KeyInv, IdsReserved
  <1>5. KeysReserved'
    <2> SUFFICES ASSUME NEW p \in Requests, Inserted(p)'
                 PROVE  /\ \A w \in WsIds : db'[w] # None => ~SameKey(db'[w], session'[p].object)
                        /\ \A q \in Requests \ {p} :
                              Inserted(q)' => ~SameKey(session'[q].object, session'[p].object)
      BY DEF KeysReserved, SameKey
    <2>1. CASE p = r
      BY <2>1, <1>1, <1>2, <1>3 DEF Inserted
    <2>2. CASE p # r
      BY <2>2, <1>1, <1>2, <1>3 DEF KeyInv, KeysReserved, Inserted, SameKey
    <2> QED  BY <2>1, <2>2
  <1>6. OneWorkspacePerProblem'
    BY <1>1 DEF KeyInv, OneWorkspacePerProblem
  <1>7. CallsAreReviews'
    BY <1>2, <1>3 DEF KeyInv, CallsAreReviews
  <1> QED  BY <1>4, <1>5, <1>6, <1>7 DEF KeyInv

LEMMA KeyBegin ==
    ASSUME TypeInv, KeyInv, NEW r \in Requests, Begin(r)
    PROVE  KeyInv'
  <1>1. CASE TurnedAway(r)
    BY <1>1, KeyAnswer, OutcomesAndSteps DEF TurnedAway
  <1>2. ASSUME NEW u \in Users, NEW p \in Slugs, OpenWorkspace(r, u, p)
        PROVE  KeyInv'
    <2>1. ASSUME p \in Problems, NEW w \in UnusedIds,
                 Proceed(r, "insert", InSession("open", u, w, None, NewRow(u, p), 0))
          PROVE  KeyInv'
      <3> DEFINE s == InSession("open", u, w, None, NewRow(u, p), 0)
      <3>1. w \in WsIds /\ db[w] = None
            /\ \A q \in Requests : session[q] # None => session[q].ws # w
        BY DEF UnusedIds
      <3>2. s \in Session /\ s.ws = w
        BY <2>1, <3>1, NewRowType, InSessionType
      <3>3. \A q \in Requests : pc[q] \in Running => session[q].ws # w
        BY <3>1 DEF TypeInv, TypeOK
      <3>4. s.kind = "open"
        BY DEF InSession
      <3> HIDE DEF s
      <3>5. Proceed(r, "insert", s)
        BY <2>1 DEF s
      <3> QED  BY <3>1, <3>2, <3>3, <3>4, <3>5, KeyProceed, OutcomesAndSteps
    <2> QED  BY <1>2, <2>1, KeyAnswer, OutcomesAndSteps DEF OpenWorkspace
  <1>3. ASSUME NEW kind \in {"save", "share", "review"}, NEW u \in Users, NEW w \in WsIds,
               Owned(w, u), NEW object \in Row, NEW seen \in Nat, NEW step \in Running,
               step = "call" => kind = "review",
               Proceed(r, step, InSession(kind, u, w, db[w], object, seen))
        PROVE  KeyInv'
    <2> DEFINE s == InSession(kind, u, w, db[w], object, seen)
    <2>1. s \in Session /\ s.ws = w /\ s.kind = kind
      BY <1>3, OwnedRow, InSessionType
    <2>2. db[w] # None
      BY <1>3 DEF Owned
    <2> HIDE DEF s
    <2>3. Proceed(r, step, s)
      BY <1>3 DEF s
    <2> QED  BY <1>3, <2>1, <2>2, <2>3, KeyProceed
  <1>4. ASSUME NEW u \in Users, NEW w \in WsIds, NEW c \in Drawings,
               NEW b \in 0 .. Len(log[w]), SaveWorkspace(r, u, w, b, c)
        PROVE  KeyInv'
    <2> DEFINE saved == Saved(db[w], c)
    <2>1. CASE Owned(w, u) /\ Proceed(r, "exit", InSession("save", u, w, db[w], saved, b))
      <3>1. saved \in Row /\ b \in Nat
        BY <2>1, SavedType
      <3> HIDE DEF saved
      <3> QED  BY <2>1, <3>1, <1>3, OutcomesAndSteps
    <2> QED  BY <1>4, <2>1, KeyAnswer, OutcomesAndSteps DEF SaveWorkspace
  <1>5. ASSUME NEW u \in Users, NEW w \in WsIds, ShareWorkspace(r, u, w)
        PROVE  KeyInv'
    <2> DEFINE shared == Shared(db[w], r)
    <2>1. CASE Owned(w, u) /\ Proceed(r, "exit", InSession("share", u, w, db[w], shared, 0))
      <3>1. shared \in Row
        BY <2>1, SharedType
      <3> HIDE DEF shared
      <3> QED  BY <2>1, <3>1, <1>3, OutcomesAndSteps
    <2> QED  BY <1>5, <2>1, KeyAnswer, OutcomesAndSteps DEF ShareWorkspace
  <1>6. ASSUME NEW u \in Users, NEW w \in WsIds, ReviewWorkspace(r, u, w)
        PROVE  KeyInv'
    <2>1. CASE Owned(w, u) /\ Proceed(r, "call", InSession("review", u, w, db[w], db[w], 0))
      BY <2>1, OwnedRow, <1>3, OutcomesAndSteps
    <2> QED  BY <1>6, <2>1, KeyAnswer, OutcomesAndSteps DEF ReviewWorkspace
  <1> QED  BY <1>1, <1>2, <1>4, <1>5, <1>6 DEF Begin

\* The row that holds a key, for good: an UPDATE writes neither of its columns.
LEMMA KeyCommit ==
    ASSUME TypeInv, KeyInv, NEW r \in Requests, Commit(r)
    PROVE  KeyInv'
  <1> DEFINE s == session[r]
  <1>1. s \in Session /\ s.ws \in WsIds /\ (s.kind # "open" => db[s.ws] \in Row)
        /\ session' = session /\ pc' = [pc EXCEPT ![r] = "ok"]
    BY CommitEffect
  <1>2. \A q \in Requests : pc'[q] \in Running \/ pc'[q] = "exit" \/ pc'[q] = "call" =>
            q # r /\ pc'[q] = pc[q] /\ session'[q] = session[q]
    BY <1>1, OutcomesAndSteps DEF TypeInv, TypeOK
  <1>9. CallsAreReviews'
    BY <1>2 DEF KeyInv, CallsAreReviews
  <1>3. pc[r] = "exit" /\ pc[r] \in Running
    BY OutcomesAndSteps DEF Commit
  <1>4. CASE CommitOpen(r, s)
    <2>1. s.kind = "open" /\ Inserted(r) /\ s.object \in Row
      BY <1>1, <1>3, <1>4 DEF CommitOpen, Inserted, Session
    <2>2. \A w \in WsIds : db'[w] = IF w = s.ws THEN s.object ELSE db[w]
      BY <1>1, <1>4 DEF CommitOpen, TypeInv, TypeOK
    <2>3. /\ \A w \in WsIds : db[w] # None => ~SameKey(db[w], s.object)
          /\ \A q \in Requests \ {r} :
                 Inserted(q) => ~SameKey(session[q].object, s.object)
      BY <2>1 DEF KeyInv, KeysReserved
    <2>4. OneWorkspacePerProblem'
      BY <2>2, <2>3 DEF KeyInv, OneWorkspacePerProblem, SameKey
    <2>5. IdsReserved'
      <3>1. \A q \in Requests \ {r} :
               pc[q] \in Running => session[q].ws # s.ws
        BY <1>3, <2>1 DEF KeyInv, IdsReserved
      <3>2. \A q \in Requests : pc[q] \in Running => session[q].ws \in WsIds
        BY DEF TypeInv, TypeOK, Session
      <3> HIDE DEF s
      <3> QED  BY <1>2, <2>2, <3>1, <3>2 DEF KeyInv, IdsReserved
    <2>6. KeysReserved'
      <3> SUFFICES ASSUME NEW p \in Requests, Inserted(p)'
                   PROVE  /\ \A w \in WsIds :
                                db'[w] # None => ~SameKey(db'[w], session'[p].object)
                          /\ \A q \in Requests \ {p} :
                                Inserted(q)' => ~SameKey(session'[q].object, session'[p].object)
        BY DEF KeysReserved, SameKey
      <3>1. p # r /\ Inserted(p) /\ session'[p] = session[p]
        BY <1>2 DEF Inserted
      <3>2. ~SameKey(s.object, session[p].object)
        BY <2>3, <3>1 DEF SameKey
      <3>3. \A w \in WsIds : db'[w] # None => ~SameKey(db'[w], session'[p].object)
        BY <2>2, <3>1, <3>2 DEF KeyInv, KeysReserved
      <3>4. \A q \in Requests \ {p} :
               Inserted(q)' => Inserted(q) /\ session'[q] = session[q]
        BY <1>2 DEF Inserted
      <3> QED  BY <3>1, <3>3, <3>4 DEF KeyInv, KeysReserved
    <2> QED  BY <2>4, <2>5, <2>6, <1>9 DEF KeyInv
  <1>5. CASE \A w \in WsIds : IF db[w] = None THEN db'[w] = None
                              ELSE db'[w] # None /\ SameKey(db'[w], db[w])
    <2>1. OneWorkspacePerProblem'
      BY <1>5 DEF KeyInv, OneWorkspacePerProblem, SameKey
    <2>2. IdsReserved'
      <3>1. \A q \in Requests : pc[q] \in Running => session[q].ws \in WsIds
        BY DEF TypeInv, TypeOK, Session
      <3> QED  BY <3>1, <1>2, <1>5 DEF KeyInv, IdsReserved
    <2>3. KeysReserved'
      BY <1>2, <1>5 DEF KeyInv, KeysReserved, Inserted, SameKey
    <2> QED  BY <2>1, <2>2, <2>3, <1>9 DEF KeyInv
  <1>6. ASSUME s.kind # "open", db' = [db EXCEPT ![s.ws] = Written(s, @)]
        PROVE  KeyInv'
    <2>1. Written(s, db[s.ws]) \in Row
      BY <1>1, <1>6, WrittenType
    <2>2. SameKey(Written(s, db[s.ws]), db[s.ws])
      BY DEF SameKey, Written
    <2> HIDE DEF s
    <2>3. \A w \in WsIds : db'[w] = IF w = s.ws THEN Written(s, db[s.ws]) ELSE db[w]
      BY <1>1, <1>6 DEF TypeInv, TypeOK
    <2> QED  BY <2>1, <2>2, <2>3, <1>1, <1>5, <1>6, NoneIsNothing DEF SameKey
  <1>7. CASE CommitSave(r, s) \/ CommitShare(r, s)
    BY <1>6, <1>7 DEF CommitSave, CommitShare
  <1>8. CASE CommitReview(r, s)
    BY <1>5, <1>8 DEF CommitReview, SameKey
  <1> QED  BY <1>4, <1>7, <1>8 DEF Commit

LEMMA KeyInsert ==
    ASSUME TypeInv, KeyInv, NEW r \in Requests, Insert(r)
    PROVE  KeyInv'
  <1>1. pc[r] \in Running /\ session[r] \in Session
    BY OutcomesAndSteps DEF Insert, TypeInv, TypeOK
  <1>2. CASE Proceed(r, "exit", session[r])
    <2> DEFINE s == session[r]
    <2>1. s.kind # "open" => db[s.ws] # None
      BY <1>1 DEF TypeInv, SessionsHaveRows
    <2>2. s.kind = "open" =>
               /\ db[s.ws] = None
               /\ \A q \in Requests \ {r} : pc[q] \in Running => session[q].ws # s.ws
      BY <1>1 DEF KeyInv, IdsReserved
    <2>3. \A q \in Requests \ {r} :
              Inserted(q) => ~SameKey(session[q].object, s.object)
      BY DEF Insert, KeyPending, Inserted, SameKey
    <2>4. CASE RowsOf(s.object.owner, s.object.problem) = {}
      <3>1. \A w \in WsIds : db[w] # None => ~SameKey(db[w], s.object)
        BY <2>4 DEF RowsOf, Owned, SameKey
      <3> QED  BY <1>1, <1>2, <2>1, <2>2, <2>3, <3>1, KeyProceed, OutcomesAndSteps
    <2>5. CASE RowsOf(s.object.owner, s.object.problem) # {}
      BY <2>5, KeyAnswer, OutcomesAndSteps DEF Insert
    <2> QED  BY <2>4, <2>5
  <1>3. CASE Answer(r, "error")
    BY <1>3, KeyAnswer, OutcomesAndSteps
  <1> QED  BY <1>2, <1>3 DEF Insert

LEMMA KeyModelReply ==
    ASSUME TypeInv, KeyInv, NEW r \in Requests, ModelReply(r)
    PROVE  KeyInv'
  <1>1. pc[r] \in Running /\ session[r] \in Session
    BY OutcomesAndSteps DEF ModelReply, TypeInv, TypeOK
  <1>2. CASE Proceed(r, "exit", session[r])
    <2>1. session[r].kind = "review" /\ db[session[r].ws] # None
      BY <1>1 DEF TypeInv, SessionsHaveRows, KeyInv, CallsAreReviews, ModelReply
    <2> QED  BY <1>1, <1>2, <2>1, KeyProceed, OutcomesAndSteps
  <1>3. CASE Answer(r, "error")
    BY <1>3, KeyAnswer, OutcomesAndSteps
  <1> QED  BY <1>2, <1>3 DEF ModelReply

LEMMA InitKey ==
    ASSUME Init
    PROVE  KeyInv
  <1>1. ASSUME NEW v \in WsIds, NEW w \in WsIds, db[v] # None, db[w] # None,
               SameKey(db[v], db[w])
        PROVE  v = w
    <2>1. v \in DOMAIN Opened /\ w \in DOMAIN Opened
      BY <1>1 DEF Init
    <2>2. /\ Opened[v].owner = Opened[w].owner /\ Opened[v].problem = Opened[w].problem
          /\ Opened[v] \in [owner : Users, problem : Problems]
          /\ Opened[w] \in [owner : Users, problem : Problems]
      BY <1>1, <2>1, OpenedAssumption DEF Init, NewRow, SameKey
    <2>3. Opened[v] = Opened[w]
      BY <2>2
    <2> QED  BY <2>1, <2>3, OpenedAssumption
  <1>2. OneWorkspacePerProblem
    BY <1>1 DEF OneWorkspacePerProblem, SameKey
  <1>3. IdsReserved /\ KeysReserved /\ CallsAreReviews
    BY OutcomesAndSteps DEF Init, IdsReserved, KeysReserved, Inserted, CallsAreReviews
  <1> QED  BY <1>2, <1>3 DEF KeyInv

LEMMA KeyInvariant == Spec => []KeyInv
  <1>1. TypeInv /\ KeyInv /\ [Next]_vars => KeyInv'
    <2> SUFFICES ASSUME TypeInv, KeyInv, [Next]_vars
                 PROVE  KeyInv'
      OBVIOUS
    <2>1. ASSUME NEW r \in Requests, Crash(r)
          PROVE  KeyInv'
      BY <2>1, KeyAnswer, OutcomesAndSteps DEF Crash
    <2>2. CASE UNCHANGED vars
      BY <2>2 DEF vars, KeyInv, OneWorkspacePerProblem, IdsReserved, KeysReserved,
                  Inserted, SameKey, CallsAreReviews
    <2> QED  BY <2>1, <2>2, KeyBegin, KeyInsert, KeyModelReply, KeyCommit DEF Next, Serve
  <1> QED  BY <1>1, InitKey, TypeInvariant, PTL DEF Spec

(***************************************************************************)
(* However their requests overlap, a user has one canvas for a problem.    *)
(***************************************************************************)
THEOREM UniqueWorkspace == Spec => []OneWorkspacePerProblem
  <1>1. KeyInv => OneWorkspacePerProblem
    BY DEF KeyInv
  <1> QED  BY <1>1, KeyInvariant, PTL
-----------------------------------------------------------------------------
(***************************************************************************)
(* Effects.  A slug is only ever drawn by the request that writes it, and  *)
(* once a row has one it keeps one, so that whatever a session found set   *)
(* when it loaded is set when it commits.                                  *)
(***************************************************************************)
ShareFits(r, s) ==
    /\ s.kind = "open" => s.object.share = None
    /\ s.kind \in {"save", "review"} => s.object.share = s.loaded.share
    /\ s.kind = "share" =>
           s.object.share = IF s.loaded.share = None THEN r ELSE s.loaded.share
    /\ s.kind # "open" /\ s.loaded.share # None => db[s.ws].share # None

SharesFit == \A r \in Requests : pc[r] \in Running => ShareFits(r, session[r])

\* The effects of a request that was answered ok, where it had a session at all.
Effected(r, s) ==
    /\ s.kind \in {"open", "save"} => \E i \in 1 .. Len(log[s.ws]) : log[s.ws][i].by = r
    /\ s.kind = "review" => \E rv \in reviews : rv.id = r
    /\ s.kind = "share" => db[s.ws] # None /\ db[s.ws].share # None

OkIsEffected == \A r \in Requests :
    pc[r] = "ok" /\ session[r] # None => Effected(r, session[r])

EffectsAreOfOk ==
    /\ \A w \in WsIds : \A i \in 1 .. Len(log[w]) :
           log[w][i].by # None => pc[log[w][i].by] = "ok"
    /\ \A rv \in reviews : pc[rv.id] = "ok"
    /\ \A w \in WsIds :
           db[w] # None /\ db[w].share # None => pc[db[w].share] = "ok"

EffectsInv == SharesFit /\ OkIsEffected /\ EffectsAreOfOk

\* Who a table or a history can name.
LEMMA NamesAreRequests ==
    ASSUME TypeInv
    PROVE  /\ \A w \in WsIds : \A i \in 1 .. Len(log[w]) : log[w][i].by \in Requests \cup {None}
           /\ \A rv \in reviews : rv.id \in Requests
           /\ \A w \in WsIds : db[w] # None => db[w].share \in Requests \cup {None}
  <1>1. ASSUME NEW w \in WsIds, NEW i \in 1 .. Len(log[w])
        PROVE  log[w][i].by \in Requests \cup {None}
    <2>1. log[w] \in Seq(LogEntry)
      BY DEF TypeInv, TypeOK
    <2>2. log[w][i] \in LogEntry
      BY <2>1
    <2> QED  BY <2>2 DEF LogEntry
  <1>2. \A rv \in reviews : rv.id \in Requests
    BY DEF TypeInv, TypeOK, Review
  <1>3. \A w \in WsIds : db[w] # None => db[w] \in Row
    BY DEF TypeInv, TypeOK
  <1>4. \A w \in WsIds : db[w] # None => db[w].share \in Requests \cup {None}
    BY <1>3 DEF Row
  <1> QED  BY <1>1, <1>2, <1>4

LEMMA EffectsAnswer ==
    ASSUME TypeInv, EffectsInv, NEW r \in Requests, NEW outcome \in Finished,
           pc[r] # "ok", Answer(r, outcome)
    PROVE  EffectsInv'
  <1>1. outcome \notin Running
    BY DEF Finished, Running, Refusals, Failures
  <1>2. /\ db' = db /\ log' = log /\ reviews' = reviews
        /\ pc' = [pc EXCEPT ![r] = outcome]
        /\ session' = [session EXCEPT ![r] = None]
    BY DEF Answer
  <1>3. /\ pc'[r] = outcome /\ session'[r] = None
        /\ \A q \in Requests \ {r} : pc'[q] = pc[q] /\ session'[q] = session[q]
    BY <1>2 DEF TypeInv, TypeOK
  <1>4. SharesFit'
    BY <1>1, <1>2, <1>3 DEF EffectsInv, SharesFit, ShareFits
  <1>5. OkIsEffected'
    BY <1>2, <1>3 DEF EffectsInv, OkIsEffected, Effected
  <1>6. EffectsAreOfOk'
    <2>1. \A q : pc[q] = "ok" => pc'[q] = "ok" \/ q \notin Requests
      BY <1>3
    <2> QED  BY <1>2, <2>1, NamesAreRequests, NoneIsNothing DEF EffectsInv, EffectsAreOfOk
  <1> QED  BY <1>4, <1>5, <1>6 DEF EffectsInv

LEMMA EffectsProceed ==
    ASSUME TypeInv, EffectsInv, NEW r \in Requests, NEW step \in Running, NEW s,
           pc[r] # "ok", ShareFits(r, s), Proceed(r, step, s)
    PROVE  EffectsInv'
  <1>1. /\ db' = db /\ log' = log /\ reviews' = reviews
        /\ pc' = [pc EXCEPT ![r] = step]
        /\ session' = [session EXCEPT ![r] = s]
    BY DEF Proceed
  <1>2. /\ pc'[r] = step /\ step # "ok" /\ session'[r] = s
        /\ \A q \in Requests \ {r} : pc'[q] = pc[q] /\ session'[q] = session[q]
    BY <1>1, OutcomesAndSteps DEF TypeInv, TypeOK
  <1>3. SharesFit'
    BY <1>1, <1>2 DEF EffectsInv, SharesFit, ShareFits
  <1>4. OkIsEffected'
    BY <1>1, <1>2 DEF EffectsInv, OkIsEffected, Effected
  <1>5. EffectsAreOfOk'
    <2>1. \A q : pc[q] = "ok" => pc'[q] = "ok" \/ q \notin Requests
      BY <1>2
    <2> QED  BY <1>1, <2>1, NamesAreRequests, NoneIsNothing DEF EffectsInv, EffectsAreOfOk
  <1> QED  BY <1>3, <1>4, <1>5 DEF EffectsInv

LEMMA EffectsBegin ==
    ASSUME TypeInv, EffectsInv, NEW r \in Requests, Begin(r)
    PROVE  EffectsInv'
  <1>0. pc[r] # "ok"
    BY DEF Begin, TurnedAway, OpenWorkspace, SaveWorkspace, ShareWorkspace, ReviewWorkspace
  <1>1. CASE TurnedAway(r)
    BY <1>0, <1>1, EffectsAnswer, OutcomesAndSteps DEF TurnedAway
  <1>2. ASSUME NEW u \in Users, NEW p \in Slugs, OpenWorkspace(r, u, p)
        PROVE  EffectsInv'
    <2>1. ASSUME NEW w \in UnusedIds
          PROVE  ShareFits(r, InSession("open", u, w, None, NewRow(u, p), 0))
      BY DEF InSession, ShareFits, NewRow
    <2> QED  BY <1>0, <1>2, <2>1, EffectsAnswer, EffectsProceed, OutcomesAndSteps
             DEF OpenWorkspace
  <1>3. ASSUME NEW u \in Users, NEW w \in WsIds, NEW c \in Drawings,
               NEW b \in 0 .. Len(log[w]), SaveWorkspace(r, u, w, b, c)
        PROVE  EffectsInv'
    <2> DEFINE s == InSession("save", u, w, db[w], Saved(db[w], c), b)
    <2>1. CASE Owned(w, u) /\ Proceed(r, "exit", s)
      <3>1. db[w] \in Row
        BY <2>1, OwnedRow
      <3>2. Saved(db[w], c).share = db[w].share
        BY <3>1 DEF Row, Saved
      <3>3. ShareFits(r, s)
        BY <3>2 DEF InSession, ShareFits
      <3> QED  BY <1>0, <2>1, <3>3, EffectsProceed, OutcomesAndSteps
    <2> QED  BY <1>0, <1>3, <2>1, EffectsAnswer, OutcomesAndSteps DEF SaveWorkspace
  <1>4. ASSUME NEW u \in Users, NEW w \in WsIds, ShareWorkspace(r, u, w)
        PROVE  EffectsInv'
    <2> DEFINE s == InSession("share", u, w, db[w], Shared(db[w], r), 0)
    <2>1. CASE Owned(w, u) /\ Proceed(r, "exit", s)
      <3>1. db[w] \in Row
        BY <2>1, OwnedRow
      <3>2. Shared(db[w], r).share = IF db[w].share = None THEN r ELSE db[w].share
        BY <3>1 DEF Row, Shared
      <3>3. ShareFits(r, s)
        BY <3>2 DEF InSession, ShareFits
      <3> QED  BY <1>0, <2>1, <3>3, EffectsProceed, OutcomesAndSteps
    <2> QED  BY <1>0, <1>4, <2>1, EffectsAnswer, OutcomesAndSteps DEF ShareWorkspace
  <1>5. ASSUME NEW u \in Users, NEW w \in WsIds, ReviewWorkspace(r, u, w)
        PROVE  EffectsInv'
    <2>1. ShareFits(r, InSession("review", u, w, db[w], db[w], 0))
      BY DEF InSession, ShareFits
    <2> QED  BY <1>0, <1>5, <2>1, EffectsAnswer, EffectsProceed, OutcomesAndSteps
             DEF ReviewWorkspace
  <1> QED  BY <1>1, <1>2, <1>3, <1>4, <1>5 DEF Begin

LEMMA EffectsCommit ==
    ASSUME TypeInv, KeyInv, EffectsInv, NEW r \in Requests, Commit(r)
    PROVE  EffectsInv'
  <1> DEFINE s == session[r]
  <1>1. s \in Session /\ s.ws \in WsIds /\ (s.kind # "open" => db[s.ws] \in Row)
        /\ session' = session /\ pc' = [pc EXCEPT ![r] = "ok"]
    BY CommitEffect
  <1>2. pc[r] = "exit" /\ pc[r] \in Running
    BY OutcomesAndSteps DEF Commit
  <1>3. /\ pc'[r] = "ok"
        /\ \A q \in Requests \ {r} : pc'[q] = pc[q]
        /\ \A q \in Requests : pc[q] = "ok" => pc'[q] = "ok"
        /\ \A q \in Requests : pc'[q] \in Running => pc[q] \in Running /\ q # r
    BY <1>1, OutcomesAndSteps DEF TypeInv, TypeOK
  <1>4. ShareFits(r, s)
    BY <1>2 DEF EffectsInv, SharesFit
  <1>5. \A q \in Requests : session[q] # None => session[q].ws \in WsIds
    BY DEF TypeInv, TypeOK, Session
  <1>6. \A q \in Requests : pc[q] \in Running => session[q] # None
    BY DEF TypeInv, TypeOK
  <1>7. s.object \in Row /\ s.object # None /\ s.seen \in Nat
    BY <1>1, NoneIsNothing DEF Session
  \* What a commit does to one row, whichever columns it writes.
  <1>8. ASSUME NEW row \in Row, db' = [db EXCEPT ![s.ws] = row],
               s.kind = "open" => row = s.object,
               s.kind # "open" => row = Written(s, db[s.ws])
        PROVE  /\ \A w \in WsIds : db[w] # None => db'[w] # None
               /\ \A w \in WsIds : db[w] # None /\ db[w].share # None => db'[w].share # None
               /\ \A w \in WsIds : db'[w] # None /\ db'[w].share # None =>
                     db'[w].share = r \/ (db[w] # None /\ db'[w].share = db[w].share)
               /\ s.kind = "share" => db'[s.ws].share # None /\ db'[s.ws] # None
    <2>1. \A w \in WsIds : db'[w] = IF w = s.ws THEN row ELSE db[w]
      BY <1>8 DEF TypeInv, TypeOK
    <2>2. row # None
      BY <1>8, NoneIsNothing
    <2>3. s.kind = "open" => db[s.ws] = None /\ row.share = None
      BY <1>2, <1>4, <1>8 DEF KeyInv, IdsReserved, ShareFits
    <2>4. s.kind # "open" =>
              /\ row.share = IF s.object.share # s.loaded.share THEN s.object.share
                             ELSE db[s.ws].share
              /\ db[s.ws] # None
      BY <1>1, <1>8, NoneIsNothing DEF Written, Changed
    <2>5. s.kind \in {"open", "save", "share", "review"} /\ r # None
      BY <1>1, NoneIsNothing DEF Session
    <2> HIDE DEF s
    <2>6. s.kind # "open" =>
              /\ row.share \in {r, db[s.ws].share}
              /\ db[s.ws].share # None => row.share # None
      BY <1>4, <2>4, <2>5 DEF ShareFits
    <2>7. s.kind = "share" => row.share # None
      BY <1>4, <2>4, <2>5 DEF ShareFits
    <2> QED  BY <2>1, <2>2, <2>3, <2>4, <2>6, <2>7, <1>1
  \* What every commit leaves alone.
  <1>9. ASSUME \A w \in WsIds : db[w] # None => db'[w] # None,
               \A w \in WsIds : db[w] # None /\ db[w].share # None => db'[w].share # None
        PROVE  SharesFit'
    <2>1. ASSUME NEW q \in Requests, pc'[q] \in Running
          PROVE  /\ ShareFits(q, session[q]) /\ session[q].ws \in WsIds
                 /\ session[q].kind # "open" => db[session[q].ws] # None
      BY <2>1, <1>3, <1>5, <1>6 DEF EffectsInv, SharesFit, TypeInv, SessionsHaveRows
    <2> QED  BY <2>1, <1>1, <1>9 DEF SharesFit, ShareFits
  <1>10. ASSUME NEW row \in Row, NEW seen \in Nat, Versions(s.ws, row, seen, r),
                s.kind \in {"open", "save"},
                s.kind = "open" => row = s.object,
                s.kind # "open" => row = Written(s, db[s.ws])
         PROVE  EffectsInv'
    <2>1. db' = [db EXCEPT ![s.ws] = row] /\ reviews' = reviews
      BY <1>10 DEF Versions
    <2>2. /\ \A w \in WsIds : db[w] # None => db'[w] # None
          /\ \A w \in WsIds : db[w] # None /\ db[w].share # None => db'[w].share # None
          /\ \A w \in WsIds : db'[w] # None /\ db'[w].share # None =>
                     db'[w].share = r \/ (db[w] # None /\ db'[w].share = db[w].share)
      BY <2>1, <1>8, <1>10
    <2>3. SharesFit'
      BY <2>2, <1>9
    <2> HIDE DEF s
    <2>4. log \in [WsIds -> Seq(LogEntry)] /\ Entry(row, seen, r) \in LogEntry
          /\ Entry(row, seen, r).by = r
      BY <1>10, EntryType DEF TypeInv, TypeOK, Entry
    <2>5. \A w \in WsIds : log'[w] = IF w = s.ws THEN Append(log[w], Entry(row, seen, r))
                                     ELSE log[w]
      BY <1>10, <2>4 DEF Versions
    <2>6. /\ Len(log'[s.ws]) = Len(log[s.ws]) + 1 /\ Len(log[s.ws]) \in Nat
          /\ \A i \in 1 .. Len(log[s.ws]) : log'[s.ws][i] = log[s.ws][i]
          /\ log'[s.ws][Len(log[s.ws]) + 1] = Entry(row, seen, r)
      <3>1. log[s.ws] \in Seq(LogEntry) /\ log'[s.ws] = Append(log[s.ws], Entry(row, seen, r))
        BY <2>4, <2>5, <1>1
      <3> QED  BY <3>1, <2>4, AppendKeeps
    <2>7. \A w \in WsIds : \A i \in 1 .. Len(log[w]) :
              i \in 1 .. Len(log'[w]) /\ log'[w][i] = log[w][i]
      BY <2>5, <2>6
    <2>8. \A w \in WsIds : \A i \in 1 .. Len(log'[w]) :
              log'[w][i].by = r \/ (i \in 1 .. Len(log[w]) /\ log'[w][i] = log[w][i])
      <3>1. ASSUME NEW w \in WsIds, NEW i \in 1 .. Len(log'[w])
            PROVE  log'[w][i].by = r \/ (i \in 1 .. Len(log[w]) /\ log'[w][i] = log[w][i])
        <4>1. CASE w = s.ws
          <5>1. i = Len(log[s.ws]) + 1 \/ i \in 1 .. Len(log[s.ws])
            BY <4>1, <2>6
          <5> QED  BY <5>1, <4>1, <2>4, <2>6
        <4>2. CASE w # s.ws
          BY <4>2, <2>5
        <4> QED  BY <4>1, <4>2
      <3> QED  BY <3>1
    <2>9. OkIsEffected'
      <3>1. ASSUME NEW q \in Requests, pc'[q] = "ok", session[q] # None
            PROVE  Effected(q, session[q])'
        <4>1. CASE q = r
          <5>1. Len(log[s.ws]) + 1 \in 1 .. Len(log'[s.ws])
            BY <2>6
          <5>2. \E i \in 1 .. Len(log'[s.ws]) : log'[s.ws][i].by = r
            BY <5>1, <2>4, <2>6
          <5>3. session'[q] = s
            BY <1>1, <4>1 DEF s
          <5> QED  BY <5>2, <5>3, <1>10, <4>1 DEF Effected
        <4>2. CASE q # r
          <5>1. Effected(q, session[q]) /\ session[q].ws \in WsIds
            BY <3>1, <4>2, <1>3, <1>5 DEF EffectsInv, OkIsEffected
          <5>2. session[q].kind \in {"open", "save"} =>
                    \E i \in 1 .. Len(log'[session[q].ws]) : log'[session[q].ws][i].by = q
            BY <5>1, <2>7 DEF Effected
          <5> QED  BY <5>1, <5>2, <2>1, <2>2, <1>1 DEF Effected
        <4> QED  BY <4>1, <4>2
      <3> QED  BY <3>1, <1>1 DEF OkIsEffected
    <2>10. EffectsAreOfOk'
      <3>1. ASSUME NEW w \in WsIds, NEW i \in 1 .. Len(log'[w]), log'[w][i].by # None
            PROVE  pc'[log'[w][i].by] = "ok"
        BY <3>1, <2>8, <1>3, NamesAreRequests DEF EffectsInv, EffectsAreOfOk
      <3>2. \A rv \in reviews' : pc'[rv.id] = "ok"
        BY <2>1, <1>3, NamesAreRequests DEF EffectsInv, EffectsAreOfOk
      <3>3. ASSUME NEW w \in WsIds, db'[w] # None, db'[w].share # None
            PROVE  pc'[db'[w].share] = "ok"
        BY <3>3, <2>2, <1>3, NamesAreRequests DEF EffectsInv, EffectsAreOfOk
      <3> QED  BY <3>1, <3>2, <3>3 DEF EffectsAreOfOk
    <2> QED  BY <2>3, <2>9, <2>10 DEF EffectsInv
  <1>11. CASE CommitOpen(r, s)
    <2>1. Versions(s.ws, s.object, 0, r) /\ s.kind = "open"
      BY <1>11 DEF CommitOpen, Versions
    <2> HIDE DEF s
    <2> QED  BY <2>1, <1>7, <1>10
  <1>12. CASE CommitSave(r, s)
    <2>1. Written(s, db[s.ws]) \in Row
      BY <1>12, <1>1, WrittenType DEF CommitSave
    <2>2. Versions(s.ws, Written(s, db[s.ws]), s.seen, r) /\ s.kind = "save"
      BY <1>12 DEF CommitSave, Versions
    <2> HIDE DEF s
    <2> QED  BY <2>1, <2>2, <1>7, <1>10
  <1>13. CASE CommitShare(r, s)
    <2>1. s.kind = "share" /\ log' = log /\ reviews' = reviews
          /\ db' = [db EXCEPT ![s.ws] = Written(s, db[s.ws])]
      BY <1>13 DEF CommitShare
    <2>2. Written(s, db[s.ws]) \in Row
      BY <2>1, <1>1, WrittenType
    <2>3. /\ \A w \in WsIds : db[w] # None => db'[w] # None
          /\ \A w \in WsIds : db[w] # None /\ db[w].share # None => db'[w].share # None
          /\ \A w \in WsIds : db'[w] # None /\ db'[w].share # None =>
                     db'[w].share = r \/ (db[w] # None /\ db'[w].share = db[w].share)
          /\ db'[s.ws].share # None /\ db'[s.ws] # None
      BY <2>1, <2>2, <1>8
    <2>4. SharesFit'
      BY <2>3, <1>9
    <2>5. OkIsEffected'
      <3>1. ASSUME NEW q \in Requests, pc'[q] = "ok", session[q] # None
            PROVE  Effected(q, session[q])'
        <4>1. CASE q = r
          BY <2>1, <2>3, <1>1, <4>1 DEF Effected
        <4>2. CASE q # r
          <5>1. Effected(q, session[q]) /\ session[q].ws \in WsIds
            BY <3>1, <4>2, <1>3, <1>5 DEF EffectsInv, OkIsEffected
          <5> QED  BY <5>1, <2>1, <2>3, <1>1 DEF Effected
        <4> QED  BY <4>1, <4>2
      <3> QED  BY <3>1, <1>1 DEF OkIsEffected
    <2>6. EffectsAreOfOk'
      <3>1. ASSUME NEW w \in WsIds, db'[w] # None, db'[w].share # None
            PROVE  pc'[db'[w].share] = "ok"
        BY <3>1, <2>3, <1>3, NamesAreRequests DEF EffectsInv, EffectsAreOfOk
      <3> QED  BY <3>1, <2>1, <1>3, NamesAreRequests DEF EffectsInv, EffectsAreOfOk
    <2> QED  BY <2>4, <2>5, <2>6 DEF EffectsInv
  <1>14. CASE CommitReview(r, s)
    <2>1. db' = db /\ log' = log /\ s.kind = "review"
          /\ reviews' = reviews \cup {ReviewRow(r, s)}
      BY <1>14 DEF CommitReview
    <2>2. ReviewRow(r, s).id = r
      BY DEF ReviewRow
    <2>3. SharesFit'
      BY <2>1, <1>9
    <2>4. OkIsEffected'
      <3>1. ASSUME NEW q \in Requests, pc'[q] = "ok", session[q] # None
            PROVE  Effected(q, session[q])'
        <4>1. CASE q = r
          <5>1. \E rv \in reviews' : rv.id = r
            BY <2>1, <2>2
          <5> QED  BY <5>1, <2>1, <1>1, <4>1 DEF Effected
        <4>2. CASE q # r
          <5>1. Effected(q, session[q])
            BY <3>1, <4>2, <1>3 DEF EffectsInv, OkIsEffected
          <5> QED  BY <5>1, <2>1, <1>1 DEF Effected
        <4> QED  BY <4>1, <4>2
      <3> QED  BY <3>1, <1>1 DEF OkIsEffected
    <2>5. EffectsAreOfOk'
      BY <2>1, <2>2, <1>3, NamesAreRequests DEF EffectsInv, EffectsAreOfOk
    <2> QED  BY <2>3, <2>4, <2>5 DEF EffectsInv
  <1> QED  BY <1>11, <1>12, <1>13, <1>14 DEF Commit

LEMMA EffectsInvariant == Spec => []EffectsInv
  <1>1. TypeInv /\ KeyInv /\ EffectsInv /\ [Next]_vars => EffectsInv'
    <2> SUFFICES ASSUME TypeInv, KeyInv, EffectsInv, [Next]_vars
                 PROVE  EffectsInv'
      OBVIOUS
    <2>1. ASSUME NEW r \in Requests, pc[r] \in Running
          PROVE  pc[r] # "ok" /\ ShareFits(r, session[r])
      BY <2>1, OutcomesAndSteps DEF EffectsInv, SharesFit
    <2>2. ASSUME NEW r \in Requests, Insert(r)
          PROVE  EffectsInv'
      BY <2>1, <2>2, EffectsAnswer, EffectsProceed, OutcomesAndSteps DEF Insert
    <2>3. ASSUME NEW r \in Requests, ModelReply(r)
          PROVE  EffectsInv'
      BY <2>1, <2>3, EffectsAnswer, EffectsProceed, OutcomesAndSteps DEF ModelReply
    <2>4. ASSUME NEW r \in Requests, Crash(r)
          PROVE  EffectsInv'
      BY <2>1, <2>4, EffectsAnswer, OutcomesAndSteps DEF Crash
    <2>5. CASE UNCHANGED vars
      BY <2>5 DEF vars, EffectsInv, SharesFit, ShareFits, OkIsEffected, Effected,
                  EffectsAreOfOk
    <2> QED  BY <2>2, <2>3, <2>4, <2>5, EffectsBegin, EffectsCommit DEF Next, Serve
  <1>2. Init => EffectsInv
    <2> SUFFICES ASSUME Init PROVE EffectsInv
      OBVIOUS
    <2>1. \A w \in WsIds : \A i \in 1 .. Len(log[w]) : log[w][i].by = None
      BY DEF Init, Entry
    <2>2. \A w \in WsIds : db[w] # None => db[w].share = None
      BY DEF Init, NewRow
    <2> QED  BY <2>1, <2>2, OutcomesAndSteps
             DEF Init, EffectsInv, SharesFit, OkIsEffected, EffectsAreOfOk
  <1> QED  BY <1>1, <1>2, TypeInvariant, KeyInvariant, PTL DEF Spec

(***************************************************************************)
(* However requests overlap and wherever they fail, a request leaves its   *)
(* trace in the tables exactly when it is answered ok.                     *)
(***************************************************************************)
THEOREM OnlyOkRequestsHaveEffects == Spec => []EffectsOfOkRequestsOnly
  <1>1. TypeInv /\ EffectsInv => EffectsOfOkRequestsOnly
    <2> SUFFICES ASSUME TypeInv, EffectsInv,
                        NEW r \in Requests, pc[r] = "ok", session[r] # None
                 PROVE  CASE session[r].kind \in {"open", "save"} ->
                                \E i \in 1 .. Len(log[session[r].ws]) :
                                    log[session[r].ws][i].by = r
                          [] session[r].kind = "review" -> \E rv \in reviews : rv.id = r
                          [] OTHER -> db[session[r].ws].share # None
      BY DEF EffectsInv, EffectsAreOfOk, EffectsOfOkRequestsOnly
    <2>1. session[r].kind \in {"open", "save", "share", "review"}
      BY DEF TypeInv, TypeOK, Session
    <2>2. Effected(r, session[r])
      BY DEF EffectsInv, OkIsEffected
    <2> QED  BY <2>1, <2>2 DEF Effected
  <1> QED  BY <1>1, TypeInvariant, EffectsInvariant, PTL
=============================================================================
