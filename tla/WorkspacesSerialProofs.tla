----------------------- MODULE WorkspacesSerialProofs -----------------------
(***************************************************************************)
(* Theorems about Workspaces that do not survive every overlap: optimistic *)
(* concurrency, whole canvases, links that last, and the refinement of     *)
(* VersionedCanvas.                                                        *)
(*                                                                         *)
(* The overlaps that break them are those of one kind of request with      *)
(* itself.  Two saves of a canvas under way together can lose one of them, *)
(* and two shares of it can replace a link that was given away.  An UPDATE *)
(* writes only the columns that its handler changed, so nothing else does: *)
(* the theorems assume that just these pairs are never under way together, *)
(* which a lock on the row would see to.  Writers of a canvas that take    *)
(* turns are a special case of it.                                         *)
(***************************************************************************)
EXTENDS WorkspacesProofs

Under(kind) == {q \in Requests : pc[q] \in Running /\ session[q].kind = kind}

SavesTakeTurns == \A q, r \in Under("save") : session[q].ws = session[r].ws => q = r

SharesTakeTurns == \A q, r \in Under("share") : session[q].ws = session[r].ws => q = r
-----------------------------------------------------------------------------
(***************************************************************************)
(* However requests overlap, what a handler is about to store is a drawing *)
(* the schema let through, or a blank canvas of the first version.         *)
(***************************************************************************)
Holds(row, c) == row.nodes = c.nodes /\ row.edges = c.edges

DrawingIsWhole(s) ==
    /\ s.kind = "open" => Holds(s.object, BlankCanvas) /\ s.object.version = 1
    /\ s.kind = "save" =>
           \E c \in Drawings : ValidCanvas(c) /\ Holds(s.object, c)

DrawingsAreWhole == \A r \in Requests : pc[r] \in Running => DrawingIsWhole(session[r])

LEMMA BlankIsValid == ValidCanvas(BlankCanvas)
  BY BoundsAssumption DEF BlankCanvas, ValidCanvas, WithinBounds, UniqueNodeIds,
                          EdgesReferenceRealNodes

LEMMA SameCanvas ==
    ASSUME NEW c, NEW row, Holds(row, c), ValidCanvas(c)
    PROVE  ValidCanvas([nodes |-> row.nodes, edges |-> row.edges])
  BY DEF Holds, ValidCanvas, WithinBounds, UniqueNodeIds, EdgesReferenceRealNodes

LEMMA DrawingsAnswer ==
    ASSUME TypeInv, DrawingsAreWhole, NEW r \in Requests, NEW outcome \in Finished,
           Answer(r, outcome)
    PROVE  DrawingsAreWhole'
  <1>1. outcome \notin Running
    BY DEF Finished, Running, Refusals, Failures
  <1> QED  BY <1>1 DEF DrawingsAreWhole, DrawingIsWhole, Answer, TypeInv, TypeOK

LEMMA DrawingsProceed ==
    ASSUME TypeInv, DrawingsAreWhole, NEW r \in Requests, NEW step, NEW s,
           DrawingIsWhole(s), Proceed(r, step, s)
    PROVE  DrawingsAreWhole'
  BY DEF DrawingsAreWhole, DrawingIsWhole, Proceed, TypeInv, TypeOK

LEMMA DrawingsInvariant == Spec => []DrawingsAreWhole
  <1>1. TypeInv /\ DrawingsAreWhole /\ [Next]_vars => DrawingsAreWhole'
    <2> SUFFICES ASSUME TypeInv, DrawingsAreWhole, [Next]_vars
                 PROVE  DrawingsAreWhole'
      OBVIOUS
    <2>1. ASSUME NEW r \in Requests, TurnedAway(r) \/ Crash(r)
          PROVE  DrawingsAreWhole'
      BY <2>1, DrawingsAnswer, OutcomesAndSteps DEF TurnedAway, Crash
    <2>2. ASSUME NEW r \in Requests, Insert(r) \/ ModelReply(r)
          PROVE  DrawingsAreWhole'
      <3>1. DrawingIsWhole(session[r])
        BY <2>2, OutcomesAndSteps DEF Insert, ModelReply, DrawingsAreWhole
      <3> QED  BY <2>2, <3>1, DrawingsAnswer, DrawingsProceed, OutcomesAndSteps
               DEF Insert, ModelReply
    <2>3. ASSUME NEW r \in Requests, NEW u \in Users, NEW p \in Slugs, OpenWorkspace(r, u, p)
          PROVE  DrawingsAreWhole'
      <3>1. ASSUME NEW w \in UnusedIds
            PROVE  DrawingIsWhole(InSession("open", u, w, None, NewRow(u, p), 0))
        BY DEF InSession, NewRow, DrawingIsWhole, Holds
      <3> QED  BY <2>3, <3>1, DrawingsAnswer, DrawingsProceed, OutcomesAndSteps
               DEF OpenWorkspace
    <2>4. ASSUME NEW r \in Requests, NEW u \in Users, NEW w \in WsIds, NEW c \in Drawings,
                 NEW b \in 0 .. Len(log[w]), SaveWorkspace(r, u, w, b, c)
          PROVE  DrawingsAreWhole'
      <3> DEFINE s == InSession("save", u, w, db[w], Saved(db[w], c), b)
      <3>1. CASE SaveRequestValid(c) /\ Owned(w, u) /\ Proceed(r, "exit", s)
        <4>1. db[w] \in Row
          BY <3>1, OwnedRow
        <4>2. Holds(Saved(db[w], c), c)
          BY <4>1 DEF Row, Saved, Holds
        <4>3. DrawingIsWhole(s)
          BY <3>1, <4>2 DEF InSession, DrawingIsWhole, SaveRequestValid
        <4> QED  BY <3>1, <4>3, DrawingsProceed
      <3> QED  BY <2>4, <3>1, DrawingsAnswer, OutcomesAndSteps DEF SaveWorkspace
    <2>5. ASSUME NEW r \in Requests, NEW u \in Users, NEW w \in WsIds,
                 ShareWorkspace(r, u, w) \/ ReviewWorkspace(r, u, w)
          PROVE  DrawingsAreWhole'
      <3>1. /\ DrawingIsWhole(InSession("share", u, w, db[w], Shared(db[w], r), 0))
            /\ DrawingIsWhole(InSession("review", u, w, db[w], db[w], 0))
        BY DEF InSession, DrawingIsWhole
      <3> QED  BY <2>5, <3>1, DrawingsAnswer, DrawingsProceed, OutcomesAndSteps
               DEF ShareWorkspace, ReviewWorkspace
    <2>6. ASSUME NEW r \in Requests, Commit(r)
          PROVE  DrawingsAreWhole'
      BY <2>6, CommitEffect, OutcomesAndSteps DEF DrawingsAreWhole, TypeInv, TypeOK
    <2>7. CASE UNCHANGED vars
      BY <2>7 DEF vars, DrawingsAreWhole
    <2> QED  BY <2>1, <2>2, <2>3, <2>4, <2>5, <2>6, <2>7 DEF Next, Begin, Serve
  <1>2. Init => DrawingsAreWhole
    BY OutcomesAndSteps DEF Init, DrawingsAreWhole
  <1> QED  BY <1>1, <1>2, TypeInvariant, PTL DEF Spec

\* What is known of every state, however requests overlap.
BaseInv == TypeInv /\ KeyInv /\ ReviewInv /\ EffectsInv /\ DrawingsAreWhole

LEMMA BaseInvariant == Spec => []BaseInv
  BY TypeInvariant, KeyInvariant, ReviewInvariant, EffectsInvariant, DrawingsInvariant, PTL
     DEF BaseInv

\* The three ways a commit can touch a workspace.
Created(r, s) ==
    /\ s.kind = "open" /\ db[s.ws] = None
    /\ s.object.version = 1 /\ Holds(s.object, BlankCanvas)
    /\ Versions(s.ws, s.object, 0, r)

Replaced(r, s, row) ==
    /\ s.kind = "save" /\ db[s.ws] \in Row /\ row = Written(s, db[s.ws])
    /\ Versions(s.ws, row, s.seen, r)
    /\ SameKey(row, db[s.ws]) /\ row.share = db[s.ws].share

Linked(r, s, row) ==
    /\ s.kind = "share" /\ db[s.ws] \in Row /\ row = Written(s, db[s.ws])
    /\ db' = [db EXCEPT ![s.ws] = row] /\ log' = log
    /\ SameKey(row, db[s.ws]) /\ Matches(row, db[s.ws])

LEMMA CommitCases ==
    ASSUME BaseInv, NEW r \in Requests, Commit(r)
    PROVE  \/ Created(r, session[r])
           \/ \E row \in Row : Replaced(r, session[r], row)
           \/ \E row \in Row : Linked(r, session[r], row)
           \/ CommitReview(r, session[r])
  <1> DEFINE s == session[r]
  <1> USE DEF BaseInv
  <1>1. s \in Session /\ s.ws \in WsIds /\ (s.kind # "open" => db[s.ws] \in Row)
    BY CommitEffect
  <1>2. pc[r] \in Running
    BY OutcomesAndSteps DEF Commit
  <1>3. DrawingIsWhole(s) /\ ShareFits(r, s) /\ Fits(s)
    BY <1>2 DEF DrawingsAreWhole, EffectsInv, SharesFit, ReviewInv, SessionsFit
  <1>4. CASE CommitOpen(r, s)
    <2>1. db[s.ws] = None
      BY <1>2, <1>4 DEF CommitOpen, KeyInv, IdsReserved
    <2> HIDE DEF s
    <2>2. Created(r, s)
      BY <2>1, <1>3, <1>4 DEF CommitOpen, Created, Versions, DrawingIsWhole
    <2> QED  BY <2>2 DEF s
  <1> DEFINE row == Written(s, db[s.ws])
  <1>5. s.kind # "open" => row \in Row /\ SameKey(row, db[s.ws])
    BY <1>1, WrittenType DEF SameKey, Written
  <1>6. CASE CommitSave(r, s)
    <2>1. s.kind = "save" /\ Versions(s.ws, row, s.seen, r)
      BY <1>6 DEF CommitSave, Versions
    <2>2. row.share = db[s.ws].share
      BY <2>1, <1>3 DEF ShareFits, Written, Changed
    <2>3. row \in Row /\ Replaced(r, s, row)
      BY <2>1, <2>2, <1>1, <1>5 DEF Replaced
    <2> QED  BY <2>3
  <1>7. CASE CommitShare(r, s)
    <2>1. s.kind = "share" /\ db' = [db EXCEPT ![s.ws] = row] /\ log' = log
      BY <1>7 DEF CommitShare
    <2>2. Matches(row, db[s.ws])
      BY <2>1, <1>3 DEF Fits, Matches, Written, Changed
    <2>3. row \in Row /\ Linked(r, s, row)
      BY <2>1, <2>2, <1>1, <1>5 DEF Linked
    <2> QED  BY <2>3
  <1> QED  BY <1>4, <1>6, <1>7 DEF Commit

LEMMA VersionsWrite ==
    ASSUME TypeInv, NEW w \in WsIds, NEW row, NEW seen, NEW r, Versions(w, row, seen, r)
    PROVE  \A v \in WsIds : db'[v] = IF v = w THEN row ELSE db[v]
  BY DEF Versions, TypeInv, TypeOK

LEMMA LinkedWrites ==
    ASSUME TypeInv, NEW r, NEW s, NEW row, s.ws \in WsIds, Linked(r, s, row)
    PROVE  \A v \in WsIds : db'[v] = IF v = s.ws THEN row ELSE db[v]
  BY DEF Linked, TypeInv, TypeOK

\* A commit writes at most its own row, and ends only its own request.
LEMMA CommitLeavesTheOthers ==
    ASSUME BaseInv, NEW r \in Requests, Commit(r)
    PROVE  /\ session[r] \in Session /\ session[r].ws \in WsIds /\ pc[r] \in Running
           /\ session' = session /\ pc' = [pc EXCEPT ![r] = "ok"]
           /\ \A w \in WsIds \ {session[r].ws} : db'[w] = db[w]
           /\ \A q \in Requests : pc'[q] \in Running => q # r /\ pc[q] \in Running
           /\ \A q \in Requests : pc[q] \in Running =>
                  /\ session[q].ws \in WsIds
                  /\ session[r].kind = "open" /\ q # r => session[q].ws # session[r].ws
  <1>1. /\ session[r] \in Session /\ session[r].ws \in WsIds
        /\ session' = session /\ pc' = [pc EXCEPT ![r] = "ok"]
    BY CommitEffect DEF BaseInv
  <1>2. pc[r] \in Running
    BY OutcomesAndSteps DEF Commit
  <1>3. \A w \in WsIds \ {session[r].ws} : db'[w] = db[w]
    BY <1>1, CommitCases, VersionsWrite, LinkedWrites
       DEF BaseInv, Created, Replaced, CommitReview
  <1>4. \A q \in Requests : pc'[q] \in Running => q # r /\ pc[q] \in Running
    BY <1>1, OutcomesAndSteps DEF BaseInv, TypeInv, TypeOK
  <1>5. \A q \in Requests : pc[q] \in Running => session[q].ws \in WsIds
    BY DEF BaseInv, TypeInv, TypeOK, Session
  <1>6. \A q \in Requests : pc[q] \in Running /\ session[r].kind = "open" /\ q # r
                                => session[q].ws # session[r].ws
    BY <1>2 DEF BaseInv, KeyInv, IdsReserved
  <1> QED  BY <1>1, <1>2, <1>3, <1>4, <1>5, <1>6
-----------------------------------------------------------------------------
(***************************************************************************)
(* Every other step leaves the tables alone, and answers ok only without a *)
(* session.  A session that is new is true of the tables.                  *)
(***************************************************************************)
Reads(s) ==
    /\ s.kind = "open" => \A q \in Requests : pc[q] \in Running => session[q].ws # s.ws
    /\ s.kind # "open" => db[s.ws] # None /\ s.loaded = db[s.ws] /\ SameKey(s.object, db[s.ws])
    /\ s.kind \in {"save", "share"} => QuietRow(s.ws)
    /\ s.kind = "save" =>
           /\ s.object.version = s.loaded.version + 1
           /\ s.seen # 0 => /\ s.seen \in 1 .. Len(log[s.ws])
                            /\ log[s.ws][s.seen].version = db[s.ws].version

ServedStep(r) ==
    /\ db' = db /\ log' = log
    /\ \A q \in Requests \ {r} : pc'[q] = pc[q] /\ session'[q] = session[q]
    /\ pc'[r] = "ok" => session'[r] = None
    /\ pc'[r] \in Running =>
           \/ pc[r] \in Running /\ session'[r] = session[r]
           \/ session'[r].ws \in WsIds /\ Reads(session'[r])

LEMMA AnswerServes ==
    ASSUME TypeInv, NEW r \in Requests, NEW outcome \in Finished, Answer(r, outcome)
    PROVE  ServedStep(r)
  <1>1. outcome \notin Running
    BY DEF Finished, Running, Refusals, Failures
  <1> QED  BY <1>1 DEF Answer, TypeInv, TypeOK, ServedStep

LEMMA ProceedServes ==
    ASSUME TypeInv, NEW r \in Requests, NEW step \in Running, NEW s, Proceed(r, step, s),
           (pc[r] \in Running /\ s = session[r]) \/ (s.ws \in WsIds /\ Reads(s))
    PROVE  ServedStep(r)
  <1>1. pc'[r] = step /\ session'[r] = s /\ step # "ok"
    BY OutcomesAndSteps DEF Proceed, TypeInv, TypeOK
  <1> QED  BY <1>1 DEF Proceed, TypeInv, TypeOK, ServedStep

LEMMA OpenServes ==
    ASSUME TypeInv, NEW r \in Requests, NEW u \in Users, NEW p \in Slugs,
           OpenWorkspace(r, u, p)
    PROVE  ServedStep(r)
  <1>1. ASSUME NEW w \in UnusedIds,
               Proceed(r, "insert", InSession("open", u, w, None, NewRow(u, p), 0))
        PROVE  ServedStep(r)
    <2> DEFINE s == InSession("open", u, w, None, NewRow(u, p), 0)
    <2>1. s.kind = "open" /\ s.ws = w /\ w \in WsIds
      BY DEF InSession, UnusedIds
    <2>2. \A q \in Requests : pc[q] \in Running => session[q].ws # w
      BY DEF UnusedIds, TypeInv, TypeOK
    <2> HIDE DEF s
    <2>3. Proceed(r, "insert", s)
      BY <1>1 DEF s
    <2>4. Reads(s)
      BY <2>1, <2>2 DEF Reads
    <2> QED  BY <2>1, <2>3, <2>4, ProceedServes, OutcomesAndSteps
  <1> QED  BY <1>1, AnswerServes, OutcomesAndSteps DEF OpenWorkspace

LEMMA SaveServes ==
    ASSUME TypeInv, NEW r \in Requests, NEW u \in Users, NEW w \in WsIds, NEW c \in Drawings,
           NEW b \in 0 .. Len(log[w]), SaveWorkspace(r, u, w, b, c)
    PROVE  ServedStep(r)
  <1> DEFINE saved == Saved(db[w], c)
             s == InSession("save", u, w, db[w], saved, b)
  <1>1. CASE Owned(w, u) /\ QuietRow(w) /\ ~Stale(w, b) /\ Proceed(r, "exit", s)
    <2>1. db[w] # None /\ db[w] \in Row
      BY <1>1, OwnedRow DEF Owned
    <2>2. /\ s.kind = "save" /\ s.ws = w /\ s.loaded = db[w]
          /\ s.object = saved /\ s.seen = b
      BY DEF InSession
    <2>3. saved.version = db[w].version + 1 /\ SameKey(saved, db[w])
      BY <2>1 DEF Row, SameKey, Saved
    <2>4. b # 0 => b \in 1 .. Len(log[w]) /\ log[w][b].version = db[w].version
      BY <1>1 DEF Stale, TypeInv, TypeOK
    <2> HIDE DEF s, saved
    <2>5. Reads(s)
      BY <1>1, <2>1, <2>2, <2>3, <2>4 DEF Reads
    <2> QED  BY <1>1, <2>2, <2>5, ProceedServes, OutcomesAndSteps
  <1> QED  BY <1>1, AnswerServes, OutcomesAndSteps DEF SaveWorkspace

LEMMA ShareServes ==
    ASSUME TypeInv, NEW r \in Requests, NEW u \in Users, NEW w \in WsIds,
           ShareWorkspace(r, u, w)
    PROVE  ServedStep(r)
  <1> DEFINE shared == Shared(db[w], r)
             s == InSession("share", u, w, db[w], shared, 0)
  <1>1. CASE Owned(w, u) /\ QuietRow(w) /\ Proceed(r, "exit", s)
    <2>1. db[w] # None /\ db[w] \in Row
      BY <1>1, OwnedRow DEF Owned
    <2>2. s.kind = "share" /\ s.ws = w /\ s.loaded = db[w] /\ s.object = shared
      BY DEF InSession
    <2>3. SameKey(shared, db[w])
      BY <2>1 DEF Row, SameKey, Shared
    <2> HIDE DEF s, shared
    <2>4. Reads(s)
      BY <1>1, <2>1, <2>2, <2>3 DEF Reads
    <2> QED  BY <1>1, <2>2, <2>4, ProceedServes, OutcomesAndSteps
  <1> QED  BY <1>1, AnswerServes, OutcomesAndSteps DEF ShareWorkspace

LEMMA ReviewServes ==
    ASSUME TypeInv, NEW r \in Requests, NEW u \in Users, NEW w \in WsIds,
           ReviewWorkspace(r, u, w)
    PROVE  ServedStep(r)
  <1> DEFINE s == InSession("review", u, w, db[w], db[w], 0)
  <1>1. CASE Owned(w, u) /\ Proceed(r, "call", s)
    <2>1. s.kind = "review" /\ s.ws = w /\ s.loaded = db[w] /\ s.object = db[w]
      BY DEF InSession
    <2> HIDE DEF s
    <2>2. Reads(s)
      BY <1>1, <2>1 DEF Reads, SameKey, Owned
    <2> QED  BY <1>1, <2>1, <2>2, ProceedServes, OutcomesAndSteps
  <1> QED  BY <1>1, AnswerServes, OutcomesAndSteps DEF ReviewWorkspace

\* What Next consists of.
LEMMA StepsOfNext ==
    ASSUME TypeInv, [Next]_vars
    PROVE  \/ \E r \in Requests : ServedStep(r) \/ Commit(r)
           \/ UNCHANGED vars
  <1>1. ASSUME NEW r \in Requests, Insert(r) \/ ModelReply(r) \/ Crash(r) \/ TurnedAway(r)
        PROVE  ServedStep(r)
    BY <1>1, AnswerServes, ProceedServes, OutcomesAndSteps
       DEF Insert, ModelReply, Crash, TurnedAway
  <1>2. ASSUME NEW r \in Requests, Begin(r)
        PROVE  ServedStep(r)
    BY <1>1, <1>2, OpenServes, SaveServes, ShareServes, ReviewServes DEF Begin
  <1> QED  BY <1>1, <1>2 DEF Next, Serve
-----------------------------------------------------------------------------
(***************************************************************************)
(* Optimistic concurrency when the saves of a canvas take turns.  A row's  *)
(* version is the length of its history, and a save under way has loaded   *)
(* the canvas that is still stored, at the version that is still stored.   *)
(***************************************************************************)
VersionsCount ==
    \A w \in WsIds :
        /\ \A i \in 1 .. Len(log[w]) : log[w][i].version = i
        /\ db[w] = None => Len(log[w]) = 0
        /\ db[w] # None => db[w].version = Len(log[w])

SaveIsCurrent(s) ==
    /\ Matches(s.loaded, db[s.ws])
    /\ s.object.version = s.loaded.version + 1
    /\ s.seen \in {0, s.loaded.version}

SavesAreCurrent == \A r \in Under("save") : SaveIsCurrent(session[r])

SaveInv ==
    /\ VersionsCount
    /\ SavesBuildOnWhatTheyReplace
    /\ SavesAreCurrent

LEMMA ServedKeepsSaves ==
    ASSUME BaseInv, SaveInv, NEW r \in Requests, ServedStep(r)
    PROVE  SaveInv'
  <1>1. db' = db /\ log' = log
    BY DEF ServedStep
  <1>2. VersionsCount' /\ SavesBuildOnWhatTheyReplace'
    BY <1>1 DEF SaveInv, VersionsCount, SavesBuildOnWhatTheyReplace
  <1>3. ASSUME NEW q \in Under("save")'
        PROVE  SaveIsCurrent(session'[q])
    <2>1. q \in Requests /\ pc'[q] \in Running /\ session'[q].kind = "save"
      BY DEF Under
    <2>2. CASE pc[q] \in Running /\ session'[q] = session[q]
      BY <2>1, <2>2 DEF SaveInv, SavesAreCurrent, Under
    <2>3. CASE session'[q].ws \in WsIds /\ Reads(session'[q])
      BY <2>1, <2>3 DEF Reads, SaveIsCurrent, Matches, SaveInv, VersionsCount
    <2> QED  BY <2>1, <2>2, <2>3 DEF ServedStep
  <1>4. SavesAreCurrent'
    BY <1>1, <1>3 DEF SavesAreCurrent, SaveIsCurrent
  <1> QED  BY <1>2, <1>4 DEF SaveInv

\* What a save writes when what it loaded is still stored.
LEMMA SavesMeetWhatTheyLoaded ==
    ASSUME BaseInv, SaveInv, NEW r \in Requests, pc[r] \in Running,
           NEW row, Replaced(r, session[r], row)
    PROVE  /\ row.version = Len(log[session[r].ws]) + 1
           /\ row.version = db[session[r].ws].version + 1
           /\ session[r].seen \in {0, Len(log[session[r].ws])}
           /\ \E c \in Drawings : ValidCanvas(c) /\ Holds(row, c)
  <1> DEFINE s == session[r]
  <1>1. SaveIsCurrent(s) /\ DrawingIsWhole(s) /\ s.ws \in WsIds
    BY DEF Replaced, SaveInv, SavesAreCurrent, Under, BaseInv, DrawingsAreWhole,
           TypeInv, TypeOK, Session
  <1>2. db[s.ws] \in Row /\ db[s.ws] # None /\ db[s.ws].version \in Nat
    BY NoneIsNothing DEF Replaced, Row
  <1>3. db[s.ws].version = Len(log[s.ws])
    BY <1>1, <1>2 DEF SaveInv, VersionsCount
  <1> HIDE DEF s
  <1>4. /\ s.loaded.version = db[s.ws].version /\ s.loaded.nodes = db[s.ws].nodes
        /\ s.loaded.edges = db[s.ws].edges /\ s.object.version = db[s.ws].version + 1
        /\ s.seen \in {0, db[s.ws].version}
    BY <1>1 DEF SaveIsCurrent, Matches
  <1>5. row = Written(s, db[s.ws]) /\ s.kind = "save"
    BY DEF Replaced, s
  <1>6. /\ row.version = s.object.version /\ row.nodes = s.object.nodes
        /\ row.edges = s.object.edges
    BY <1>4, <1>5 DEF Written, Changed
  <1>7. \E c \in Drawings : ValidCanvas(c) /\ Holds(row, c)
    BY <1>1, <1>5, <1>6 DEF DrawingIsWhole, Holds
  <1> QED  BY <1>3, <1>4, <1>6, <1>7 DEF s

\* A commit that adds a version adds the next one.
LEMMA VersionsKeepCount ==
    ASSUME TypeInv, SaveInv, NEW w \in WsIds, NEW row \in Row, NEW seen \in Nat, NEW r \in Requests,
           Versions(w, row, seen, r),
           row.version = Len(log[w]) + 1, seen \in {0, Len(log[w])}
    PROVE  VersionsCount' /\ SavesBuildOnWhatTheyReplace'
  <1>1. log \in [WsIds -> Seq(LogEntry)] /\ Entry(row, seen, r) \in LogEntry
        /\ Entry(row, seen, r).version = row.version /\ Entry(row, seen, r).seen = seen
    BY EntryType DEF TypeInv, TypeOK
  <1>2. \A v \in WsIds : db'[v] = IF v = w THEN row ELSE db[v]
    BY DEF Versions, TypeInv, TypeOK
  <1>3. /\ \A v \in WsIds : v # w => log'[v] = log[v]
        /\ log'[w] = Append(log[w], Entry(row, seen, r))
    BY <1>1 DEF Versions
  <1>4. /\ Len(log'[w]) = Len(log[w]) + 1 /\ Len(log[w]) \in Nat
        /\ \A i \in 1 .. Len(log[w]) : log'[w][i] = log[w][i]
        /\ log'[w][Len(log[w]) + 1] = Entry(row, seen, r)
    BY <1>1, <1>3, AppendKeeps
  <1>5. VersionsCount'
    <2>1. \A i \in 1 .. Len(log[w]) : log'[w][i].version = i
      BY <1>4 DEF SaveInv, VersionsCount
    <2>2. log'[w][Len(log[w]) + 1].version = Len(log[w]) + 1
      BY <1>1, <1>4
    <2>3. /\ \A i \in 1 .. Len(log'[w]) : log'[w][i].version = i
          /\ db'[w] # None /\ db'[w].version = Len(log'[w])
      BY <2>1, <2>2, <1>2, <1>4, NoneIsNothing
    <2>4. ASSUME NEW v \in WsIds, v # w
          PROVE  /\ \A i \in 1 .. Len(log'[v]) : log'[v][i].version = i
                 /\ db'[v] = None => Len(log'[v]) = 0
                 /\ db'[v] # None => db'[v].version = Len(log'[v])
      BY <2>4, <1>2, <1>3 DEF SaveInv, VersionsCount
    <2> QED  BY <2>3, <2>4 DEF VersionsCount
  <1>6. SavesBuildOnWhatTheyReplace'
    <2>1. ASSUME NEW v \in WsIds, NEW i \in 2 .. Len(log'[v])
          PROVE  log'[v][i].seen \in {0, i - 1}
      <3>1. CASE v # w
        BY <3>1, <1>3 DEF SaveInv, SavesBuildOnWhatTheyReplace
      <3>2. CASE v = w /\ i = Len(log[w]) + 1
        BY <3>2, <1>1, <1>4
      <3>3. CASE v = w /\ i # Len(log[w]) + 1
        <4>1. i \in 2 .. Len(log[w]) /\ i \in 1 .. Len(log[w])
          BY <3>3, <1>4
        <4> QED  BY <3>3, <4>1, <1>4 DEF SaveInv, SavesBuildOnWhatTheyReplace
      <3> QED  BY <3>1, <3>2, <3>3
    <2> QED  BY <2>1 DEF SavesBuildOnWhatTheyReplace
  <1> QED  BY <1>5, <1>6

LEMMA CommitKeepsSaves ==
    ASSUME BaseInv, SaveInv, SavesTakeTurns, NEW r \in Requests, Commit(r)
    PROVE  SaveInv'
  <1> DEFINE s == session[r]
             w == s.ws
  <1>1. /\ s \in Session /\ w \in WsIds /\ pc[r] \in Running /\ session' = session
        /\ \A v \in WsIds \ {w} : db'[v] = db[v]
    BY CommitLeavesTheOthers
  <1>2. s.object \in Row /\ s.seen \in Nat /\ TypeInv
    BY <1>1 DEF Session, BaseInv
  <1>3. \A q \in Under("save")' : q # r /\ q \in Under("save") /\ session[q].ws \in WsIds
    BY CommitLeavesTheOthers DEF Under
  <1>4. \A q \in Under("save")' : s.kind \in {"open", "save"} => session[q].ws # w
    BY <1>1, <1>3, CommitLeavesTheOthers DEF SavesTakeTurns, Under
  <1> HIDE DEF s, w
  <1>5. ASSUME \A q \in Under("save")' : Matches(db'[session[q].ws], db[session[q].ws])
        PROVE  SavesAreCurrent'
    BY <1>1, <1>3, <1>5 DEF SaveInv, SavesAreCurrent, SaveIsCurrent, Matches
  <1>6. s.kind \in {"open", "save"} => SavesAreCurrent'
    BY <1>1, <1>3, <1>4, <1>5 DEF Matches
  <1>7. CASE Created(r, s)
    <2>1. Len(log[w]) = 0
      BY <1>1, <1>7 DEF Created, SaveInv, VersionsCount, w
    <2>2. VersionsCount' /\ SavesBuildOnWhatTheyReplace'
      BY <1>1, <1>2, <1>7, <2>1, VersionsKeepCount DEF Created, w
    <2> QED  BY <1>6, <1>7, <2>2 DEF Created, SaveInv
  <1>8. ASSUME NEW row \in Row, Replaced(r, s, row)
        PROVE  SaveInv'
    <2>1. row.version = Len(log[w]) + 1 /\ s.seen \in {0, Len(log[w])}
      BY <1>1, <1>8, SavesMeetWhatTheyLoaded DEF s, w
    <2>2. VersionsCount' /\ SavesBuildOnWhatTheyReplace'
      BY <1>1, <1>2, <1>8, <2>1, VersionsKeepCount DEF Replaced, w
    <2> QED  BY <1>6, <1>8, <2>2 DEF Replaced, SaveInv
  <1>9. ASSUME NEW row \in Row, Linked(r, s, row)
        PROVE  SaveInv'
    <2>1. /\ \A v \in WsIds : db'[v] = IF v = w THEN row ELSE db[v]
          /\ Matches(row, db[w]) /\ log' = log /\ db[w] # None /\ row # None
      <3>1. \A v \in WsIds : db'[v] = IF v = w THEN row ELSE db[v]
        BY <1>1, <1>2, <1>9, LinkedWrites DEF w
      <3> QED  BY <1>9, <3>1, NoneIsNothing DEF Linked, w
    <2>2. VersionsCount' /\ SavesBuildOnWhatTheyReplace'
      BY <2>1, <1>1 DEF SaveInv, VersionsCount, SavesBuildOnWhatTheyReplace, Matches
    <2>3. SavesAreCurrent'
      BY <2>1, <1>3, <1>5 DEF Matches
    <2> QED  BY <2>2, <2>3 DEF SaveInv
  <1>10. CASE CommitReview(r, s)
    <2>1. db' = db /\ log' = log
      BY <1>10 DEF CommitReview
    <2>2. VersionsCount' /\ SavesBuildOnWhatTheyReplace'
      BY <2>1 DEF SaveInv, VersionsCount, SavesBuildOnWhatTheyReplace
    <2>3. SavesAreCurrent'
      BY <2>1, <1>5 DEF Matches
    <2> QED  BY <2>2, <2>3 DEF SaveInv
  <1> QED  BY <1>7, <1>8, <1>9, <1>10, CommitCases DEF s

LEMMA InitSaves ==
    ASSUME Init
    PROVE  SaveInv
  <1>1. ASSUME NEW w \in WsIds
        PROVE  /\ \A i \in 1 .. Len(log[w]) : log[w][i].version = i
               /\ db[w] = None => Len(log[w]) = 0
               /\ db[w] # None => db[w].version = Len(log[w])
               /\ Len(log[w]) \in {0, 1}
    <2>1. CASE w \in DOMAIN Opened
      <3>1. db[w].version = 1 /\ db[w] \in Row
        BY <2>1, OpenedAssumption, NewRowType DEF Init, NewRow
      <3>2. log[w] = <<Entry(db[w], 0, None)>>
        BY <2>1 DEF Init
      <3>3. Len(log[w]) = 1 /\ log[w][1] = Entry(db[w], 0, None)
        BY <3>2
      <3>4. Entry(db[w], 0, None).version = 1
        BY <3>1 DEF Entry
      <3> QED  BY <3>1, <3>3, <3>4, NoneIsNothing
    <2>2. CASE w \notin DOMAIN Opened
      BY <2>2 DEF Init
    <2> QED  BY <2>1, <2>2
  <1>2. VersionsCount
    BY <1>1 DEF VersionsCount
  <1>3. SavesBuildOnWhatTheyReplace
    BY <1>1 DEF SavesBuildOnWhatTheyReplace
  <1>4. Under("save") = {}
    BY OutcomesAndSteps DEF Init, Under
  <1> QED  BY <1>2, <1>3, <1>4 DEF SaveInv, SavesAreCurrent

LEMMA NextKeepsSaves == BaseInv /\ SaveInv /\ SavesTakeTurns /\ [Next]_vars => SaveInv'
  <1> SUFFICES ASSUME BaseInv, SaveInv, SavesTakeTurns, [Next]_vars
               PROVE  SaveInv'
    OBVIOUS
  <1>1. CASE UNCHANGED vars
    BY <1>1 DEF vars, SaveInv, VersionsCount, SavesBuildOnWhatTheyReplace,
                SavesAreCurrent, SaveIsCurrent, Under, Matches
  <1> QED  BY <1>1, StepsOfNext, ServedKeepsSaves, CommitKeepsSaves DEF BaseInv

LEMMA SavesInvariant == Spec /\ []SavesTakeTurns => [](BaseInv /\ SaveInv)
  BY InitSaves, NextKeepsSaves, BaseInvariant, PTL DEF Spec

(***************************************************************************)
(* When the saves of each canvas take turns, whatever else overlaps, no    *)
(* save silently overwrites a state its author had not seen.               *)
(***************************************************************************)
THEOREM SavesAreNotLost ==
    Spec /\ []SavesTakeTurns => []SavesBuildOnWhatTheyReplace
  <1>1. SaveInv => SavesBuildOnWhatTheyReplace
    BY DEF SaveInv
  <1> QED  BY <1>1, SavesInvariant, PTL

(***************************************************************************)
(* When the saves of each canvas take turns, a version names one state.    *)
(***************************************************************************)
THEOREM VersionsAreNames ==
    Spec /\ []SavesTakeTurns => []VersionNamesOneCanvas
  <1>1. SaveInv => VersionNamesOneCanvas
    BY DEF SaveInv, VersionsCount, VersionNamesOneCanvas
  <1> QED  BY <1>1, SavesInvariant, PTL

(***************************************************************************)
(* When the saves of each canvas take turns, what is stored is a graph the *)
(* schema would accept: nodes and edges of one drawing.                    *)
(***************************************************************************)
THEOREM StoredCanvasesAreValid ==
    Spec /\ []SavesTakeTurns => []StoredCanvasesValid
  <1> DEFINE ValidRow(row) == ValidCanvas([nodes |-> row.nodes, edges |-> row.edges])
  <1>1. BaseInv /\ SaveInv /\ StoredCanvasesValid /\ [Next]_vars => StoredCanvasesValid'
    <2> SUFFICES ASSUME BaseInv, SaveInv, StoredCanvasesValid, [Next]_vars,
                        NEW w \in WsIds, db'[w] # None
                 PROVE  ValidRow(db'[w])
      BY DEF StoredCanvasesValid, ValidCanvas, WithinBounds, UniqueNodeIds,
             EdgesReferenceRealNodes
    <2>0. TypeInv
      BY DEF BaseInv
    <2>1. ASSUME db'[w] = db[w]
          PROVE  ValidRow(db'[w])
      BY <2>1 DEF StoredCanvasesValid
    <2>2. ASSUME NEW r \in Requests, Commit(r)
          PROVE  ValidRow(db'[w])
      <3> DEFINE s == session[r]
      <3>1. s.ws \in WsIds /\ pc[r] \in Running
        BY <2>2, CommitLeavesTheOthers
      <3> HIDE DEF s
      <3>2. CASE Created(r, s)
        <4>1. db'[w] = IF w = s.ws THEN s.object ELSE db[w]
          BY <2>0, <3>1, <3>2, VersionsWrite DEF Created
        <4>2. Holds(s.object, BlankCanvas)
          BY <3>2 DEF Created
        <4> QED  BY <2>1, <4>1, <4>2, BlankIsValid, SameCanvas
      <3>3. ASSUME NEW row \in Row, Replaced(r, s, row)
            PROVE  ValidRow(db'[w])
        <4>1. db'[w] = IF w = s.ws THEN row ELSE db[w]
          BY <2>0, <3>1, <3>3, VersionsWrite DEF Replaced
        <4>2. PICK c \in Drawings : ValidCanvas(c) /\ Holds(row, c)
          BY <3>1, <3>3, SavesMeetWhatTheyLoaded DEF s
        <4> QED  BY <2>1, <4>1, <4>2, SameCanvas
      <3>4. ASSUME NEW row \in Row, Linked(r, s, row)
            PROVE  ValidRow(db'[w])
        <4>1. db'[w] = IF w = s.ws THEN row ELSE db[w]
          BY <2>0, <3>1, <3>4, LinkedWrites
        <4>2. row.nodes = db[s.ws].nodes /\ row.edges = db[s.ws].edges /\ db[s.ws] # None
          BY <3>4, NoneIsNothing DEF Linked, Matches
        <4> QED  BY <2>1, <4>1, <4>2, <3>1 DEF StoredCanvasesValid
      <3>5. CASE CommitReview(r, s)
        BY <2>1, <3>5 DEF CommitReview
      <3> QED  BY <2>2, <3>2, <3>3, <3>4, <3>5, CommitCases DEF s
    <2>3. db' = db \/ \E r \in Requests : Commit(r)
      BY <2>0, StepsOfNext DEF ServedStep, vars
    <2> QED  BY <2>1, <2>2, <2>3
  <1>2. Init => StoredCanvasesValid
    <2> SUFFICES ASSUME Init, NEW w \in WsIds, db[w] # None
                 PROVE  ValidRow(db[w])
      BY DEF StoredCanvasesValid
    <2>1. Holds(db[w], BlankCanvas)
      BY DEF Init, NewRow, Holds
    <2> QED  BY <2>1, BlankIsValid, SameCanvas
  <1> QED  BY <1>1, <1>2, SavesInvariant, PTL DEF Spec
-----------------------------------------------------------------------------
(***************************************************************************)
(* Share links when the shares of a canvas take turns.  A share under way  *)
(* has loaded the link that is still stored, so it writes a new one only   *)
(* where nobody was ever given one.                                        *)
(***************************************************************************)
SharesAreCurrent ==
    \A r \in Under("share") : session[r].loaded.share = db[session[r].ws].share

LEMMA ServedKeepsShares ==
    ASSUME SharesAreCurrent, NEW r \in Requests, ServedStep(r)
    PROVE  SharesAreCurrent'
  <1>1. ASSUME NEW q \in Under("share")'
        PROVE  session'[q].loaded.share = db[session'[q].ws].share
    <2>1. q \in Requests /\ pc'[q] \in Running /\ session'[q].kind = "share"
      BY DEF Under
    <2>2. CASE pc[q] \in Running /\ session'[q] = session[q]
      BY <2>1, <2>2 DEF SharesAreCurrent, Under
    <2>3. CASE session'[q].ws \in WsIds /\ Reads(session'[q])
      BY <2>1, <2>3 DEF Reads
    <2> QED  BY <2>1, <2>2, <2>3 DEF ServedStep
  <1> QED  BY <1>1 DEF SharesAreCurrent, ServedStep

LEMMA CommitKeepsShares ==
    ASSUME BaseInv, SharesAreCurrent, SharesTakeTurns, NEW r \in Requests, Commit(r)
    PROVE  SharesAreCurrent'
  <1> DEFINE s == session[r]
             w == s.ws
  <1>1. /\ w \in WsIds /\ pc[r] \in Running /\ session' = session /\ TypeInv
        /\ \A v \in WsIds \ {w} : db'[v] = db[v]
    BY CommitLeavesTheOthers DEF BaseInv
  <1>2. \A q \in Under("share")' : q # r /\ q \in Under("share") /\ session[q].ws \in WsIds
    BY CommitLeavesTheOthers DEF Under
  <1>3. \A q \in Under("share")' : s.kind \in {"open", "share"} => session[q].ws # w
    BY <1>1, <1>2, CommitLeavesTheOthers DEF SharesTakeTurns, Under
  <1> HIDE DEF s, w
  <1>4. ASSUME \A q \in Under("share")' : db'[session[q].ws].share = db[session[q].ws].share
        PROVE  SharesAreCurrent'
    BY <1>1, <1>2, <1>4 DEF SharesAreCurrent
  <1>5. CASE s.kind \in {"open", "share"}
    BY <1>1, <1>2, <1>3, <1>4, <1>5
  <1>6. ASSUME NEW row \in Row, Replaced(r, s, row)
        PROVE  SharesAreCurrent'
    <2>1. \A v \in WsIds : db'[v] = IF v = w THEN row ELSE db[v]
      BY <1>1, <1>6, VersionsWrite DEF Replaced, w
    <2>2. row.share = db[w].share
      BY <1>6 DEF Replaced, w
    <2> QED  BY <1>2, <1>4, <2>1, <2>2
  <1>7. CASE CommitReview(r, s)
    BY <1>4, <1>7 DEF CommitReview
  <1> QED  BY <1>5, <1>6, <1>7, CommitCases DEF s, Created, Linked

LEMMA SharesInvariant == Spec /\ []SharesTakeTurns => [](BaseInv /\ SharesAreCurrent)
  <1>1. Init => SharesAreCurrent
    BY OutcomesAndSteps DEF Init, SharesAreCurrent, Under
  <1>2. BaseInv /\ SharesAreCurrent /\ SharesTakeTurns /\ [Next]_vars => SharesAreCurrent'
    <2>1. CASE UNCHANGED vars
      BY <2>1 DEF vars, SharesAreCurrent, Under
    <2> QED  BY <2>1, StepsOfNext, ServedKeepsShares, CommitKeepsShares DEF BaseInv
  <1> QED  BY <1>1, <1>2, BaseInvariant, PTL DEF Spec

\* What a share writes when the link it loaded is still stored.
LEMMA SharesMeetWhatTheyLoaded ==
    ASSUME BaseInv, SharesAreCurrent, NEW r \in Requests, pc[r] \in Running,
           NEW row, Linked(r, session[r], row)
    PROVE  /\ row.share = session[r].object.share
           /\ db[session[r].ws].share # None => row.share = db[session[r].ws].share
  <1> DEFINE s == session[r]
  <1>1. s.loaded.share = db[s.ws].share /\ ShareFits(r, s) /\ s.kind = "share"
    BY DEF Linked, SharesAreCurrent, Under, BaseInv, EffectsInv, SharesFit
  <1>2. row = Written(s, db[s.ws])
    BY DEF Linked
  <1> HIDE DEF s
  <1>3. row.share = s.object.share
    BY <1>1, <1>2 DEF Written, Changed
  <1>4. db[s.ws].share # None => s.object.share = db[s.ws].share
    BY <1>1 DEF ShareFits
  <1> QED  BY <1>3, <1>4 DEF s

(***************************************************************************)
(* When the shares of each canvas take turns, whatever else overlaps, a    *)
(* link a client was given stays the workspace's link: a save under way    *)
(* with the share never writes the column.                                 *)
(***************************************************************************)
THEOREM AnsweredLinksLast ==
    Spec /\ []SharesTakeTurns => []AnsweredLinksResolve
  <1> DEFINE Answered(q) == pc[q] = "ok" /\ session[q] # None /\ session[q].kind = "share"
             Lasts(q) == db[session[q].ws].share = session[q].object.share
  <1>1. BaseInv /\ SharesAreCurrent /\ AnsweredLinksResolve /\ [Next]_vars
            => AnsweredLinksResolve'
    <2> SUFFICES ASSUME BaseInv, SharesAreCurrent, AnsweredLinksResolve, [Next]_vars,
                        NEW q \in Requests,
                        pc'[q] = "ok", session'[q] # None, session'[q].kind = "share"
                 PROVE  db'[session'[q].ws].share = session'[q].object.share
      BY DEF AnsweredLinksResolve
    <2>0. TypeInv
      BY DEF BaseInv
    <2>1. ASSUME NEW r \in Requests, Commit(r)
          PROVE  db'[session'[q].ws].share = session'[q].object.share
      <3> DEFINE s == session[r]
                 x == session[q].ws
      <3>1. /\ s.ws \in WsIds /\ pc[r] \in Running
            /\ session' = session /\ pc' = [pc EXCEPT ![r] = "ok"]
        BY <2>1, CommitLeavesTheOthers
      <3>2. q # r => Answered(q)
        BY <2>0, <3>1 DEF TypeInv, TypeOK
      <3>3. x \in WsIds
        BY <2>0, <3>1 DEF TypeInv, TypeOK, Session
      <3>4. q # r => /\ db[x].share = session[q].object.share
                     /\ db[x] # None /\ db[x].share # None
        BY <3>2 DEF AnsweredLinksResolve, BaseInv, EffectsInv, OkIsEffected, Effected
      <3>5. session[q].kind = "share" /\ session'[q] = session[q]
        BY <3>1
      <3> HIDE DEF s, x
      <3>6. CASE Created(r, s)
        <4>1. db'[x] = IF x = s.ws THEN s.object ELSE db[x]
          BY <2>0, <3>1, <3>3, <3>6, VersionsWrite DEF Created
        <4>2. q # r
          BY <3>5, <3>6 DEF Created, s
        <4> QED  BY <3>4, <3>5, <3>6, <4>1, <4>2 DEF Created, x
      <3>7. ASSUME NEW row \in Row, Replaced(r, s, row)
            PROVE  db'[session'[q].ws].share = session'[q].object.share
        <4>1. db'[x] = IF x = s.ws THEN row ELSE db[x]
          BY <2>0, <3>1, <3>3, <3>7, VersionsWrite DEF Replaced
        <4>2. q # r
          BY <3>5, <3>7 DEF Replaced, s
        <4> QED  BY <3>4, <3>5, <3>7, <4>1, <4>2 DEF Replaced, x
      <3>8. ASSUME NEW row \in Row, Linked(r, s, row)
            PROVE  db'[session'[q].ws].share = session'[q].object.share
        <4>1. db'[x] = IF x = s.ws THEN row ELSE db[x]
          BY <2>0, <3>1, <3>3, <3>8, LinkedWrites
        <4>2. /\ row.share = s.object.share
              /\ db[s.ws].share # None => row.share = db[s.ws].share
          BY <3>1, <3>8, SharesMeetWhatTheyLoaded DEF s
        <4>3. CASE q = r
          BY <3>5, <4>1, <4>2, <4>3 DEF x, s
        <4>4. CASE q # r
          BY <3>4, <3>5, <4>1, <4>2, <4>4 DEF x
        <4> QED  BY <4>3, <4>4
      <3>9. CASE CommitReview(r, s)
        <4>1. q # r /\ db' = db
          BY <3>5, <3>9 DEF CommitReview, s
        <4> QED  BY <3>4, <3>5, <4>1 DEF x
      <3> QED  BY <2>1, <3>6, <3>7, <3>8, <3>9, CommitCases DEF s
    <2>2. ASSUME NEW r \in Requests, ServedStep(r)
          PROVE  db'[session'[q].ws].share = session'[q].object.share
      BY <2>2 DEF ServedStep, AnsweredLinksResolve
    <2>3. CASE UNCHANGED vars
      BY <2>3 DEF vars, AnsweredLinksResolve
    <2> QED  BY <2>0, <2>1, <2>2, <2>3, StepsOfNext
  <1>2. Init => AnsweredLinksResolve
    BY DEF Init, AnsweredLinksResolve
  <1> QED  BY <1>1, <1>2, SharesInvariant, PTL DEF Spec
-----------------------------------------------------------------------------
(***************************************************************************)
(* The register of VersionedCanvas, read off the table and the histories.  *)
(***************************************************************************)
StoredIn(table) ==
    [w \in WsIds |->
        IF table[w] = None THEN None
        ELSE [version |-> table[w].version, nodes |-> table[w].nodes,
              edges |-> table[w].edges]]

SeenIn(history) ==
    [w \in WsIds |-> [i \in 1 .. Len(history[w]) |-> history[w][i].seen]]

LEMMA SeenOfAppend ==
    ASSUME NEW q \in Seq(LogEntry), NEW e \in LogEntry
    PROVE  /\ [i \in 1 .. Len(q) |-> q[i].seen] \in Seq(Nat)
           /\ Len([i \in 1 .. Len(q) |-> q[i].seen]) = Len(q)
           /\ [i \in 1 .. Len(Append(q, e)) |-> Append(q, e)[i].seen]
                  = Append([i \in 1 .. Len(q) |-> q[i].seen], e.seen)
  <1> DEFINE seenBy == [i \in 1 .. Len(q) |-> q[i].seen]
             seenNow == [i \in 1 .. Len(Append(q, e)) |-> Append(q, e)[i].seen]
  <1>1. \A i \in 1 .. Len(q) : q[i] \in LogEntry
    OBVIOUS
  <1>2. \A i \in 1 .. Len(q) : q[i].seen \in Nat
    BY <1>1 DEF LogEntry
  <1>3. seenBy \in Seq(Nat) /\ Len(seenBy) = Len(q) /\ Len(q) \in Nat
    BY <1>2
  <1>4. /\ Len(Append(q, e)) = Len(q) + 1
        /\ \A i \in 1 .. Len(q) : Append(q, e)[i] = q[i]
        /\ Append(q, e)[Len(q) + 1] = e
    BY AppendKeeps
  <1>5. e.seen \in Nat
    BY DEF LogEntry
  <1>6. \A i \in 1 .. Len(q) : seenBy[i] = q[i].seen
    OBVIOUS
  <1>7. \A i \in 1 .. Len(q) + 1 : seenNow[i] = Append(q, e)[i].seen
    BY <1>4
  <1>8. seenNow \in Seq(Nat) /\ Len(seenNow) = Len(q) + 1
    <2>1. \A i \in 1 .. Len(q) + 1 : Append(q, e)[i].seen \in Nat
      BY <1>2, <1>3, <1>4, <1>5
    <2> QED  BY <1>3, <1>4, <2>1
  <1> HIDE DEF seenBy, seenNow
  <1>9. Append(seenBy, e.seen) \in Seq(Nat) /\ Len(Append(seenBy, e.seen)) = Len(q) + 1
    BY <1>3, <1>5
  <1>10. ASSUME NEW i \in 1 .. Len(q) + 1
         PROVE  seenNow[i] = Append(seenBy, e.seen)[i]
    <2>1. CASE i \in 1 .. Len(q)
      BY <2>1, <1>3, <1>4, <1>5, <1>6, <1>7
    <2>2. CASE i = Len(q) + 1
      BY <2>2, <1>3, <1>4, <1>5, <1>7
    <2> QED  BY <2>1, <2>2, <1>3
  <1>11. seenNow = Append(seenBy, e.seen)
    BY <1>3, <1>8, <1>9, <1>10
  <1> QED  BY <1>3, <1>11 DEF seenBy, seenNow

\* A commit that versions a row writes one register and one position seen.
LEMMA VersionsRegister ==
    ASSUME TypeInv, NEW w \in WsIds, NEW row \in Row, NEW seen \in Nat, NEW r \in Requests,
           Versions(w, row, seen, r)
    PROVE  /\ StoredIn(db') = [StoredIn(db) EXCEPT ![w] =
                  [version |-> row.version, nodes |-> row.nodes, edges |-> row.edges]]
           /\ SeenIn(log') = [SeenIn(log) EXCEPT ![w] = Append(@, seen)]
           /\ Len(SeenIn(log)[w]) = Len(log[w])
  <1>1. \A v \in WsIds : db'[v] = IF v = w THEN row ELSE db[v]
    BY VersionsWrite
  <1>2. row # None
    BY NoneIsNothing
  <1>3. StoredIn(db') = [StoredIn(db) EXCEPT ![w] =
                  [version |-> row.version, nodes |-> row.nodes, edges |-> row.edges]]
    BY <1>1, <1>2 DEF StoredIn
  <1>4. log \in [WsIds -> Seq(LogEntry)] /\ Entry(row, seen, r) \in LogEntry
        /\ Entry(row, seen, r).seen = seen
    BY EntryType DEF TypeInv, TypeOK
  <1>5. \A v \in WsIds : log'[v] = IF v = w THEN Append(log[w], Entry(row, seen, r))
                                   ELSE log[v]
    BY <1>4 DEF Versions
  <1>6. log[w] \in Seq(LogEntry)
    BY <1>4
  <1>7. /\ Len(SeenIn(log)[w]) = Len(log[w])
        /\ SeenIn(log')[w] = Append(SeenIn(log)[w], seen)
    BY <1>4, <1>5, <1>6, SeenOfAppend DEF SeenIn
  <1>8. \A v \in WsIds \ {w} : SeenIn(log')[v] = SeenIn(log)[v]
    BY <1>5 DEF SeenIn
  <1>9. SeenIn(log') = [SeenIn(log) EXCEPT ![w] = Append(@, seen)]
    BY <1>7, <1>8 DEF SeenIn
  <1> QED  BY <1>3, <1>7, <1>9

LEMMA InitRegister ==
    ASSUME Init
    PROVE  Promise!Init
  <1>1. ASSUME NEW w \in WsIds
        PROVE  /\ StoredIn(db)[w] = IF w \in DOMAIN Opened
                                    THEN Promise!Register(1, BlankCanvas) ELSE None
               /\ SeenIn(log)[w] = IF w \in DOMAIN Opened THEN <<0>> ELSE << >>
    <2>1. CASE w \in DOMAIN Opened
      <3>1. db[w] = NewRow(Opened[w].owner, Opened[w].problem)
            /\ log[w] = <<Entry(db[w], 0, None)>>
        BY <2>1 DEF Init
      <3>2. db[w] \in Row
        BY <2>1, <3>1, OpenedAssumption, NewRowType
      <3>3. StoredIn(db)[w] = Promise!Register(1, BlankCanvas)
        BY <3>1, <3>2, NoneIsNothing DEF StoredIn, Promise!Register, NewRow
      <3>4. Len(log[w]) = 1 /\ log[w][1].seen = 0
        BY <3>1 DEF Entry
      <3>5. SeenIn(log)[w] = <<0>>
        <4>1. SeenIn(log)[w] = [i \in 1 .. 1 |-> log[w][i].seen]
          BY <3>4 DEF SeenIn
        <4>2. [i \in 1 .. 1 |-> log[w][i].seen] = [i \in 1 .. 1 |-> 0]
          BY <3>4
        <4>3. [i \in 1 .. 1 |-> 0] = <<0>>
          OBVIOUS
        <4> QED  BY <4>1, <4>2, <4>3
      <3> QED  BY <2>1, <3>3, <3>5
    <2>2. CASE w \notin DOMAIN Opened
      <3>1. db[w] = None /\ log[w] = << >>
        BY <2>2 DEF Init
      <3>2. SeenIn(log)[w] = << >>
        BY <3>1 DEF SeenIn
      <3> QED  BY <2>2, <3>1, <3>2 DEF StoredIn
    <2> QED  BY <2>1, <2>2
  <1>2. StoredIn(db) = [w \in WsIds |-> IF w \in DOMAIN Opened
                                        THEN Promise!Register(1, BlankCanvas) ELSE None]
    BY <1>1 DEF StoredIn
  <1>3. SeenIn(log) = [w \in WsIds |-> IF w \in DOMAIN Opened THEN <<0>> ELSE << >>]
    BY <1>1 DEF SeenIn
  <1>4. DOMAIN Opened \in SUBSET WsIds
    BY OpenedAssumption
  <1> QED  BY <1>2, <1>3, <1>4 DEF Promise!Init, StoredIn, SeenIn

LEMMA StepRegister ==
    ASSUME BaseInv, SaveInv, [Next]_vars
    PROVE  Promise!Next \/ (StoredIn(db') = StoredIn(db) /\ SeenIn(log') = SeenIn(log))
  <1>0. TypeInv
    BY DEF BaseInv
  <1>1. ASSUME NEW r \in Requests, Commit(r), NEW s, s = session[r], NEW w, w = s.ws
        PROVE  Promise!Next \/ (StoredIn(db') = StoredIn(db) /\ SeenIn(log') = SeenIn(log))
    <2>1. /\ s \in Session /\ w \in WsIds /\ s.object \in Row /\ s.seen \in Nat
          /\ pc[r] \in Running
      BY <1>1, CommitLeavesTheOthers DEF Session
    <2>2. CASE Created(r, s)
      <3>1. /\ StoredIn(db') = [StoredIn(db) EXCEPT ![w] =
                   [version |-> s.object.version, nodes |-> s.object.nodes,
                    edges |-> s.object.edges]]
            /\ SeenIn(log') = [SeenIn(log) EXCEPT ![w] = Append(@, 0)]
            /\ Len(SeenIn(log)[w]) = Len(log[w])
        BY <1>0, <1>1, <2>1, <2>2, VersionsRegister DEF Created
      <3>2. db[w] = None /\ Len(log[w]) = 0
        BY <1>1, <2>1, <2>2 DEF Created, SaveInv, VersionsCount
      <3>3. log[w] = << >>
        BY <1>0, <2>1, <3>2 DEF TypeInv, TypeOK
      <3>4. SeenIn(log)[w] = << >>
        BY <2>1, <3>3 DEF SeenIn
      <3>5. StoredIn(db)[w] = None
        BY <2>1, <3>2 DEF StoredIn
      <3>6. Promise!Register(1, BlankCanvas) =
                [version |-> s.object.version, nodes |-> s.object.nodes,
                 edges |-> s.object.edges]
        BY <2>2 DEF Created, Holds, Promise!Register
      <3>7. SeenIn(log') = [SeenIn(log) EXCEPT ![w] = <<0>>]
        BY <3>1, <3>4
      <3>8. Promise!Create(w)
        BY <3>1, <3>5, <3>6, <3>7 DEF Promise!Create, StoredIn, SeenIn
      <3> QED  BY <2>1, <3>8 DEF Promise!Next
    <2>3. ASSUME NEW row \in Row, Replaced(r, s, row)
          PROVE  Promise!Next
      <3>1. /\ StoredIn(db') = [StoredIn(db) EXCEPT ![w] =
                   [version |-> row.version, nodes |-> row.nodes, edges |-> row.edges]]
            /\ SeenIn(log') = [SeenIn(log) EXCEPT ![w] = Append(@, s.seen)]
            /\ Len(SeenIn(log)[w]) = Len(log[w])
        BY <1>0, <1>1, <2>1, <2>3, VersionsRegister DEF Replaced
      <3>0. /\ row.version = db[w].version + 1 /\ s.seen \in {0, Len(log[w])}
            /\ \E c \in Drawings : ValidCanvas(c) /\ Holds(row, c)
        BY <1>1, <2>1, <2>3, SavesMeetWhatTheyLoaded
      <3>2. PICK c \in Drawings : ValidCanvas(c) /\ Holds(row, c)
        BY <3>0
      <3>3. /\ StoredIn(db)[w] = [version |-> db[w].version, nodes |-> db[w].nodes,
                                  edges |-> db[w].edges]
            /\ row.version = db[w].version + 1
        BY <1>1, <2>1, <2>3, <3>0, NoneIsNothing DEF Replaced, StoredIn
      <3>4. StoredIn(db)[w] # None
        <4>1. [version |-> db[w].version, nodes |-> db[w].nodes, edges |-> db[w].edges]
                  # None
          BY <1>1, <2>3, NoneIsNothing DEF Replaced, Row
        <4> QED  BY <3>3, <4>1
      <3>5. Promise!Register(StoredIn(db)[w].version + 1, c) =
                [version |-> row.version, nodes |-> row.nodes, edges |-> row.edges]
        BY <3>2, <3>3 DEF Holds, Promise!Register
      <3>6. s.seen \in {0, Len(SeenIn(log)[w])}
        BY <3>0, <3>1
      <3>7. Promise!Replace(w, c, s.seen)
        BY <3>1, <3>4, <3>5, <3>6 DEF Promise!Replace, StoredIn, SeenIn
      <3> QED  BY <2>1, <3>2, <3>6, <3>7 DEF Promise!Next, SeenIn
    <2>4. ASSUME NEW row \in Row, Linked(r, s, row)
          PROVE  StoredIn(db') = StoredIn(db) /\ SeenIn(log') = SeenIn(log)
      <3>1. \A v \in WsIds : db'[v] = IF v = w THEN row ELSE db[v]
        BY <1>0, <1>1, <2>1, <2>4, LinkedWrites
      <3>2. Matches(row, db[w]) /\ row # None /\ db[w] # None /\ log' = log
        BY <1>1, <2>4, NoneIsNothing DEF Linked
      <3> QED  BY <3>1, <3>2 DEF StoredIn, Matches
    <2>5. CASE CommitReview(r, s)
      BY <2>5 DEF CommitReview
    <2> QED  BY <1>1, <2>2, <2>3, <2>4, <2>5, CommitCases
  <1> QED  BY <1>0, <1>1, StepsOfNext DEF ServedStep, vars

(***************************************************************************)
(* When the saves of each canvas take turns, whatever else overlaps, the   *)
(* workspaces implement the versioned register of VersionedCanvas: opening *)
(* creates, a save that commits replaces in one step what its author had   *)
(* seen, and nothing else touches what is stored.                          *)
(***************************************************************************)
THEOREM WorkspacesAreRegisters ==
    Spec /\ []SavesTakeTurns => SavesAreAtomic
  <1>1. BaseInv /\ SaveInv /\ [Next]_vars
            => Promise!Next \/ UNCHANGED <<StoredIn(db), SeenIn(log)>>
    BY StepRegister
  <1> QED  BY <1>1, InitRegister, SavesInvariant, PTL
           DEF Spec, SavesAreAtomic, Promise!Spec, StoredIn, SeenIn
-----------------------------------------------------------------------------
(***************************************************************************)
(* Writers of a canvas that take turns, as when one tab at a time is open  *)
(* on it.  The server looks a writer's canvas up by its key, so the        *)
(* invariant says that a writer still holds the key of the row it loaded.  *)
(***************************************************************************)
OneWriterPerCanvas ==
    \A q, r \in Writing : session[q].ws = session[r].ws => q = r

WritersAreKeyed ==
    \A r \in Writing :
        session[r].kind # "open" => SameKey(session[r].object, db[session[r].ws])

TurnInv == OneWriterPerCanvas /\ WritersAreKeyed

LEMMA ServedKeepsTurns ==
    ASSUME ~Overlap, BaseInv, BaseInv', TurnInv, NEW r \in Requests, ServedStep(r)
    PROVE  TurnInv'
  <1>1. ASSUME NEW q \in Writing'
        PROVE  \/ q \in Writing /\ session'[q] = session[q]
               \/ q = r /\ session'[r].ws \in WsIds /\ Reads(session'[r])
    BY <1>1 DEF ServedStep, Writing
  <1>2. ASSUME NEW q \in Writing, q # r, NEW s, s.ws \in WsIds, Reads(s),
               s.kind \in {"open", "save", "share"}
        PROVE  session[q].ws # s.ws
    <2>1. q \in Requests /\ pc[q] \in Running /\ session[q].kind # "review"
      BY DEF Writing
    <2>2. CASE s.kind = "open"
      BY <1>2, <2>1, <2>2 DEF Reads
    <2>3. CASE s.kind # "open"
      <3>1. db[s.ws] # None /\ ~SameKey(session[q].object, db[s.ws])
        BY <1>2, <2>3 DEF Reads, QuietRow, Quiet, SameKey
      <3>2. CASE session[q].kind = "open"
        BY <2>1, <3>1, <3>2 DEF BaseInv, KeyInv, IdsReserved
      <3>3. CASE session[q].kind # "open"
        BY <3>1, <3>3 DEF TurnInv, WritersAreKeyed
      <3> QED  BY <3>2, <3>3
    <2> QED  BY <2>2, <2>3
  <1>3. r \in Writing' => session'[r].kind \in {"open", "save", "share"}
    BY DEF Writing, BaseInv, TypeInv, TypeOK, Session
  <1>4. OneWriterPerCanvas'
    BY <1>1, <1>2, <1>3 DEF TurnInv, OneWriterPerCanvas
  <1>5. WritersAreKeyed'
    BY <1>1 DEF TurnInv, WritersAreKeyed, ServedStep, Reads
  <1> QED  BY <1>4, <1>5 DEF TurnInv

LEMMA CommitKeepsTurns ==
    ASSUME BaseInv, TurnInv, NEW r \in Requests, Commit(r)
    PROVE  TurnInv'
  <1>1. \A q \in Writing' : q # r /\ q \in Writing /\ session'[q] = session[q]
    BY CommitLeavesTheOthers DEF Writing
  <1>2. \A q \in Writing' : db'[session[q].ws] = db[session[q].ws]
    <2>1. CASE r \in Writing
      <3>1. \A q \in Writing' : session[q].ws \in WsIds \ {session[r].ws}
        BY <1>1, <2>1, CommitLeavesTheOthers DEF TurnInv, OneWriterPerCanvas, Writing
      <3> QED  BY <3>1, CommitLeavesTheOthers
    <2>2. CASE r \notin Writing
      <3>1. session[r].kind = "review"
        BY <2>2, CommitLeavesTheOthers DEF Writing
      <3>2. db' = db
        BY <3>1 DEF Commit, CommitOpen, CommitSave, CommitShare, CommitReview
      <3> QED  BY <3>2
    <2> QED  BY <2>1, <2>2
  <1> QED  BY <1>1, <1>2 DEF TurnInv, OneWriterPerCanvas, WritersAreKeyed

(***************************************************************************)
(* Writers of a canvas that take turns never put two saves of it, or two   *)
(* shares of it, under way together: the hypotheses above are met.         *)
(***************************************************************************)
THEOREM SerialWritersTakeTurns ==
    ASSUME ~Overlap
    PROVE  Spec => []SavesTakeTurns /\ []SharesTakeTurns
  <1>1. BaseInv /\ BaseInv' /\ TurnInv /\ [Next]_vars => TurnInv'
    <2>1. CASE UNCHANGED vars
      BY <2>1 DEF vars, TurnInv, OneWriterPerCanvas, WritersAreKeyed, Writing
    <2> QED  BY <2>1, StepsOfNext, ServedKeepsTurns, CommitKeepsTurns DEF BaseInv
  <1>2. Init => TurnInv
    BY OutcomesAndSteps DEF Init, TurnInv, OneWriterPerCanvas, WritersAreKeyed, Writing
  <1>3. TurnInv => SavesTakeTurns /\ SharesTakeTurns
    BY DEF TurnInv, OneWriterPerCanvas, SavesTakeTurns, SharesTakeTurns, Under, Writing
  <1> QED  BY <1>1, <1>2, <1>3, BaseInvariant, PTL DEF Spec

(***************************************************************************)
(* When the writers of each canvas take turns, each workspace is the       *)
(* versioned register, no save is lost, a version names one state, what is *)
(* stored is a valid graph, and a link that was given away stays.          *)
(***************************************************************************)
THEOREM SerialCanvases ==
    ASSUME ~Overlap
    PROVE  Spec => /\ SavesAreAtomic
                   /\ []SavesBuildOnWhatTheyReplace
                   /\ []VersionNamesOneCanvas
                   /\ []StoredCanvasesValid
                   /\ []AnsweredLinksResolve
  BY SerialWritersTakeTurns, WorkspacesAreRegisters, SavesAreNotLost, VersionsAreNames,
     StoredCanvasesAreValid, AnsweredLinksLast, PTL
=============================================================================
