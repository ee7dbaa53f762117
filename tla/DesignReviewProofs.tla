------------------------- MODULE DesignReviewProofs -------------------------
(***************************************************************************)
(* For any number of requests, any pool, subscriptions and scores: the     *)
(* model is asked only for who has paid, what the page shows is sound, no  *)
(* review on the page gives way to one of an older canvas, and the pool's  *)
(* connections are exactly those of the sessions that are under way.       *)
(*                                                                         *)
(* The account is never enabled again, so who is active later was active   *)
(* when the request was made; a period that has not ended now had not      *)
(* ended then.  A request that asked the model keeps what it was and got.  *)
(***************************************************************************)
EXTENDS DesignReview, FiniteSetTheorems, TLAPS

Asked == {"model", "flush", "commit", "over"}

Request ==
    [kind : {"review", "stray", "brief"},
     stage : {"idle", "arrived", "wait", "limit", "handle"} \cup Asked,
     row : Snapshots \cup {Null}, entitled : BOOLEAN,
     version : Nat, score : Scores \cup {0},
     answer : {Null, "done", "review", "error"},
     began : 0 .. MaxTime, alive : BOOLEAN]

Page == [reviewing : BOOLEAN, awaits : SUBSET Requests, shows : Requests \cup {Null}]

HadPaid(r) == req[r].row # Null /\ Paid(req[r].row, req[r].began)

\* Up to the model call.
GateInv(r) ==
    /\ req[r].began <= now
    /\ active /\ req[r].stage \notin {"idle", "over"} => req[r].alive
    /\ req[r].stage \in {"limit", "handle"} => req[r].alive
    /\ req[r].stage = "handle" /\ req[r].kind # "brief" /\ req[r].entitled => HadPaid(r)

\* From the model call to the answer.
AskedInv(r) ==
    /\ req[r].stage \in {"model", "flush", "commit"} => r \in calls
    /\ r \in calls => /\ req[r].stage \in Asked
                      /\ req[r].kind = "review" /\ req[r].alive /\ HadPaid(r)
    /\ req[r].stage \in {"flush", "commit"} => req[r].score \in 0 .. 100
    /\ req[r].answer = "review" =>
          /\ r \in calls /\ req[r].stage \in {"commit", "over"} /\ req[r].score \in 0 .. 100
          /\ commitsFirst => r \in stored
    /\ page.shows = r => req[r].answer = "review"

WorldInv ==
    /\ now \in 0 .. MaxTime /\ active \in BOOLEAN /\ sub \in Snapshots \cup {Null}
    /\ version \in Nat

ReviewInv ==
    /\ WorldInv
    /\ req \in [Requests -> Request]
    /\ page \in Page
    /\ \A r \in Requests : GateInv(r) /\ AskedInv(r)
-----------------------------------------------------------------------------
LEMMA NewIsRequest ==
    /\ NewRequest \in Request
    /\ NewRequest.stage = "idle" /\ NewRequest.answer = Null /\ NewRequest.began = 0
  BY ReviewAssumption DEF NewRequest, Request

LEMMA ReviewInvInit == Init => ReviewInv
<1>. SUFFICES ASSUME Init PROVE ReviewInv
  OBVIOUS
<1>. USE ReviewAssumption DEF Init
<1>1. WorldInv
  BY DEF WorldInv
<1>2. page \in Page /\ page.shows = Null /\ \A r \in Requests : req[r] = NewRequest
  BY DEF FreshPage, Page
<1>3. \A r \in Requests : GateInv(r) /\ AskedInv(r)
  BY <1>2, NewIsRequest DEF GateInv, AskedInv
<1>. QED BY <1>1, <1>2, <1>3, NewIsRequest DEF ReviewInv

\* What the entitlement tells of the subscription that was loaded.
LEMMA EntitledHavePaid ==
    ASSUME NEW row \in Snapshots \cup {Null}, NEW t \in Nat, NEW u \in Nat, u <= t,
           "can_access_advanced_analytics" \in GetEntitlements(row, t)
    PROVE  row # Null /\ Paid(row, u)
<1>1. row # Null /\ row.status \in {"active", "trialing"} /\ ~Lapsed(row, t)
  BY DEF GetEntitlements, InForce, Free
<1>2. row \in Snapshots /\ row \in Subscription
  BY <1>1, ReviewAssumption
<1>3. row.tier \in {"premium", "pro"}
  BY <1>1, <1>2 DEF GetEntitlements, InForce, Features, Free, Subscription, SubscriptionTier
<1>4. row.end = Null \/ row.end >= u
  BY <1>1, <1>2 DEF Lapsed, Subscription
<1>. QED BY <1>1, <1>2, <1>3, <1>4 DEF Paid

\* A request that a step leaves alone, the clock and the account apart.
LEMMA OthersKeep ==
    ASSUME ReviewInv, NEW r \in Requests, req'[r] = req[r],
           now' \in Nat, now <= now', active' => active, commitsFirst' = commitsFirst,
           r \in calls' <=> r \in calls, r \in stored => r \in stored',
           page'.shows = r => page.shows = r
    PROVE  GateInv(r)' /\ AskedInv(r)'
<1>1. req[r] \in Request /\ GateInv(r) /\ AskedInv(r) /\ now \in Nat
  BY ReviewAssumption DEF ReviewInv, WorldInv
<1>2. HadPaid(r)' <=> HadPaid(r)
  BY DEF HadPaid
<1>3. GateInv(r)'
  BY <1>1, <1>2, ReviewAssumption DEF GateInv, Request
<1>4. AskedInv(r)'
  BY <1>1, <1>2 DEF AskedInv
<1>. QED BY <1>3, <1>4

\* A request that ends keeps its fields but three.
Closed(b, e) == [b EXCEPT !.stage = "over", !.entitled = FALSE, !.answer = e]

LEMMA ClosedKeepsShape ==
    ASSUME NEW b \in Request, NEW e \in {Null, "done", "review", "error"}
    PROVE  /\ Closed(b, e) \in Request
           /\ Closed(b, e).stage = "over" /\ Closed(b, e).answer = e
           /\ Closed(b, e).kind = b.kind /\ Closed(b, e).alive = b.alive
           /\ Closed(b, e).began = b.began /\ Closed(b, e).score = b.score
           /\ Closed(b, e).row = b.row
  BY DEF Closed, Request, Asked

LEMMA FreshIsRequest ==
    ASSUME NEW kind \in {"review", "stray", "brief"}
    PROVE  /\ [NewRequest EXCEPT !.kind = kind] \in Request
           /\ [NewRequest EXCEPT !.kind = kind].began = 0
  BY NewIsRequest DEF Request

\* A request that ends, in an answer or without one.
LEMMA EndedKeeps ==
    ASSUME ReviewInv, NEW r \in Requests, NEW answer \in {Null, "done", "review", "error"},
           req'[r] = Ended(r, answer), UNCHANGED <<world, calls, page>>,
           stored \subseteq stored',
           answer = "review" => req[r].stage = "commit" /\ r \in stored'
    PROVE  req'[r] \in Request /\ GateInv(r)' /\ AskedInv(r)'
<1>1. req[r] \in Request /\ GateInv(r) /\ AskedInv(r) /\ WorldInv
  BY DEF ReviewInv
<1>. DEFINE e == IF req[r].answer = Null THEN answer ELSE req[r].answer
<1>2. e \in {Null, "done", "review", "error"}
  BY <1>1 DEF Request
<1>3. CASE r \in calls
  <2>1. req'[r] = Closed(req[r], e)
    BY <1>3 DEF Ended, Closed
  <2>2. /\ req'[r] \in Request /\ req'[r].stage = "over" /\ req'[r].answer = e
        /\ req'[r].kind = req[r].kind /\ req'[r].alive = req[r].alive
        /\ req'[r].began = req[r].began /\ req'[r].score = req[r].score
        /\ req'[r].row = req[r].row
    BY <1>1, <1>2, <2>1, ClosedKeepsShape
  <2>3. HadPaid(r)' <=> HadPaid(r)
    BY <2>2 DEF HadPaid
  <2>4. GateInv(r)'
    BY <1>1, <2>2 DEF GateInv, world
  <2>5. AskedInv(r)'
    BY <1>1, <1>3, <2>2, <2>3, ReviewAssumption DEF AskedInv, Asked, world
  <2>. QED BY <2>2, <2>4, <2>5
<1>4. CASE r \notin calls
  <2>. DEFINE b == [NewRequest EXCEPT !.kind = req[r].kind]
  <2>1. req[r].answer # "review" /\ answer # "review"
    BY <1>1, <1>4 DEF AskedInv
  <2>2. b \in Request /\ b.began = 0
    BY <1>1, FreshIsRequest DEF Request
  <2>3. req'[r] = Closed(b, e)
    BY <1>4 DEF Ended, Closed
  <2>4. /\ req'[r] \in Request /\ req'[r].stage = "over" /\ req'[r].answer = e
        /\ req'[r].began = 0
    <3>. HIDE DEF b, e
    <3>. QED BY <1>2, <2>2, <2>3, ClosedKeepsShape
  <2>5. GateInv(r)'
    BY <1>1, <2>4, ReviewAssumption DEF GateInv, world, WorldInv
  <2>6. AskedInv(r)'
    BY <1>1, <1>4, <2>1, <2>4, ReviewAssumption DEF AskedInv, world
  <2>. QED BY <2>4, <2>5, <2>6
<1>. QED BY <1>3, <1>4
-----------------------------------------------------------------------------
\* A step of one request.
LEMMA OneMoves ==
    ASSUME ReviewInv, NEW r \in Requests, req'[r] \in Request,
           req' = [req EXCEPT ![r] = req'[r]], UNCHANGED world,
           calls \subseteq calls', calls' \subseteq calls \cup {r},
           stored \subseteq stored', page'.shows = page.shows,
           page' = page \/ page' \in Page,
           GateInv(r)', AskedInv(r)'
    PROVE  ReviewInv'
<1>1. WorldInv'
  BY DEF ReviewInv, WorldInv, world
<1>2. req' \in [Requests -> Request]
  BY DEF ReviewInv
<1>3. page' \in Page
  BY DEF ReviewInv
<1>4. ASSUME NEW s \in Requests PROVE GateInv(s)' /\ AskedInv(s)'
  <2>1. CASE s = r
    BY <2>1
  <2>2. CASE s # r
    <3>1. req'[s] = req[s]
      BY <2>2 DEF ReviewInv
    <3>2. now' \in Nat /\ now <= now'
      BY ReviewAssumption DEF ReviewInv, WorldInv, world
    <3>. QED BY <2>2, <3>1, <3>2, OthersKeep DEF world
  <2>. QED BY <2>1, <2>2
<1>. QED BY <1>1, <1>2, <1>3, <1>4 DEF ReviewInv

\* One request ends.
LEMMA OneEnds ==
    ASSUME ReviewInv, NEW r \in Requests, NEW answer \in {Null, "done", "review", "error"},
           End(r, answer), UNCHANGED <<world, calls, page>>, stored \subseteq stored',
           answer = "review" => req[r].stage = "commit" /\ r \in stored'
    PROVE  ReviewInv'
<1>1. req' = [req EXCEPT ![r] = req'[r]] /\ req'[r] = Ended(r, answer)
  BY DEF End, ReviewInv
<1>2. req'[r] \in Request /\ GateInv(r)' /\ AskedInv(r)'
  BY <1>1, EndedKeeps
<1>. QED BY <1>1, <1>2, OneMoves

\* A step that leaves the requests alone.
LEMMA NoneMoves ==
    ASSUME ReviewInv, UNCHANGED <<req, stored, calls, commitsFirst>>, WorldInv',
           now <= now', active' => active,
           page' \in Page,
           page'.shows \in {page.shows, Null} \/ req[page'.shows].answer = "review"
    PROVE  ReviewInv'
<1>1. ASSUME NEW r \in Requests PROVE GateInv(r)' /\ AskedInv(r)'
  <2>1. req[r] \in Request /\ GateInv(r) /\ AskedInv(r) /\ now \in Nat /\ now' \in Nat
    BY ReviewAssumption DEF ReviewInv, WorldInv
  <2>2. GateInv(r)'
    BY <2>1, ReviewAssumption DEF GateInv, Request, HadPaid
  <2>3. page'.shows = r => req[r].answer = "review"
    BY <2>1, ReviewAssumption DEF AskedInv
  <2>4. AskedInv(r)'
    BY <2>1, <2>3 DEF AskedInv, HadPaid
  <2>. QED BY <2>2, <2>4
<1>. QED BY <1>1 DEF ReviewInv
-----------------------------------------------------------------------------
\* What the invariant says of the request that moves.
LEMMA OfOne ==
    ASSUME ReviewInv, NEW r \in Requests
    PROVE  req[r] \in Request /\ GateInv(r) /\ AskedInv(r) /\ WorldInv
  BY DEF ReviewInv

LEMMA BeginKeeps ==
    ASSUME ReviewInv, NEW r \in Requests, NEW kind \in {"review", "stray", "brief"},
           Begin(r, kind), UNCHANGED <<world, out, stored, calls>>, page'.shows = page.shows,
           page' \in Page
    PROVE  ReviewInv'
<1>. DEFINE q == [NewRequest EXCEPT !.kind = kind, !.stage = "arrived", !.began = now,
                                    !.alive = active]
<1>1. req[r].stage = "idle" /\ req' = [req EXCEPT ![r] = q] /\ req'[r] = q
  BY DEF Begin, ReviewInv
<1>2. /\ q \in Request /\ q.stage = "arrived" /\ q.answer = Null
      /\ q.began = now /\ q.alive = active
  BY NewIsRequest, OfOne DEF Request, WorldInv
<1>. HIDE DEF q
<1>3. r \notin calls /\ page.shows # r
  BY <1>1, OfOne, ReviewAssumption DEF AskedInv, Asked
<1>4. GateInv(r)'
  BY <1>1, <1>2, OfOne, ReviewAssumption DEF GateInv, world, WorldInv
<1>5. AskedInv(r)'
  BY <1>1, <1>2, <1>3, ReviewAssumption DEF AskedInv, world
<1>. QED BY <1>1, <1>2, <1>4, <1>5, OneMoves

\* A move of the stage, before the model is asked.
LEMMA DecodeTokenKeeps ==
    ASSUME ReviewInv, NEW r \in Requests, DecodeToken(r) PROVE ReviewInv'
<1>1. CASE End(r, "error")
  BY <1>1, OneEnds, ReviewAssumption DEF DecodeToken
<1>2. CASE Step(r, "wait")
  <2>1. req' = [req EXCEPT ![r] = req'[r]] /\ req'[r] = [req[r] EXCEPT !.stage = "wait"]
    BY <1>2 DEF Step, ReviewInv
  <2>2. req'[r] \in Request
    BY <2>1, OfOne DEF Request
  <2>3. /\ req'[r].stage = "wait" /\ req'[r].answer = req[r].answer
        /\ req'[r].alive = req[r].alive /\ req'[r].began = req[r].began
    BY <2>1, OfOne DEF Request
  <2>4. req[r].stage = "arrived" /\ r \notin calls /\ req[r].answer # "review"
    BY OfOne DEF DecodeToken, AskedInv, Asked
  <2>5. GateInv(r)'
    BY <2>3, <2>4, OfOne DEF DecodeToken, GateInv, world
  <2>6. AskedInv(r)'
    BY <2>3, <2>4, OfOne, ReviewAssumption DEF DecodeToken, AskedInv, world
  <2>. QED BY <2>1, <2>2, <2>5, <2>6, OneMoves DEF DecodeToken
<1>. QED BY <1>1, <1>2 DEF DecodeToken

LEMMA GetCurrentUserKeeps ==
    ASSUME ReviewInv, NEW r \in Requests, GetCurrentUser(r) PROVE ReviewInv'
<1>1. CASE ~active
  BY <1>1, OneEnds, ReviewAssumption DEF GetCurrentUser
<1>2. CASE active
  <2>. DEFINE next == IF req[r].kind = "brief" THEN "handle" ELSE "limit"
  <2>1. /\ req' = [req EXCEPT ![r] = req'[r]]
        /\ req'[r] = [req[r] EXCEPT !.stage = next, !.row = sub]
    BY <1>2 DEF GetCurrentUser, ReviewInv
  <2>2. req'[r] \in Request
    BY <2>1, OfOne DEF Request, WorldInv
  <2>3. /\ req'[r].stage = next /\ req'[r].answer = req[r].answer
        /\ req'[r].alive = req[r].alive /\ req'[r].began = req[r].began
        /\ req'[r].kind = req[r].kind
    BY <2>1, OfOne DEF Request
  <2>4. req[r].stage = "wait" /\ r \notin calls /\ req[r].answer # "review"
    BY OfOne DEF GetCurrentUser, AskedInv, Asked
  <2>5. GateInv(r)'
    BY <1>2, <2>3, <2>4, OfOne DEF GetCurrentUser, GateInv, world
  <2>6. AskedInv(r)'
    BY <2>3, <2>4, OfOne, ReviewAssumption DEF GetCurrentUser, AskedInv, world
  <2>. QED BY <2>1, <2>2, <2>5, <2>6, OneMoves DEF GetCurrentUser
<1>. QED BY <1>1, <1>2

LEMMA PoolTimeoutKeeps ==
    ASSUME ReviewInv, NEW r \in Requests, PoolTimeout(r) PROVE ReviewInv'
  BY OneEnds, ReviewAssumption DEF PoolTimeout

\* The entitlement is worked out later than the request was made.
LEMMA RateLimitKeeps ==
    ASSUME ReviewInv, NEW r \in Requests, RateLimit(r) PROVE ReviewInv'
<1>1. CASE End(r, "error")
  BY <1>1, OneEnds, ReviewAssumption DEF RateLimit
<1>2. CASE ~End(r, "error")
  <2>. DEFINE may == "can_access_advanced_analytics" \in GetEntitlements(req[r].row, now)
  <2>1. /\ req' = [req EXCEPT ![r] = req'[r]]
        /\ req'[r] = [req[r] EXCEPT !.stage = "handle", !.entitled = may]
    BY <1>2 DEF RateLimit, ReviewInv
  <2>2. may \in BOOLEAN
    OBVIOUS
  <2>. HIDE DEF may
  <2>3. req'[r] \in Request
    BY <2>1, <2>2, OfOne DEF Request
  <2>4. /\ req'[r].stage = "handle" /\ req'[r].answer = req[r].answer
        /\ req'[r].alive = req[r].alive /\ req'[r].began = req[r].began
        /\ req'[r].entitled = may /\ req'[r].row = req[r].row
    BY <2>1, <2>2, OfOne DEF Request
  <2>5. req[r].stage = "limit" /\ r \notin calls /\ req[r].answer # "review"
    BY OfOne DEF RateLimit, AskedInv, Asked
  <2>6. may => HadPaid(r)
    <3>1. /\ req[r].row \in Snapshots \cup {Null} /\ now \in Nat
          /\ req[r].began \in Nat /\ req[r].began <= now
      BY OfOne, ReviewAssumption DEF Request, WorldInv, GateInv
    <3>. QED BY <3>1, EntitledHavePaid DEF may, HadPaid
  <2>7. GateInv(r)'
    BY <2>4, <2>5, <2>6, OfOne DEF RateLimit, GateInv, HadPaid, world
  <2>8. AskedInv(r)'
    BY <2>4, <2>5, OfOne, ReviewAssumption DEF RateLimit, AskedInv, world
  <2>. QED BY <1>2, <2>1, <2>3, <2>7, <2>8, OneMoves DEF RateLimit
<1>. QED BY <1>1, <1>2

LEMMA HandleBriefKeeps ==
    ASSUME ReviewInv, NEW r \in Requests, HandleBrief(r) PROVE ReviewInv'
<1>1. PICK answer \in {"done", "error"} : End(r, answer)
  BY DEF HandleBrief
<1>. QED BY <1>1, OneEnds DEF HandleBrief
-----------------------------------------------------------------------------
\* From the model call on.
LEMMA ReviewWorkspaceKeeps ==
    ASSUME ReviewInv, NEW r \in Requests, ReviewWorkspace(r) PROVE ReviewInv'
<1>1. CASE End(r, "error") /\ UNCHANGED calls
  BY <1>1, OneEnds, ReviewAssumption DEF ReviewWorkspace
<1>2. CASE ~(End(r, "error") /\ UNCHANGED calls)
  <2>1. /\ ~Refused(r) /\ calls' = calls \cup {r}
        /\ req' = [req EXCEPT ![r] = req'[r]]
        /\ req'[r] = [req[r] EXCEPT !.stage = "model", !.version = version]
    BY <1>2 DEF ReviewWorkspace, ReviewInv
  <2>2. req'[r] \in Request
    BY <2>1, OfOne DEF Request, Asked, WorldInv
  <2>3. /\ req'[r].stage = "model" /\ req'[r].answer = req[r].answer
        /\ req'[r].kind = req[r].kind /\ req'[r].alive = req[r].alive
        /\ req'[r].began = req[r].began /\ req'[r].row = req[r].row
    BY <2>1, OfOne DEF Request
  <2>4. req[r].stage = "handle" /\ req[r].kind # "brief" /\ req[r].answer # "review"
    BY OfOne DEF ReviewWorkspace, AskedInv
  <2>5. req[r].kind = "review" /\ req[r].entitled
    BY <2>1, <2>4, OfOne DEF Refused, Request
  <2>6. req[r].alive /\ HadPaid(r)
    BY <2>4, <2>5, OfOne DEF GateInv
  <2>7. GateInv(r)'
    BY <2>3, <2>6, OfOne DEF ReviewWorkspace, GateInv, world
  <2>8. HadPaid(r)'
    BY <2>3, <2>6 DEF HadPaid
  <2>9. AskedInv(r)'
    BY <2>1, <2>3, <2>4, <2>5, <2>6, <2>8, OfOne, ReviewAssumption
       DEF ReviewWorkspace, AskedInv, Asked, world
  <2>. QED BY <2>1, <2>2, <2>7, <2>9, OneMoves DEF ReviewWorkspace
<1>. QED BY <1>1, <1>2

\* A request that asked the model and goes on.
LEMMA AskedGoesOn ==
    ASSUME ReviewInv, NEW r \in calls, r \in Requests, NEW b \in Request,
           req' = [req EXCEPT ![r] = b], UNCHANGED <<world, stored, calls, page>>,
           req[r].answer # "review", req[r].stage # "over",
           b.stage \in {"flush", "commit"}, b.kind = req[r].kind, b.alive = req[r].alive,
           b.began = req[r].began, b.row = req[r].row, b.score \in 0 .. 100,
           b.answer = "review" => b.stage = "commit" /\ ~commitsFirst
    PROVE  ReviewInv'
<1>1. req'[r] = b /\ req' = [req EXCEPT ![r] = req'[r]]
  BY DEF ReviewInv
<1>2. HadPaid(r)' <=> HadPaid(r)
  BY <1>1 DEF HadPaid
<1>3. GateInv(r)'
  BY <1>1, <1>2, OfOne DEF GateInv, AskedInv, world
<1>4. AskedInv(r)'
  BY <1>1, <1>2, OfOne, ReviewAssumption DEF AskedInv, Asked, world
<1>. QED BY <1>1, <1>3, <1>4, OneMoves

LEMMA ModelReplyKeeps ==
    ASSUME ReviewInv, NEW r \in Requests, ModelReply(r) PROVE ReviewInv'
<1>1. CASE End(r, "error")
  BY <1>1, OneEnds, ReviewAssumption DEF ModelReply
<1>2. CASE ~End(r, "error")
  <2>1. PICK reply \in Replies :
           /\ Accepts(reply)
           /\ req' = [req EXCEPT ![r].stage = "flush", ![r].score = reply.score]
    BY <1>2 DEF ModelReply
  <2>. DEFINE b == [req[r] EXCEPT !.stage = "flush", !.score = reply.score]
  <2>2. req' = [req EXCEPT ![r] = b]
    BY <2>1 DEF ReviewInv
  <2>3. reply.score \in Scores /\ reply.score \in 0 .. 100
    BY <2>1, ReviewAssumption DEF Replies, Accepts
  <2>4. b \in Request
    BY <2>3, OfOne DEF Request, Asked
  <2>5. /\ b.stage = "flush" /\ b.kind = req[r].kind /\ b.alive = req[r].alive
        /\ b.began = req[r].began /\ b.row = req[r].row
        /\ b.score \in 0 .. 100 /\ b.answer = req[r].answer
    BY <2>3, OfOne DEF Request
  <2>6. req[r].stage = "model" /\ r \in calls /\ req[r].answer # "review"
    BY OfOne DEF ModelReply, AskedInv
  <2>. HIDE DEF b
  <2>. QED BY <2>2, <2>4, <2>5, <2>6, AskedGoesOn DEF ModelReply
<1>. QED BY <1>1, <1>2

LEMMA FlushKeeps ==
    ASSUME ReviewInv, NEW r \in Requests, Flush(r) PROVE ReviewInv'
<1>1. CASE End(r, "error")
  BY <1>1, OneEnds, ReviewAssumption DEF Flush
<1>2. CASE ~End(r, "error")
  <2>. DEFINE e == IF commitsFirst THEN Null ELSE "review"
              b == [req[r] EXCEPT !.stage = "commit", !.answer = e]
  <2>1. req' = [req EXCEPT ![r] = b]
    BY <1>2 DEF Flush, ReviewInv
  <2>2. b \in Request
    BY OfOne DEF Request, Asked
  <2>3. /\ b.stage = "commit" /\ b.kind = req[r].kind /\ b.alive = req[r].alive
        /\ b.began = req[r].began /\ b.row = req[r].row
        /\ b.score = req[r].score /\ b.answer = e
    BY OfOne DEF Request
  <2>4. /\ req[r].stage = "flush" /\ r \in calls /\ req[r].answer # "review"
        /\ req[r].score \in 0 .. 100
    BY OfOne DEF Flush, AskedInv
  <2>5. e = "review" => ~commitsFirst
    BY ReviewAssumption
  <2>. HIDE DEF b, e
  <2>. QED BY <2>1, <2>2, <2>3, <2>4, <2>5, AskedGoesOn DEF Flush
<1>. QED BY <1>1, <1>2

LEMMA CommitKeeps ==
    ASSUME ReviewInv, NEW r \in Requests, Commit(r) PROVE ReviewInv'
<1>1. CASE End(r, "error") /\ UNCHANGED stored
  BY <1>1, OneEnds, ReviewAssumption DEF Commit
<1>2. CASE End(r, "review") /\ stored' = stored \cup {r}
  BY <1>2, OneEnds DEF Commit
<1>. QED BY <1>1, <1>2 DEF Commit

\* The process dies: every request that had begun ends at once.
LEMMA CrashKeeps ==
    ASSUME ReviewInv, Crash PROVE ReviewInv'
<1>1. ASSUME NEW r \in Requests
      PROVE  req'[r] \in Request /\ GateInv(r)' /\ AskedInv(r)'
  <2>1. CASE req[r].stage = "idle"
    <3>1. req'[r] = req[r]
      BY <2>1 DEF Crash
    <3>2. now' \in Nat /\ now <= now'
      BY ReviewAssumption DEF Crash, ReviewInv, WorldInv, world
    <3>3. GateInv(r)' /\ AskedInv(r)'
      BY <3>1, <3>2, OthersKeep DEF Crash, world
    <3>. QED BY <3>1, <3>3, OfOne
  <2>2. CASE req[r].stage # "idle"
    <3>1. req'[r] = Ended(r, Null)
      BY <2>2 DEF Crash
    <3>. QED BY <3>1, EndedKeeps, ReviewAssumption DEF Crash
  <2>. QED BY <2>1, <2>2
<1>2. req' \in [Requests -> Request]
  BY <1>1 DEF Crash
<1>3. WorldInv' /\ page' \in Page
  BY DEF Crash, ReviewInv, WorldInv, world
<1>. QED BY <1>1, <1>2, <1>3 DEF ReviewInv
-----------------------------------------------------------------------------
LEMMA ServeKeeps ==
    ASSUME ReviewInv, NEW r \in Requests, Serve(r) PROVE ReviewInv'
  BY DecodeTokenKeeps, GetCurrentUserKeeps, PoolTimeoutKeeps, RateLimitKeeps,
     ReviewWorkspaceKeeps, HandleBriefKeeps, ModelReplyKeeps, FlushKeeps, CommitKeeps
     DEF Serve

\* The page and the other clients.
LEMMA ClientsKeep ==
    ASSUME ReviewInv, NEW r \in Requests,
           HandleReview(r) \/ AskElsewhere(r) \/ Return(r) \/ GiveUp(r)
    PROVE  ReviewInv'
<1>1. CASE HandleReview(r)
  <2>1. page \in Page
    BY DEF ReviewInv
  <2>2. page'.shows = page.shows /\ page' \in Page
    BY <1>1, <2>1 DEF HandleReview, Page
  <2>. QED BY <1>1, <2>2, BeginKeeps DEF HandleReview
<1>2. CASE AskElsewhere(r)
  <2>1. PICK kind \in {"stray", "brief"} : Begin(r, kind)
    BY <1>2 DEF AskElsewhere
  <2>2. page'.shows = page.shows /\ page' \in Page
    BY <1>2 DEF AskElsewhere, ReviewInv
  <2>. QED BY <1>2, <2>1, <2>2, BeginKeeps DEF AskElsewhere
<1>3. CASE Return(r)
  <2>1. PICK shows \in {page.shows} \cup (IF req[r].answer = "review" THEN {r} ELSE {}) :
           page' = [reviewing |-> FALSE, awaits |-> page.awaits \ {r}, shows |-> shows]
    BY <1>3 DEF Return
  <2>2. page'.shows = shows /\ page' \in Page
    BY <2>1 DEF ReviewInv, Page
  <2>3. UNCHANGED <<req, stored, calls, world>> /\ WorldInv' /\ now <= now'
    BY <1>3, ReviewAssumption DEF Return, ReviewInv, WorldInv, world
  <2>. QED BY <2>1, <2>2, <2>3, NoneMoves DEF world
<1>4. CASE GiveUp(r)
  <2>1. page'.shows = page.shows /\ page' \in Page
    BY <1>4 DEF GiveUp, ReviewInv, Page
  <2>2. UNCHANGED <<req, stored, calls, world>> /\ WorldInv' /\ now <= now'
    BY <1>4, ReviewAssumption DEF GiveUp, ReviewInv, WorldInv, world
  <2>. QED BY <2>1, <2>2, NoneMoves DEF world
<1>. QED BY <1>1, <1>2, <1>3, <1>4

\* The world moves, or the page alone does.
LEMMA WorldKeeps ==
    ASSUME ReviewInv, Save \/ Reload \/ CloseReview \/ Tick \/ Disable \/ Webhook
    PROVE  ReviewInv'
<1>1. UNCHANGED <<req, stored, calls, commitsFirst>>
  BY DEF Save, Reload, CloseReview, Tick, Disable, Webhook, world
<1>2. WorldInv /\ now \in 0 .. MaxTime /\ active \in BOOLEAN /\ page \in Page
  BY DEF ReviewInv, WorldInv
<1>3. /\ now' \in 0 .. MaxTime /\ now <= now'
      /\ active' \in BOOLEAN /\ (active' => active)
  <2>1. CASE Tick
    BY <1>2, <2>1, ReviewAssumption DEF Tick
  <2>2. CASE Disable
    <3>1. now' = now /\ active' = FALSE
      BY <2>2 DEF Disable
    <3>2. now' \in 0 .. MaxTime /\ now <= now'
      BY <1>2, <3>1, ReviewAssumption
    <3>. QED BY <3>1, <3>2
  <2>3. CASE Save \/ Reload \/ CloseReview \/ Webhook
    BY <1>2, <2>3, ReviewAssumption DEF Save, Reload, CloseReview, Webhook, world
  <2>. QED BY <2>1, <2>2, <2>3
<1>4. sub' \in Snapshots \cup {Null} /\ version' \in Nat
  BY <1>2 DEF Save, Reload, CloseReview, Tick, Disable, Webhook, world, WorldInv
<1>5. page' \in Page /\ page'.shows \in {page.shows, Null}
  <2>1. CASE Reload
    BY <2>1 DEF Reload, FreshPage, Page
  <2>2. CASE CloseReview
    BY <1>2, <2>2 DEF CloseReview, Page
  <2>3. CASE Save \/ Tick \/ Disable \/ Webhook
    BY <1>2, <2>3 DEF Save, Tick, Disable, Webhook
  <2>. QED BY <2>1, <2>2, <2>3
<1>6. WorldInv'
  BY <1>3, <1>4 DEF WorldInv
<1>. QED BY <1>1, <1>3, <1>5, <1>6, NoneMoves

LEMMA ReviewInvNext == ReviewInv /\ [Next]_vars => ReviewInv'
<1>. SUFFICES ASSUME ReviewInv, [Next]_vars PROVE ReviewInv'
  OBVIOUS
<1>1. CASE UNCHANGED vars
  <2>1. UNCHANGED <<req, stored, calls, page, now, active, sub, version, commitsFirst>>
    BY <1>1 DEF vars, world
  <2>2. WorldInv' /\ now <= now'
    BY <2>1, ReviewAssumption DEF ReviewInv, WorldInv
  <2>. QED BY <2>1, <2>2, NoneMoves DEF ReviewInv
<1>2. CASE Next
  BY <1>2, ServeKeeps, ClientsKeep, CrashKeeps, WorldKeeps DEF Next
<1>. QED BY <1>1, <1>2

LEMMA ReviewInvAlways == Spec => []ReviewInv
  BY ReviewInvInit, ReviewInvNext, PTL DEF Spec

LEMMA CallsAreOfRequests == Spec => [](calls \subseteq Requests)
<1>1. Init => calls \subseteq Requests
  BY DEF Init
<1>2. calls \subseteq Requests /\ [Next]_vars => (calls \subseteq Requests)'
  BY DEF Next, vars, world, Serve, DecodeToken, GetCurrentUser, PoolTimeout, RateLimit,
         ReviewWorkspace, HandleBrief, ModelReply, Flush, Commit, HandleReview,
         AskElsewhere, Return, GiveUp, Crash, Save, Reload, CloseReview, Tick, Disable, Webhook
<1>. QED BY <1>1, <1>2, PTL DEF Spec

(***************************************************************************)
(* No model call is made for an account that was disabled when its request *)
(* was made, or that had not paid by the subscription that its request     *)
(* found; nor about a canvas of another account                            *)
(* (system_design_service.py:233-246).                                     *)
(***************************************************************************)
THEOREM NoCallIsUnearned == Spec => []CallsAreEarned
<1>1. ReviewInv /\ calls \subseteq Requests => CallsAreEarned
  BY DEF ReviewInv, AskedInv, CallsAreEarned, HadPaid
<1>. QED BY <1>1, ReviewInvAlways, CallsAreOfRequests, PTL

(***************************************************************************)
(* What the page shows has a score in range and, where FastAPI commits     *)
(* before it answers, a row in the database, through crashes, rejected     *)
(* replies and failed commits.                                             *)
(***************************************************************************)
THEOREM NothingUnsoundIsShown == Spec => []ShownReviewsAreSound
<1>1. ReviewInv => (page.shows = Null \/ page.shows \in Requests)
  BY DEF ReviewInv, Page
<1>2. ReviewInv => ShownReviewsAreSound
  BY <1>1 DEF ReviewInv, AskedInv, ShownReviewsAreSound
<1>. QED BY <1>2, ReviewInvAlways, PTL
-----------------------------------------------------------------------------
(***************************************************************************)
(* The page waits for one review at a time, and one that asks the model    *)
(* after another is shown asks about a canvas that is no older.            *)
(***************************************************************************)
OrderInv ==
    /\ \A r \in Requests : req[r].version <= version
    /\ \A r \in page.awaits : req[r].stage # "idle"
    /\ \A r, s \in page.awaits : r = s
    /\ page.awaits # {} => page.reviewing
    /\ page.shows # Null =>
          \A r \in page.awaits \cap calls : req[page.shows].version <= req[r].version

\* What a step makes of a request's canvas and of those that asked the model.
VersionOf(r) ==
    /\ req[r].stage # "idle" => req'[r].stage # "idle"
    /\ r \in calls => r \in calls' /\ req'[r].version = req[r].version
    /\ r \notin calls /\ r \in calls' => req'[r].version = version
    /\ req'[r].version \in {req[r].version, version, 0}

\* A step of one request that asks nothing of the model.
LEMMA SameCanvas ==
    ASSUME ReviewInv, NEW r \in Requests, UNCHANGED calls,
           \/ \E answer \in {Null, "done", "review", "error"} : End(r, answer)
           \/ \E b \in Request : /\ req' = [req EXCEPT ![r] = b]
                                 /\ b.version = req[r].version /\ b.stage # "idle"
    PROVE  \A s \in Requests : VersionOf(s)
<1>. DEFINE Moved == /\ \A s \in Requests : s # r => req'[s] = req[s]
                     /\ req'[r].stage # "idle" /\ req'[r].version \in {req[r].version, 0}
                     /\ r \in calls => req'[r].version = req[r].version
<1>1. Moved
  <2>1. ASSUME NEW answer \in {Null, "done", "review", "error"}, End(r, answer) PROVE Moved
    <3>1. req' = [req EXCEPT ![r] = Ended(r, answer)]
      BY <2>1 DEF End
    <3>2. /\ Ended(r, answer).stage = "over"
          /\ Ended(r, answer).version = IF r \in calls THEN req[r].version ELSE 0
      BY OfOne DEF Ended, NewRequest, Request
    <3>. QED BY <3>1, <3>2 DEF ReviewInv
  <2>2. ASSUME NEW b \in Request, req' = [req EXCEPT ![r] = b],
               b.version = req[r].version, b.stage # "idle"
        PROVE  Moved
    BY <2>2 DEF ReviewInv
  <2>. QED BY <2>1, <2>2
<1>. QED BY <1>1 DEF VersionOf

LEMMA ServingKeepsCanvases ==
    ASSUME ReviewInv, NEW r \in Requests, Serve(r)
    PROVE  \A s \in Requests : VersionOf(s)
<1>q. req \in [Requests -> Request] /\ req[r] \in Request /\ AskedInv(r) /\ WorldInv
  BY DEF ReviewInv
<1>1. CASE \E answer \in {Null, "done", "review", "error"} : End(r, answer) /\ UNCHANGED calls
  BY <1>1, SameCanvas
<1>2. ASSUME NEW stage \in {"wait", "handle", "limit", "flush", "commit"},
             NEW b \in [kind : {req[r].kind}, stage : {stage}, row : Snapshots \cup {Null},
                        entitled : BOOLEAN, version : {req[r].version},
                        score : Scores \cup {0}, answer : {Null, "done", "review", "error"},
                        began : {req[r].began}, alive : {req[r].alive}],
             req' = [req EXCEPT ![r] = b], UNCHANGED calls
      PROVE  \A s \in Requests : VersionOf(s)
  <2>1. b \in Request /\ b.version = req[r].version /\ b.stage # "idle"
    BY <1>2, <1>q DEF Request, Asked
  <2>. QED BY <1>2, <2>1, SameCanvas
<1>3. CASE DecodeToken(r)
  <2>1. CASE Step(r, "wait")
    <3>. DEFINE b == [req[r] EXCEPT !.stage = "wait"]
    <3>1. req' = [req EXCEPT ![r] = b] /\ UNCHANGED calls
      BY <1>3, <2>1, <1>q DEF Step, DecodeToken
    <3>. QED BY <3>1, <1>2, <1>q DEF Request
  <2>. QED BY <1>1, <1>3, <2>1 DEF DecodeToken
<1>4. CASE GetCurrentUser(r)
  <2>1. CASE active
    <3>. DEFINE stage == IF req[r].kind = "brief" THEN "handle" ELSE "limit"
                b == [req[r] EXCEPT !.stage = stage, !.row = sub]
    <3>1. req' = [req EXCEPT ![r] = b] /\ UNCHANGED calls
      BY <1>4, <2>1, <1>q DEF GetCurrentUser
    <3>2. stage \in {"handle", "limit"}
      OBVIOUS
    <3>. HIDE DEF stage
    <3>3. b \in Request /\ b.version = req[r].version /\ b.stage # "idle"
      BY <3>2, <1>q DEF Request, WorldInv
    <3>. QED BY <3>1, <3>3, SameCanvas
  <2>. QED BY <1>1, <1>4, <2>1 DEF GetCurrentUser
<1>5. CASE PoolTimeout(r)
  BY <1>1, <1>5 DEF PoolTimeout
<1>6. CASE RateLimit(r)
  <2>. DEFINE may == "can_access_advanced_analytics" \in GetEntitlements(req[r].row, now)
              b == [req[r] EXCEPT !.stage = "handle", !.entitled = may]
  <2>1. may \in BOOLEAN
    OBVIOUS
  <2>. HIDE DEF may
  <2>2. CASE req' = [req EXCEPT ![r] = b]
    <3>1. UNCHANGED calls
      BY <1>6 DEF RateLimit
    <3>. QED BY <2>1, <2>2, <3>1, <1>2, <1>q DEF Request
  <2>3. CASE End(r, "error")
    BY <1>1, <1>6, <2>3 DEF RateLimit
  <2>4. req' = [req EXCEPT ![r] = b] \/ End(r, "error")
    BY <1>6, <1>q DEF RateLimit, may
  <2>. QED BY <2>2, <2>3, <2>4
<1>7. CASE ReviewWorkspace(r)
  <2>1. CASE End(r, "error") /\ UNCHANGED calls
    BY <1>1, <2>1
  <2>2. CASE ~(End(r, "error") /\ UNCHANGED calls)
    <3>1. /\ calls' = calls \cup {r}
          /\ req' = [req EXCEPT ![r] = [req[r] EXCEPT !.stage = "model", !.version = version]]
      BY <1>7, <2>2, <1>q DEF ReviewWorkspace
    <3>2. req[r].stage = "handle" /\ r \notin calls
      BY <1>7, <1>q DEF ReviewWorkspace, AskedInv, Asked
    <3>3. /\ \A s \in Requests : s # r => req'[s] = req[s] /\ (s \in calls' <=> s \in calls)
          /\ req'[r].stage = "model" /\ req'[r].version = version
      BY <3>1, <1>q DEF Request
    <3>. QED BY <3>1, <3>2, <3>3 DEF VersionOf
  <2>. QED BY <2>1, <2>2
<1>8. CASE HandleBrief(r)
  BY <1>1, <1>8 DEF HandleBrief
<1>9. CASE ModelReply(r)
  <2>1. CASE End(r, "error")
    BY <1>1, <1>9, <2>1 DEF ModelReply
  <2>2. CASE ~End(r, "error")
    <3>1. PICK reply \in Replies :
             /\ Accepts(reply)
             /\ req' = [req EXCEPT ![r].stage = "flush", ![r].score = reply.score]
      BY <1>9, <2>2 DEF ModelReply
    <3>. DEFINE b == [req[r] EXCEPT !.stage = "flush", !.score = reply.score]
    <3>2. reply.score \in Scores
      BY <3>1 DEF Accepts, Replies
    <3>3. req' = [req EXCEPT ![r] = b] /\ UNCHANGED calls
      BY <1>9, <3>1, <1>q DEF ModelReply
    <3>. QED BY <3>2, <3>3, <1>2, <1>q DEF Request
  <2>. QED BY <2>1, <2>2
<1>10. CASE Flush(r)
  <2>1. CASE End(r, "error")
    BY <1>1, <1>10, <2>1 DEF Flush
  <2>2. CASE ~End(r, "error")
    <3>. DEFINE answer == IF commitsFirst THEN Null ELSE "review"
                b == [req[r] EXCEPT !.stage = "commit", !.answer = answer]
    <3>1. req' = [req EXCEPT ![r] = b] /\ UNCHANGED calls
      BY <1>10, <2>2, <1>q DEF Flush
    <3>2. answer \in {Null, "review"}
      OBVIOUS
    <3>. HIDE DEF answer
    <3>3. b \in Request /\ b.version = req[r].version /\ b.stage # "idle"
      BY <3>2, <1>q DEF Request, Asked
    <3>. QED BY <3>1, <3>3, SameCanvas
  <2>. QED BY <2>1, <2>2
<1>11. CASE Commit(r)
  BY <1>1, <1>11 DEF Commit
<1>. QED
  BY <1>3, <1>4, <1>5, <1>6, <1>7, <1>8, <1>9, <1>10, <1>11 DEF Serve

LEMMA CanvasesKept ==
    ASSUME ReviewInv, [Next]_vars
    PROVE  version <= version' /\ \A r \in Requests : VersionOf(r)
<1>q. req \in [Requests -> Request] /\ version \in Nat
  BY DEF ReviewInv, WorldInv
<1>1. version <= version'
  <2>1. ASSUME NEW r \in Requests, Serve(r) PROVE version' = version
    BY <2>1 DEF world, Serve, DecodeToken, GetCurrentUser, PoolTimeout, RateLimit,
                ReviewWorkspace, HandleBrief, ModelReply, Flush, Commit
  <2>2. ASSUME NEW r \in Requests,
               HandleReview(r) \/ AskElsewhere(r) \/ Return(r) \/ GiveUp(r)
        PROVE  version' = version
    BY <2>2 DEF world, HandleReview, AskElsewhere, Return, GiveUp
  <2>3. CASE Crash \/ Reload \/ CloseReview \/ Tick \/ Disable \/ Webhook \/ UNCHANGED vars
    BY <2>3, <1>q DEF vars, world, Crash, Reload, CloseReview, Tick, Disable, Webhook
  <2>4. CASE Save
    BY <2>4, <1>q DEF Save
  <2>. QED BY <2>1, <2>2, <2>3, <2>4, <1>q DEF Next
<1>. SUFFICES \A r \in Requests : VersionOf(r)
  BY <1>1
<1>2. ASSUME NEW r \in Requests, NEW kind \in {"review", "stray", "brief"}, Begin(r, kind),
             UNCHANGED calls
      PROVE  \A s \in Requests : VersionOf(s)
  <2>1. /\ req[r].stage = "idle" /\ r \notin calls
        /\ \A s \in Requests : s # r => req'[s] = req[s]
        /\ req'[r].stage = "arrived" /\ req'[r].version = 0
    BY <1>2, <1>q, OfOne DEF Begin, NewRequest, AskedInv, Asked
  <2>. QED BY <1>2, <2>1 DEF VersionOf
<1>3. CASE Crash
  <2>1. \A r \in Requests : req[r].stage # "idle" =>
           req'[r].stage = "over" /\ req'[r].version = IF r \in calls THEN req[r].version ELSE 0
    BY <1>3, <1>q DEF Crash, Ended, NewRequest, Request
  <2>2. \A r \in Requests : req[r].stage = "idle" => req'[r] = req[r]
    BY <1>3 DEF Crash
  <2>3. calls' = calls
    BY <1>3 DEF Crash
  <2>. QED BY <2>1, <2>2, <2>3 DEF VersionOf
<1>4. CASE UNCHANGED <<req, calls>>
  BY <1>4 DEF VersionOf
<1>5. CASE \E r \in Requests : HandleReview(r) \/ AskElsewhere(r)
  <2>1. PICK r \in Requests : HandleReview(r) \/ AskElsewhere(r)
    BY <1>5
  <2>2. UNCHANGED calls /\ \E kind \in {"review", "stray", "brief"} : Begin(r, kind)
    BY <2>1 DEF HandleReview, AskElsewhere
  <2>. QED BY <1>2, <2>2
<1>. QED
  BY <1>3, <1>4, <1>5, ServingKeepsCanvases
     DEF Next, vars, Return, GiveUp, Save, Reload, CloseReview, Tick, Disable, Webhook, world

LEMMA OrderStep == ReviewInv /\ calls \subseteq Requests /\ OrderInv /\ [Next]_vars => OrderInv'
<1>. SUFFICES ASSUME ReviewInv, calls \subseteq Requests, OrderInv, [Next]_vars PROVE OrderInv'
  OBVIOUS
<1>q. /\ req \in [Requests -> Request] /\ page \in Page /\ version \in Nat /\ version' \in Nat
      /\ \A r \in Requests : req[r].version \in Nat /\ req'[r].version \in Nat
  BY ReviewInvNext DEF ReviewInv, WorldInv, Request
<1>v. version <= version' /\ \A r \in Requests : VersionOf(r)
  BY CanvasesKept
<1>1. \A r \in Requests : req'[r].version <= version'
  BY <1>q, <1>v DEF OrderInv, VersionOf
<1>2. page.shows # Null => page.shows \in calls /\ page.shows \in Requests
  BY <1>q, OfOne DEF Page, AskedInv
<1>3. ASSUME page'.shows = page.shows \/ page'.shows = Null, page'.awaits = page.awaits
      PROVE  page'.shows # Null =>
                \A r \in page'.awaits \cap calls' : req'[page'.shows].version <= req'[r].version
  <2>. SUFFICES ASSUME page.shows # Null, page'.shows = page.shows,
                       NEW r \in page.awaits, r \in calls'
                PROVE  req'[page.shows].version <= req'[r].version
    BY <1>3
  <2>1. r \in Requests /\ req'[page.shows].version = req[page.shows].version
    BY <1>q, <1>v, <1>2 DEF Page, VersionOf
  <2>2. CASE r \in calls
    BY <2>1, <2>2, <1>v DEF OrderInv, VersionOf
  <2>3. CASE r \notin calls
    BY <2>1, <2>3, <1>v, <1>2 DEF OrderInv, VersionOf
  <2>. QED BY <2>2, <2>3
<1>4. CASE \E r \in Requests : HandleReview(r)
  <2>1. PICK r \in Requests : HandleReview(r)
    BY <1>4
  <2>2. /\ page.awaits = {} /\ r \notin calls' /\ req'[r].stage = "arrived"
        /\ page'.awaits = {r} /\ page'.reviewing = TRUE
    BY <2>1, <1>q, OfOne
       DEF HandleReview, ButtonEnabled, Begin, NewRequest, OrderInv, Page, AskedInv, Asked
  <2>. QED BY <1>1, <2>2 DEF OrderInv
<1>5. CASE \E r \in Requests : Return(r) \/ GiveUp(r)
  <2>0. PICK r \in Requests : Return(r) \/ GiveUp(r)
    BY <1>5
  <2>1. r \in page.awaits /\ page'.awaits = page.awaits \ {r}
    <3>1. CASE Return(r)
      BY <3>1 DEF Return
    <3>2. CASE GiveUp(r)
      BY <3>2, <1>q DEF GiveUp, Page
    <3>. QED BY <2>0, <3>1, <3>2
  <2>2. page'.awaits = {}
    BY <2>1 DEF OrderInv
  <2>. QED BY <1>1, <2>2 DEF OrderInv
<1>6. CASE Reload
  BY <1>1, <1>6 DEF Reload, FreshPage, OrderInv
<1>7. CASE UNCHANGED page \/ CloseReview
  <2>1. /\ page'.awaits = page.awaits /\ page'.reviewing = page.reviewing
        /\ page'.shows = page.shows \/ page'.shows = Null
    BY <1>7, <1>q DEF CloseReview, Page
  <2>2. \A r \in page.awaits : r \in Requests /\ req'[r].stage # "idle"
    BY <1>q, <1>v DEF OrderInv, Page, VersionOf
  <2>. QED BY <1>1, <1>3, <2>1, <2>2 DEF OrderInv
<1>. QED
  BY <1>4, <1>5, <1>6, <1>7
     DEF Next, vars, Serve, DecodeToken, GetCurrentUser, PoolTimeout, RateLimit,
         ReviewWorkspace, HandleBrief, ModelReply, Flush, Commit, AskElsewhere, Crash, Save,
         Tick, Disable, Webhook

(***************************************************************************)
(* A review is never replaced on the page by one of an older canvas: saves *)
(* do not wait for a review, answers are lost and late, but the page asks  *)
(* for one review at a time.                                               *)
(***************************************************************************)
THEOREM ReviewsDoNotGoBack == Spec => ShownNeverGoesBack
<1>1. Init => OrderInv
  <2>. SUFFICES ASSUME Init PROVE OrderInv
    OBVIOUS
  <2>1. \A r \in Requests : req[r].version = 0
    BY DEF Init, NewRequest
  <2>. QED BY <2>1 DEF Init, OrderInv, FreshPage
<1>2. ReviewInv /\ calls \subseteq Requests /\ OrderInv /\ [Next]_vars
        => [page.shows # Null /\ page'.shows # Null
              => req[page.shows].version <= req[page'.shows].version]_vars
  <2>. SUFFICES ASSUME ReviewInv, calls \subseteq Requests, OrderInv, Next,
                       page.shows # Null, page'.shows # Null
                PROVE  req[page.shows].version <= req[page'.shows].version
    OBVIOUS
  <2>1. page \in Page /\ req \in [Requests -> Request]
    BY DEF ReviewInv
  <2>2. CASE page'.shows = page.shows
    BY <2>1, <2>2 DEF Page, Request
  <2>3. CASE page'.shows # page.shows
    <3>a. ASSUME NEW r \in Requests,
                 Serve(r) \/ HandleReview(r) \/ AskElsewhere(r) \/ GiveUp(r)
          PROVE  page'.shows = page.shows
      <4>1. CASE Serve(r) \/ AskElsewhere(r)
        BY <4>1 DEF Serve, DecodeToken, GetCurrentUser, PoolTimeout, RateLimit,
                    ReviewWorkspace, HandleBrief, ModelReply, Flush, Commit, AskElsewhere
      <4>2. CASE HandleReview(r) \/ GiveUp(r)
        BY <4>2, <2>1 DEF HandleReview, GiveUp, Page
      <4>. QED BY <3>a, <4>1, <4>2
    <3>b. ASSUME Crash \/ Save \/ Reload \/ CloseReview \/ Tick \/ Disable \/ Webhook
          PROVE  FALSE
      BY <3>b, <2>1, <2>3
         DEF Crash, Save, Reload, FreshPage, CloseReview, Tick, Disable, Webhook, Page
    <3>1. PICK r \in Requests : Return(r)
      BY <3>a, <3>b, <2>3 DEF Next
    <3>2. page'.shows = r /\ r \in page.awaits /\ req[r].answer = "review"
      BY <2>3, <3>1 DEF Return
    <3>3. r \in calls
      BY <3>2, OfOne DEF AskedInv
    <3>. QED BY <3>2, <3>3 DEF OrderInv
  <2>. QED BY <2>2, <2>3
<1>. QED
  BY <1>1, <1>2, OrderStep, ReviewInvAlways, CallsAreOfRequests, PTL
     DEF Spec, ShownNeverGoesBack
-----------------------------------------------------------------------------
\* From the first statement of a session to the end of its request.
Holding == {"limit", "handle", "model", "flush", "commit"}

ConnectionsInUse == out = {r \in Requests : req[r].stage \in Holding}

PoolIsBounded == IsFiniteSet(out) /\ Cardinality(out) <= PoolCap

PoolInv == ConnectionsInUse /\ PoolIsBounded

LEMMA EndReturns ==
    ASSUME ReviewInv, PoolInv, NEW r \in Requests, NEW answer, End(r, answer)
    PROVE  PoolInv'
<1>1. /\ req' = [req EXCEPT ![r] = Ended(r, answer)] /\ out' = out \ {r}
      /\ req \in [Requests -> Request]
  BY DEF End, Release, ReviewInv
<1>2. Ended(r, answer).stage = "over"
  <2>1. "stage" \in DOMAIN req[r] /\ "stage" \in DOMAIN NewRequest
    BY <1>1 DEF Request, NewRequest
  <2>. QED BY <2>1 DEF Ended
<1>3. req'[r].stage = "over" /\ \A q \in Requests \ {r} : req'[q] = req[q]
  BY <1>1, <1>2
<1>4. ConnectionsInUse'
  BY <1>1, <1>3 DEF PoolInv, ConnectionsInUse, Holding
<1>5. PoolIsBounded'
  <2>1. IsFiniteSet(out) /\ Cardinality(out) \in Nat /\ Cardinality(out) <= PoolCap
    BY FS_CardinalityType DEF PoolInv, PoolIsBounded
  <2>2. IsFiniteSet(out') /\ Cardinality(out') <= Cardinality(out)
    BY <1>1, <2>1, FS_Subset
  <2>3. Cardinality(out') \in Nat
    BY <2>2, FS_CardinalityType
  <2>. QED BY <2>1, <2>2, <2>3, PoolAssumption DEF PoolIsBounded
<1>. QED BY <1>4, <1>5 DEF PoolInv

\* A step that neither begins nor ends a session.
LEMMA StageKeepsPool ==
    ASSUME PoolInv, out' = out,
           \A q \in Requests : req'[q].stage \in Holding <=> req[q].stage \in Holding
    PROVE  PoolInv'
  BY DEF PoolInv, ConnectionsInUse, PoolIsBounded

LEMMA MoveKeepsPool ==
    ASSUME ReviewInv, PoolInv, NEW r \in Requests, NEW b, out' = out,
           req' = [req EXCEPT ![r] = b], b.stage \in Holding <=> req[r].stage \in Holding
    PROVE  PoolInv'
<1>1. \A q \in Requests : req'[q].stage \in Holding <=> req[q].stage \in Holding
  BY DEF ReviewInv
<1>. QED BY <1>1, StageKeepsPool

LEMMA GetCurrentUserTakes ==
    ASSUME ReviewInv, PoolInv, NEW r \in Requests, GetCurrentUser(r)
    PROVE  PoolInv'
<1>1. CASE ~active
  BY <1>1, EndReturns DEF GetCurrentUser
<1>2. CASE active
  <2>1. /\ req[r].stage = "wait" /\ Cardinality(out) < PoolCap /\ out' = out \cup {r}
        /\ req \in [Requests -> Request] /\ req[r] \in Request
    BY <1>2 DEF GetCurrentUser, ReviewInv
  <2>2. req'[r].stage \in Holding /\ \A q \in Requests \ {r} : req'[q] = req[q]
    BY <1>2, <2>1 DEF GetCurrentUser, Request, Holding
  <2>3. ConnectionsInUse'
    BY <2>1, <2>2 DEF PoolInv, ConnectionsInUse
  <2>4. IsFiniteSet(out) /\ Cardinality(out) \in Nat
    BY FS_CardinalityType DEF PoolInv, PoolIsBounded
  <2>5. IsFiniteSet(out') /\ Cardinality(out') <= Cardinality(out) + 1 /\ Cardinality(out') \in Nat
    <3>1. /\ IsFiniteSet(out \cup {r})
          /\ Cardinality(out \cup {r}) = IF r \in out THEN Cardinality(out)
                                         ELSE Cardinality(out) + 1
      BY <2>4, FS_AddElement
    <3>. QED BY <2>1, <2>4, <3>1
  <2>6. PoolIsBounded'
    BY <2>1, <2>4, <2>5, PoolAssumption DEF PoolIsBounded
  <2>. QED BY <2>3, <2>6 DEF PoolInv
<1>. QED BY <1>1, <1>2

LEMMA ServeKeepsPool ==
    ASSUME ReviewInv, PoolInv, NEW r \in Requests, Serve(r)
    PROVE  PoolInv'
<1>q. req \in [Requests -> Request] /\ req[r] \in Request
  BY DEF ReviewInv
<1>1. ASSUME NEW answer, End(r, answer) PROVE PoolInv'
  BY <1>1, EndReturns
<1>2. ASSUME NEW b, out' = out, req' = [req EXCEPT ![r] = b],
             b.stage \in Holding <=> req[r].stage \in Holding
      PROVE  PoolInv'
  BY <1>2, MoveKeepsPool
<1>3. ASSUME NEW stage, Step(r, stage), out' = out,
             stage \in Holding <=> req[r].stage \in Holding
      PROVE  PoolInv'
  <2>1. [req[r] EXCEPT !.stage = stage].stage = stage
    BY <1>q DEF Request
  <2>. QED BY <1>3, <2>1, <1>2 DEF Step
<1>4. CASE DecodeToken(r)
  <2>1. "wait" \in Holding <=> req[r].stage \in Holding
    BY <1>4 DEF DecodeToken, Holding
  <2>. QED BY <1>1, <1>3, <1>4, <2>1 DEF DecodeToken
<1>5. CASE GetCurrentUser(r)
  BY <1>5, GetCurrentUserTakes
<1>6. CASE PoolTimeout(r) \/ HandleBrief(r)
  BY <1>1, <1>6 DEF PoolTimeout, HandleBrief
<1>7. CASE RateLimit(r)
  <2>. DEFINE b == [req[r] EXCEPT !.stage = "handle",
                                  !.entitled = "can_access_advanced_analytics"
                                                 \in GetEntitlements(req[r].row, now)]
  <2>1. b.stage \in Holding <=> req[r].stage \in Holding
    BY <1>q, <1>7 DEF RateLimit, Request, Holding
  <2>2. End(r, "error") \/ (req' = [req EXCEPT ![r] = b] /\ out' = out)
    BY <1>q, <1>7 DEF RateLimit
  <2>. HIDE DEF b
  <2>. QED BY <1>1, <1>2, <2>1, <2>2
<1>8. CASE ReviewWorkspace(r)
  <2>1. LET b == [req[r] EXCEPT !.stage = "model", !.version = version]
        IN  b.stage \in Holding <=> req[r].stage \in Holding
    BY <1>q, <1>8 DEF ReviewWorkspace, Request, Holding
  <2>. QED BY <1>1, <1>2, <1>8, <2>1 DEF ReviewWorkspace
<1>9. CASE ModelReply(r)
  <2>1. ASSUME NEW n, req' = [req EXCEPT ![r].stage = "flush", ![r].score = n], out' = out
        PROVE  PoolInv'
    <3>. DEFINE b == [req[r] EXCEPT !.stage = "flush", !.score = n]
    <3>1. b.stage \in Holding <=> req[r].stage \in Holding
      BY <1>q, <1>9 DEF ModelReply, Request, Holding
    <3>2. req' = [req EXCEPT ![r] = b]
      BY <1>q, <2>1
    <3>. HIDE DEF b
    <3>. QED BY <1>2, <2>1, <3>1, <3>2
  <2>2. End(r, "error") \/ \E reply \in Replies :
            /\ req' = [req EXCEPT ![r].stage = "flush", ![r].score = reply.score]
            /\ out' = out
    BY <1>9 DEF ModelReply
  <2>. QED BY <1>1, <2>1, <2>2
<1>10. CASE Flush(r)
  <2>1. \A a : LET b == [req[r] EXCEPT !.stage = "commit", !.answer = a]
               IN  b.stage \in Holding <=> req[r].stage \in Holding
    BY <1>q, <1>10 DEF Flush, Request, Holding
  <2>. QED BY <1>1, <1>2, <1>10, <2>1 DEF Flush
<1>11. CASE Commit(r)
  BY <1>1, <1>11 DEF Commit
<1>. QED
  BY <1>4, <1>5, <1>6, <1>7, <1>8, <1>9, <1>10, <1>11 DEF Serve

LEMMA BeginKeepsPool ==
    ASSUME ReviewInv, PoolInv, NEW r \in Requests, NEW kind, Begin(r, kind), out' = out
    PROVE  PoolInv'
<1>. DEFINE b == [NewRequest EXCEPT !.kind = kind, !.stage = "arrived", !.began = now,
                                    !.alive = active]
<1>1. b.stage = "arrived"
  BY DEF NewRequest
<1>2. req' = [req EXCEPT ![r] = b] /\ req[r].stage = "idle"
  BY DEF Begin
<1>. HIDE DEF b
<1>. QED BY <1>1, <1>2, MoveKeepsPool DEF Holding

LEMMA PoolInvNext == ReviewInv /\ PoolInv /\ [Next]_vars => PoolInv'
<1>. SUFFICES ASSUME ReviewInv, PoolInv, [Next]_vars PROVE PoolInv'
  OBVIOUS
<1>1. ASSUME NEW r \in Requests, Serve(r) PROVE PoolInv'
  BY <1>1, ServeKeepsPool
<1>2. ASSUME NEW r \in Requests, HandleReview(r) \/ AskElsewhere(r) PROVE PoolInv'
  BY <1>2, BeginKeepsPool DEF HandleReview, AskElsewhere
<1>3. CASE Crash
  <2>1. out' = {}
    BY <1>3 DEF Crash
  <2>2. ASSUME NEW r \in Requests PROVE req'[r].stage \notin Holding
    <3>1. req[r] \in Request
      BY DEF ReviewInv
    <3>2. "stage" \in DOMAIN req[r] /\ "stage" \in DOMAIN NewRequest
      BY <3>1 DEF Request, NewRequest
    <3>3. Ended(r, Null).stage = "over"
      BY <3>2 DEF Ended
    <3>. QED BY <1>3, <3>3 DEF Crash, Holding
  <2>3. IsFiniteSet({}) /\ Cardinality({}) = 0
    BY FS_EmptySet
  <2>. QED
    BY <2>1, <2>2, <2>3, PoolAssumption DEF PoolInv, ConnectionsInUse, PoolIsBounded
<1>4. ASSUME UNCHANGED <<req, out>> PROVE PoolInv'
  BY <1>4, StageKeepsPool
<1>. QED
  BY <1>1, <1>2, <1>3, <1>4
     DEF Next, vars, Return, GiveUp, Save, Reload, CloseReview, Tick, Disable, Webhook

(***************************************************************************)
(* The pool's books balance, however requests end: the connections that    *)
(* are out are those of the sessions that have run a statement and not     *)
(* ended, a review's the whole time that it waits for the model, and never *)
(* more than the pool has.                                                 *)
(***************************************************************************)
THEOREM ConnectionsAreReturned == Spec => [](ConnectionsInUse /\ PoolIsBounded)
<1>1. Init => PoolInv
  BY FS_EmptySet, PoolAssumption
     DEF Init, NewRequest, PoolInv, ConnectionsInUse, PoolIsBounded, Holding
<1>2. PoolInv => ConnectionsInUse /\ PoolIsBounded
  BY DEF PoolInv
<1>. QED BY <1>1, <1>2, PoolInvNext, ReviewInvAlways, PTL DEF Spec
=============================================================================
