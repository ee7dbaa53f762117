---------------------------- MODULE DesignReview ----------------------------
(***************************************************************************)
(* The review of a saved canvas, from the button on the practice page to   *)
(* the stored row and back: the dependencies of POST /workspaces/{id}/     *)
(* review (backend/app/api/deps.py), the connection it holds meanwhile     *)
(* (db/session.py), DesignReviewService, AnthropicProvider, the commit and *)
(* the answer, for the requests of one account.                            *)
(*                                                                         *)
(* A session takes a connection out of the pool at its first statement and *)
(* keeps it until the commit or the rollback, so a review holds one while  *)
(* it asks the limiter and the model.  "brief" stands for every request    *)
(* that only reads or writes the database; "stray" is a review of a        *)
(* workspace that is not the account's.  A canvas is its version: which    *)
(* canvas a review pins is the subject of Workspaces.                      *)
(***************************************************************************)
EXTENDS Integers, FiniteSets, Entitlements

CONSTANTS Requests,   \* the requests that will be made, each once
          PoolCap,    \* DATABASE_POOL_SIZE + DATABASE_MAX_OVERFLOW
          Snapshots,  \* the states of the subscription the provider reports
          Scores,     \* the scores a model may answer with
          MaxTime,    \* bound on the clock
          MaxVersion  \* bound on the number of saves

ASSUME PoolAssumption == PoolCap \in Nat \ {0}

ASSUME ReviewAssumption ==
    /\ Snapshots \subseteq Subscription /\ Scores \subseteq Int
    /\ MaxTime \in Nat /\ MaxVersion \in Nat /\ Null \notin Requests \cup {"done", "review", "error"}

VARIABLES
    commitsFirst, \* the commit comes before the answer: see Commit
    now, active, sub, \* the clock, users.is_active and the subscriptions row
    version,  \* the workspace's version
    req,      \* the requests
    out,      \* the requests whose session has a connection out of the pool
    stored,   \* the requests whose review is in system_design_reviews
    calls,    \* history: the requests that asked the model
    page      \* the practice page

world == <<commitsFirst, now, active, sub, version>>
vars == <<world, req, out, stored, calls, page>>
-----------------------------------------------------------------------------
(***************************************************************************)
(* row, entitled: the subscription that get_current_user loaded, and what  *)
(*             current_entitlements made of it.                            *)
(* version, score: the canvas that was scored, and the score.              *)
(* answer:     what was sent to the client: "error" stands for all codes.  *)
(* began, alive: history: the clock and is_active when it was made.        *)
(***************************************************************************)
NewRequest ==
    [kind |-> "brief", stage |-> "idle", row |-> Null, entitled |-> FALSE,
     version |-> 0, score |-> 0, answer |-> Null, began |-> 0, alive |-> FALSE]

\* The page: its flag, the reviews it waits for and the one it shows.
FreshPage == [reviewing |-> FALSE, awaits |-> {}, shows |-> Null]

Init ==
    /\ commitsFirst \in BOOLEAN
    /\ now = 0 /\ active = TRUE /\ sub \in Snapshots \cup {Null}
    /\ version = 1
    /\ req = [r \in Requests |-> NewRequest]
    /\ out = {} /\ stored = {} /\ calls = {}
    /\ page = FreshPage
-----------------------------------------------------------------------------
\* What a request does on the server when it ends: its session gives the
\* connection back, and an answer that was not sent yet is.
Release(r) == out' = out \ {r}

\* What matters of a request later: of one that asked the model, its history.
Ended(r, answer) ==
    [IF r \in calls THEN req[r] ELSE [NewRequest EXCEPT !.kind = req[r].kind]
        EXCEPT !.stage = "over", !.entitled = FALSE,
               !.answer = IF req[r].answer = Null THEN answer ELSE req[r].answer]

\* Slip: a session that ends in an error keeps its connection.
EndLeaking(r, answer) ==
    /\ req' = [req EXCEPT ![r] = Ended(r, answer)]
    /\ IF answer \in {"done", "review"} THEN Release(r) ELSE UNCHANGED out

End(r, answer) ==
    /\ req' = [req EXCEPT ![r] = Ended(r, answer)]
    /\ Release(r)

Step(r, stage) == req' = [req EXCEPT ![r].stage = stage]

\* A request reaches the server.
Begin(r, kind) ==
    /\ req[r].stage = "idle"
    /\ req' = [req EXCEPT ![r] =
                 [NewRequest EXCEPT !.kind = kind, !.stage = "arrived", !.began = now,
                                    !.alive = active]]

\* decode_token, before the session has done anything: a missing, expired,
\* malformed or foreign token ends the request.
DecodeToken(r) ==
    /\ req[r].stage = "arrived"
    /\ \/ End(r, "error")
       \/ Step(r, "wait") /\ UNCHANGED out
    /\ UNCHANGED <<world, stored, calls, page>>

\* The first statement of the session: it gets a connection and loads the
\* user with the subscription.
GetCurrentUser(r) ==
    /\ req[r].stage = "wait"
    /\ Cardinality(out) < PoolCap
    /\ IF active
       THEN /\ out' = out \cup {r}
            /\ req' = [req EXCEPT ![r].stage = IF req[r].kind = "brief" THEN "handle" ELSE "limit",
                                  ![r].row = sub]
       ELSE End(r, "error")
    /\ UNCHANGED <<world, stored, calls, page>>

\* QueuePool's timeout: none of the connections came back in time.
PoolTimeout(r) ==
    /\ req[r].stage = "wait"
    /\ Cardinality(out) >= PoolCap
    /\ End(r, "error")
    /\ UNCHANGED <<world, stored, calls, page>>

\* ai_rate_limit, then current_entitlements: Redis answers, turns the request
\* away or fails, and only then is the subscription compared with the clock.
\* The limiter resolves the user once more (OptionalUser, deps.py:127): the same
\* session has the same object for it, with what was loaded the first time.
RateLimit(r) ==
    /\ req[r].stage = "limit"
    /\ \/ End(r, "error")
       \/ /\ req' = [req EXCEPT ![r].stage = "handle",
                                ![r].entitled = "can_access_advanced_analytics"
                                                  \in GetEntitlements(req[r].row, now)]
          /\ UNCHANGED out
    /\ UNCHANGED <<world, stored, calls, page>>

\* The handler does not ask the model: 404, or 402.
Refused(r) == req[r].kind = "stray" \/ ~req[r].entitled

\* review_workspace up to the model call: the provider is made, the workspace
\* loaded and the entitlement asked for.  Without an API key, or when a
\* statement fails, it ends here whoever asks.
ReviewWorkspace(r) ==
    /\ req[r].stage = "handle" /\ req[r].kind # "brief"
    /\ \/ End(r, "error") /\ UNCHANGED calls
       \/ /\ ~Refused(r)
          /\ req' = [req EXCEPT ![r].stage = "model", ![r].version = version]
          /\ calls' = calls \cup {r}
          /\ UNCHANGED out
    /\ UNCHANGED <<world, stored, page>>

\* Any other handler: it runs its statements, and ends well or in an error.
HandleBrief(r) ==
    /\ req[r].stage = "handle" /\ req[r].kind = "brief"
    /\ \E answer \in {"done", "error"} : End(r, answer)
    /\ UNCHANGED <<world, stored, calls, page>>
-----------------------------------------------------------------------------
\* A reply that could be read to the end: why it stopped, and the score that
\* its text parses to, if it does.  A refusal has no text; a reply that was
\* cut short does not parse.
Replies ==
    [stop : {"end_turn"}, score : Scores \cup {Null}]
        \cup [stop : {"refusal", "max_tokens"}, score : {Null}]

\* DesignReview.model_validate_json, with its bounds on the score.
Accepts(reply) ==
    /\ reply.stop = "end_turn"
    /\ reply.score # Null
    /\ 0 <= reply.score /\ reply.score <= 100

\* generate_structured: the API refuses, cannot be reached, breaks off or
\* answers.
ModelReply(r) ==
    /\ req[r].stage = "model"
    /\ \/ End(r, "error")
       \/ \E reply \in Replies :
             \/ ~Accepts(reply) /\ End(r, "error")
             \/ /\ Accepts(reply)
                /\ req' = [req EXCEPT ![r].stage = "flush", ![r].score = reply.score]
                /\ UNCHANGED out
    /\ UNCHANGED <<world, stored, calls, page>>

\* db.flush() of the new row, which may fail.
Flush(r) ==
    /\ req[r].stage = "flush"
    /\ \/ End(r, "error")
       \/ /\ req' = [req EXCEPT ![r].stage = "commit",
                                ![r].answer = IF commitsFirst THEN Null ELSE "review"]
          /\ UNCHANGED out
    /\ UNCHANGED <<world, stored, calls, page>>

\* Slip: the answer is sent as soon as the handler has returned.
CommitAfterAnswer(r) ==
    /\ req[r].stage = "commit"
    /\ \/ req[r].answer = Null /\ req' = [req EXCEPT ![r].answer = "review"]
                               /\ UNCHANGED <<out, stored>>
       \/ req[r].answer # Null /\ End(r, "review") /\ stored' = stored \cup {r}
       \/ End(r, "error") /\ UNCHANGED stored
    /\ UNCHANGED <<world, calls, page>>

\* The exit code of get_db: the commit, or the error it ends in.  FastAPI 0.115
\* to 0.117 run it before the answer is sent, 0.118 and later after.
Commit(r) ==
    /\ req[r].stage = "commit"
    /\ \/ End(r, "review") /\ stored' = stored \cup {r}
       \/ End(r, "error") /\ UNCHANGED stored
    /\ UNCHANGED <<world, calls, page>>

\* The process dies: sessions, connections and answers not sent are gone.
Crash ==
    /\ req' = [r \in Requests |-> IF req[r].stage = "idle" THEN req[r]
                                  ELSE Ended(r, Null)]
    /\ out' = {}
    /\ UNCHANGED <<world, stored, calls, page>>

Serve(r) ==
    \/ DecodeToken(r) \/ GetCurrentUser(r) \/ PoolTimeout(r) \/ RateLimit(r)
    \/ ReviewWorkspace(r) \/ HandleBrief(r) \/ ModelReply(r) \/ Flush(r) \/ Commit(r)
-----------------------------------------------------------------------------
\* Slip: the button can be pressed again while a review is under way.
ButtonAlwaysEnabled == TRUE

ButtonEnabled == ~page.reviewing

\* handleReview, up to its await.
HandleReview(r) ==
    /\ ButtonEnabled
    /\ Begin(r, "review")
    /\ page' = [page EXCEPT !.reviewing = TRUE, !.awaits = @ \cup {r}]
    /\ UNCHANGED <<world, out, stored, calls>>

\* Another client of the account; its reviews are like those of a page that
\* was reloaded since.
AskElsewhere(r) ==
    /\ \E kind \in {"stray", "brief"} : Begin(r, kind)
    /\ UNCHANGED <<world, out, stored, calls, page>>

\* The page learns how request r ended: its answer, or that there is none.
Settled(r) == req[r].answer # Null \/ req[r].stage = "over"

\* Slip: the flag is lowered after a review is shown, and not otherwise.
ReturnOnSuccess(r) ==
    /\ r \in page.awaits /\ Settled(r)
    /\ page' = IF req[r].answer = "review"
               THEN [reviewing |-> FALSE, awaits |-> page.awaits \ {r}, shows |-> r]
               ELSE [page EXCEPT !.awaits = @ \ {r}]
    /\ UNCHANGED <<world, req, out, stored, calls>>

\* The rest of handleReview, after the request has ended: the review is shown,
\* or the error is; an answer that was lost is an error.
Return(r) ==
    /\ r \in page.awaits /\ Settled(r)
    /\ \E shows \in {page.shows} \cup (IF req[r].answer = "review" THEN {r} ELSE {}) :
          page' = [reviewing |-> FALSE, awaits |-> page.awaits \ {r}, shows |-> shows]
    /\ UNCHANGED <<world, req, out, stored, calls>>

\* fetch rejects before the request has ended: the network or a proxy gives it
\* up, and the server goes on with it.
GiveUp(r) ==
    /\ r \in page.awaits /\ ~Settled(r)
    /\ page' = [page EXCEPT !.reviewing = FALSE, !.awaits = @ \ {r}]
    /\ UNCHANGED <<world, req, out, stored, calls>>

\* A save, from this page or another: neither waits for a review.
Save ==
    /\ version < MaxVersion
    /\ version' = version + 1
    /\ UNCHANGED <<commitsFirst, now, active, sub, req, out, stored, calls, page>>

\* The page is loaded anew.
Reload ==
    /\ page' = FreshPage
    /\ UNCHANGED <<world, req, out, stored, calls>>

\* The panel of the review is closed.
CloseReview ==
    /\ page.shows # Null
    /\ page' = [page EXCEPT !.shows = Null]
    /\ UNCHANGED <<world, req, out, stored, calls>>

Tick ==
    /\ now < MaxTime
    /\ now' = now + 1
    /\ UNCHANGED <<commitsFirst, active, sub, version, req, out, stored, calls, page>>

\* An administrator disables the account.
Disable ==
    /\ active' = FALSE
    /\ UNCHANGED <<commitsFirst, now, sub, version, req, out, stored, calls, page>>

\* A webhook arrives: perhaps late, twice or after a newer one.
Webhook ==
    /\ sub' \in Snapshots
    /\ UNCHANGED <<commitsFirst, now, active, version, req, out, stored, calls, page>>

Next ==
    \/ \E r \in Requests :
          Serve(r) \/ HandleReview(r) \/ AskElsewhere(r) \/ Return(r) \/ GiveUp(r)
    \/ Crash \/ Save \/ Reload \/ CloseReview \/ Tick \/ Disable \/ Webhook

(***************************************************************************)
(* Fairness: a request that is being served goes on, because each wait has *)
(* an end of its own: QueuePool's and the SDK's timeouts and the sockets'. *)
(* The page hears of the end of its request; that it gives up on one       *)
(* earlier is never relied on.                                             *)
(***************************************************************************)
Spec ==
    /\ Init /\ [][Next]_vars
    /\ \A r \in Requests : WF_vars(Serve(r)) /\ WF_vars(Return(r))
-----------------------------------------------------------------------------
Paid(s, t) ==
    s.tier \in {"premium", "pro"} /\ s.status \in {"active", "trialing"}
        /\ (s.end = Null \/ s.end >= t)

(***************************************************************************)
(* The model is asked only for an account that was not disabled when it    *)
(* made the request, with a subscription that, as the request found it,    *)
(* was paid for at that moment, whatever webhooks came meanwhile; and only *)
(* about a canvas of its own ("never spend a model call the user isn't     *)
(* entitled to", design_review_service.py:63).                             *)
(***************************************************************************)
CallsAreEarned ==
    \A r \in calls :
        /\ req[r].kind = "review" /\ req[r].alive
        /\ req[r].row # Null /\ Paid(req[r].row, req[r].began)

(***************************************************************************)
(* A review that the page shows was parsed and is in range, although the   *)
(* schema that the model is held to has lost its bounds, and where the     *)
(* commit comes before the answer it is in the database.                   *)
(***************************************************************************)
ShownReviewsAreSound ==
    page.shows # Null =>
        /\ req[page.shows].score \in 0 .. 100
        /\ commitsFirst => page.shows \in stored

(***************************************************************************)
(* A review is never replaced on the page by one of an older canvas.       *)
(***************************************************************************)
ShownNeverGoesBack ==
    [][page.shows # Null /\ page'.shows # Null
         => req[page.shows].version <= req[page'.shows].version]_vars

(***************************************************************************)
(* A pool that reviews have emptied has a connection again some time.      *)
(***************************************************************************)
PoolRecovers == Cardinality(out) = PoolCap ~> Cardinality(out) < PoolCap

(***************************************************************************)
(* The review button comes back, however the request fails.                *)
(***************************************************************************)
ButtonComesBack == page.reviewing ~> ~page.reviewing
=============================================================================
