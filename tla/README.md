# A formal model of InterviewForge

TLA+ modules, TLC configurations and machine-checked proofs for the backend
(`src/backend/app`, FastAPI, SQLAlchemy, PostgreSQL, Redis, Anthropic) and the two pages
of the frontend (`src/frontend/src`, Next.js, React Flow) of InterviewForge: a platform on
which candidates practise system design on a canvas, save it, share it and have a
language model review it. Paths below are relative to `src/backend/app` unless they
begin with `frontend`.

## Inventory

| Component | State it keeps | Operations | Hard behaviour |
|---|---|---|---|
| Unit of work, `db/session.py` | one database session per request | `get_db`: commit on clean exit, roll back on any exception | objects change in memory and are written only at commit; no row is locked before; nothing is re-checked |
| Workspace service, `services/system_design_service.py`, `models/system_design.py` | workspaces (owner, problem, nodes, edges, version, share slug), reviews | open, save, share, review | version check and write are far apart; a save is two columns; a review waits minutes for the model |
| Canvas payload, `schemas/system_design.py` | none | validates a graph | the bounds and what a later mixed write can undo |
| Auth service, `services/auth_service.py`, `models/user.py` | users, refresh tokens in families | signup, login, refresh, logout, logout-all | rotation, replay, revocation against overlap and roll-back |
| Rate limiter, `core/redis.py`, `api/deps.py` | a sorted set per key, with an expiry | `check_rate_limit` | four round trips, each of which other calls may precede |
| Entitlements, `core/entitlements.py` | the subscription | `get_entitlements` | lapsed periods, missed webhooks |
| Design review service and provider, `services/design_review_service.py`, `ai/` | none (holds a connection) | `review`, `generate_structured` | order of the gates, failures of the model, connection pool |
| Problem sheet, `services/system_design_service.py` | none (reads the catalogue) | list, detail, palette | two statements for one page; two features for one lock |
| Seed, `db/seed/` | problems with their details, the palette | `run` | one transaction of many flushes, runs that overlap and wait for each other's rows |
| Canvas editor, `frontend/src/components/canvas/DesignCanvas.tsx` | nodes, edges, past, future, id counter | add, connect, delete, drag, layout, undo, redo, save | ids after a reload, the dirty flag, history of drags |
| Practice page, `frontend/src/app/system-design/[slug]/page.tsx` | workspace, dirty, saving, reviewing | load, save, review | edits while a save is under way, conflict between tabs |
| Problem list page, `frontend/src/app/system-design/page.tsx`, `lib/demo.ts`, `lib/palette.ts` | filter, rows, loading, offline | filter, load | answers out of order; bundled copies of the catalogue |

How they interact: the page sends HTTP requests; each passes its dependencies (session,
current user, rate limiter, entitlements) and then one service method, all in one unit of
work; the review service awaits the model inside it. Requests share nothing but the
database and Redis. The remaining components (panels, error envelopes, hashing, settings,
the tables no service writes, the migrations) keep no state of their own; `PROJECT.json`
lists each with the reason.

What makes each component correct:

- *Workspaces*: one canvas per user and problem; no save silently lost; a version names one
  canvas; what is stored is a graph; a review says which canvas it scored; only the owner
  acts; a failed request leaves nothing; a share link that was given out stays good.
- *Auth*: one account per address; a token is traded in once; a replay and a logout end the
  session; nobody loses a session for nothing.
- *Rate limiter*: no more than the limit in a window; nobody turned away without cause; the
  key stays small; `retry_after` is honest.
- *Entitlements and review*: nothing paid for is unlocked by a lapsed plan, and no model call
  is made for a request that will be refused.
- *Seed and sheet*: readers see a whole release, never a part of one; a smaller sheet is a
  larger one with problems left out; a problem is locked in the list exactly when it is locked behind it; the
  rows on the page are those of the filter that is set; the bundled copies have not drifted.
- *Editor and page*: what is saved is accepted by the schema; one undo reverses one edit; work is
  never marked as saved when it is not.

The hazards, each at its line and with the properties aimed at it, are in `PROJECT.json`.

## Modules

| Module | What it is |
|---|---|
| `CanvasPayload` | The canvas as the request schema sees it, with its bounds and its two validators. A node is its id, an edge its two ends. |
| `VersionedCanvas` | Abstract: a versioned register with atomic creation and replacement. |
| `Workspaces` | The workspace API, EXTENDS `CanvasPayload`, refines `VersionedCanvas`. |
| `AuthSessions` | The auth service. |
| `RateLimiter` | The sliding window in Redis. |
| `EditHistory` | Abstract: a line of canvases with one marked, which undo and redo move along; an edit that one undo reverses, and three named departures from it. |
| `Arrange` | Lists put in order and filtered (ORDER BY, `filter`, `sort`), stated by ranks and indices. |
| `CanvasEditor` | The canvas editor, EXTENDS `CanvasPayload` and `Arrange`, refines `EditHistory`. |
| `PracticePage` | The page around the editor and the requests it sends, EXTENDS `CanvasEditor`. |
| `Entitlements` | Tiers, features, and what a subscription is worth at a moment. |
| `DesignReview` | A review from the button to the stored row and back, EXTENDS `Entitlements`. |
| `HldProblems` | The catalogue in the source: six problems, the palette, and the copies in the frontend. |
| `Catalogue` | The catalogue in the database: runs of the seed, and the reads, EXTENDS `HldProblems`, `Entitlements` and `Arrange`. |
| `SheetPage` | The problem list page and its requests over `Catalogue`. |
| `MCWorkspaces`, `MCAuthSessions`, `MCRateLimiter`, `MCPracticePage`, `MCDesignReview`, `MCSheetPage` | Instances for TLC: canvases, symmetry, subscriptions, who holds what at the start. |
| `WorkspacesProofs` | What holds of workspaces however requests overlap: types, pinned reviews, the unique workspace, no effect of a failed request. |
| `WorkspacesSerialProofs` | What holds when the saves of a canvas take turns (nothing lost, versions, valid canvases, the refinement of `VersionedCanvas`), and when its shares do (links). |
| `AuthSessionsProofs` | The auth service: what holds however requests overlap, then what holds as long as the trades of a token take turns, and as long as a logout meets none. |
| `RateLimiterProofs` | The window from both sides, the size of the key, `retry_after`, and the limit itself for quick calls. |
| `ArrangeProofs` | Lemmas about `Arrange`: what is sorted holds everything once and in order, what is filtered loses nothing else. |
| `SheetPageProofs` | Releases of the seed; locks, nested sheets, totals, the rows on the page, and the copies in the frontend. |
| `DesignReviewProofs` | Who the model is asked for, what the page shows of its answer and in which order, and the books of the connection pool. |
| `PracticePageProofs` | The editor and the page around it: edges, ids, versions, the guard, the refinement of `EditHistory`. |

`Workspaces` and `AuthSessions` state the shape of their state as `TypeOK`; elsewhere the comments
on the variables give it, and the invariant of the module's proofs states it (`TypeInv`,
`EditorInv` and `ServerInv`, `WorldInv` and `ReviewInv`, `ShownInv`).

The operators commented "Slip" are plausible mistakes in the definition that follows them;
no specification uses them. `PROJECT.json` pairs each with the property that notices it.

### Workspaces

`db` is the workspace table, `reviews` the review table, `session[r]` the unit of work of
request `r`: the row as it was loaded, the object as the handler left it. A request goes
through the steps at which other requests can run:

| Steps of `pc` | Code |
|---|---|
| `idle` to `insert` or an answer | `OpenWorkspace`: the reads of `get_or_create_workspace` |
| `insert` to `exit` | `Insert`: the flush, which waits for an uncommitted twin and fails with an IntegrityError (a 500) on a committed one |
| `idle` to `exit` | `SaveWorkspace`, `ShareWorkspace`: schema or entitlement, ownership, version; then the object is changed in memory |
| `idle` to `call` to `exit` | `ReviewWorkspace`, `ModelReply`: ownership, entitlement, the model, the flush of the review |
| `exit` to `ok` | `Commit`: `get_db` commits; an UPDATE writes the columns that differ from what was loaded (`Written`) |
| to `lost` | `Crash`: the process or the connection dies and the transaction is rolled back |

`log` is history: what each row held after every commit that versioned it, and which state
the author of a save had last read. The commit is when a request counts as answered; that is
the order of FastAPI before 0.118, later ones send the response first (listed as a hazard).
Notes and titles, which no property tells apart from nodes, are left out: `candidate_notes_md`
behaves as a further column.

The code locks nothing between reading and committing, so `Overlap = TRUE` is what it allows.
`Overlap = FALSE` makes the requests that write one canvas take turns, the case the version
counter was written for: tabs that hold old states, not requests that race.

### AuthSessions

`token` is the refresh token table, a token named by the request that issued it, a family by
its first token. `unit[r]` holds what a request has done and not committed: a bulk UPDATE
(`_revoke_family`, logout-all) has taken effect on the rows it could see and holds their locks;
objects are written at commit. `Refresh` decides by the token row; `CheckUser` reads the
account in a statement of its own; `CommitRotation` writes both rows. `Raise` is the replay:
the error leaves through `get_db`, which rolls the revocation back. `OneLiveTokenIfRotationsTakeTurns` and
`LogoutEndsSessionsThatRest` name the overlaps that break the session (two trades of one token, a
trade under way in a session that is being ended) and say that nothing else does. Accounts may be
disabled and tokens expire at any time. Passwords, hashing and access tokens are left out: a login may
always be denied.

### RateLimiter

One key. A call reads its clock, runs the transaction (trim, count, add, expire), and when it
is over the limit reads the oldest entry and pops the newest, each in a step of its own; it may
die before either. The calls in `Earlier` were let in just before the model starts. Time is in ticks, `TicksPerSecond` to the second, so that the truncation
of `retry_after` and the bounds of the trim show. `beside` is history: who was being turned
away when a call counted.

### CanvasEditor and PracticePage

`CanvasEditor` has an action for each handler of `DesignCanvas.tsx`: what it does to `nodes`,
`edges`, the stacks `past` and `future`, `nodeIdCounter` and the page's `dirty`. React renders
between two events, so a handler sees what the last one left; where React Flow calls two
handlers in one task (a node's edges are removed first) both see the same state and no other event
comes between them, so `DeleteNode` is one step, which pushes the snapshot twice as the code does. A
drag is one action, at its end. Edges are told apart by their ends and their handles, so two of
them may join the same nodes (`WithEdge`), and `DeleteEdge` removes one. A node's position and label
are its `look`. `EditsAreLinear` says of each handler which step of `EditHistory` it takes: an edit
that one undo reverses, but for the deletion of a joined node (two undos), the drag (none) and the
rename (no step of the line). React Flow itself is external: what `addEdge`, a deletion and the first
measurement of nodes report.

`PracticePage` adds the page: the `version` it holds (0 in scratchpad mode), the saves it sends
and the server's row `stored`, which takes a save as `save_workspace` does when saves take turns
(`VersionedCanvas`). `HandleSave`, `Arrive`, `Return` are a save that is answered; `Fail` loses
the request or the answer, and a request that the page no longer waits for may still arrive,
after a reload too. `OtherTab` is another tab's save. Saves overlap because Ctrl+S is not
switched off while one is under way. `mine`, `numbered` and `excuse` are history.

### DesignReview and Entitlements

`req[r]` is a request of one account, `out` the set of sessions that have a connection out of
the pool, `stored` the reviews that are committed, `calls` (history) the requests that asked
the model, `page` the practice page. A review goes through the dependencies in the order in
which FastAPI resolves them:

| `stage` | Code |
|---|---|
| `arrived` | `DecodeToken`: `get_current_user` up to its first statement, which needs no connection |
| `wait` | `GetCurrentUser`: the session takes a connection, or fails when none comes back in time (`PoolTimeout`) |
| `limit` | `RateLimit`: `ai_rate_limit`, then the subscription, loaded before, is compared with the clock |
| `handle` | `ReviewWorkspace`: provider, ownership, entitlement; `HandleBrief`: every other handler |
| `model` | `ModelReply`: `generate_structured`, which refuses what was cut short, declined, does not parse or is out of range |
| `flush`, `commit` | `Flush` and the exit code of `get_db` |

`commitsFirst` says which of the two orders of FastAPI is meant; every action is the same in
both, only when the answer is out differs. The account may be disabled and webhooks may report
any state at any time; what they wrote is all the code sees. `Save` bumps the version meanwhile;
which canvas a review pins is the subject of `Workspaces`. `HandleReview`, `Return`, `CloseReview`
and `Reload` are the page: an answer may be lost on the way, and the page is then told of an
error; `GiveUp` is the fetch that rejects while the server goes on with the review, so that a second
one can be asked for beside it. `Crash` ends the requests and the pool with the process.

### HldProblems, Catalogue and SheetPage

`HldProblems` holds what the code decides by: slugs, the words of a title, places, tiers, locks,
minutes, and the label and category of each component. Prose, tags and companies are left out, and so is the worked
solution, which is withheld exactly where `is_locked` is true (one conditional per field).

`db` is what is committed; `seed[r]` a run of the seed: the problem it is at, the keys it found
missing or outdated, and what it has flushed. `SeedComponents` and `LookUp` read, `Flush` is the
`db.flush()` of each problem, `Commit` the single commit of `run`. The session does not
autoflush, so what was added before goes with the next flush. PostgreSQL makes a flush wait
for another transaction's uncommitted row of the same key, and refuses an INSERT of one that is
committed: the run ends as `duplicate`. A problem and its detail are one row: they are written
in one transaction and joined by each read. `component_catalog` is one
key, `palette`: its rows are inserted, and rewritten where they differ, by one flush. The SELECTs of
`seed_components` are one step.

`SheetPage` is the page: `SetFilter`, the effect with its cleanup (`Effect`, `CancelOthers`),
and the requests it sends, which read the count (`Count`) and then the rows (`Fetch`) in
statements that each see what is committed by then. `Return` and `Fail` end a request, whether
the page still waits for it or not. `Fetch` serves any tier: the token of a visitor may have
expired, or a plan begun, between two requests.

## Runs

| Run | Instance | What it shows |
|---|---|---|
| `workspaces_overlap` | 3 requests of 2 users, one canvas saved before and two rows free, canvases that share nodes or edges and two the schema refuses | Whatever overlaps, fails or crashes: one canvas per user and problem, reviews pin what was stored, effects of ok requests only, and every request ends |
| `workspaces_serial` | 4 requests, writers take turns, tabs hold any earlier state | Saves build on what they replace, versions name canvases, so that a review's version stands for the canvas it scored, stored canvases are valid, links stay; each canvas implements `VersionedCanvas` |
| `workspaces_lost_update` | 3 requests that overlap | A counterexample: two saves pass one version check |
| `auth_overlap` | 3 requests, 2 addresses, one device signed in | Rotation is atomic, revocations are earned, one signup wins, every request ends; a family has one live token as long as no token is traded by two refreshes at once, and logouts of both kinds end what they cover as long as no refresh is extending it |
| `auth_reuse` | 3 requests that take turns | A counterexample: the replay's revocation is rolled back |
| `auth_logout_race` | 2 requests that overlap | A counterexample: a refresh survives the logout of its session |
| `rate_limiter` | 5 calls, one of them let in already, limit 1 in 2 seconds of 1 tick, 3 ticks, calls take at most 1 | The window, shortened by what a call may take, holds but for entries that were displaced; nobody is turned away without cause; the key stays small; `retry_after` is not late |
| `practice_page` | one tab, 2 edits and any number of undos and redos, 2 saves, 1 save of another tab, any number of reloads; 2 snapshots of history | Undo and redo implement `EditHistory` within its bound, with each departure tied to its handler; no snapshot or screen has half an edge; new ids are fresh; a version the page knows stands for the canvas it knows; unsaved work is unguarded in three ways only |
| `practice_page_unguarded` | the same | A counterexample: a save fails and the guard is off |
| `practice_page_drag` | the same | A counterexample: the undo after a drag shows the same canvas |
| `design_review` | 2 requests, one connection, 2 states of a subscription, clock 0 to 1, scores below, in and above the range, both orders of commit and answer | The model is asked only for an account in good standing, by the subscription that its request found; a pool that reviews have emptied recovers; what the page shows is sound, stored and never of an older canvas than before; the button comes back |
| `problem_sheet` | the seed of the repository over nothing or over 2 of its problems, reordered, in two tiers and gated otherwise; 2 runs of the seed, 2 requests of the page, 2 sheets, a search, 2 rows to an answer | The catalogue is a whole release at every moment; sheets are nested, locks agree, the copies have drifted in two labels and in nothing else that is compared; pages reach their total, the page shows what was asked for; every run of the seed and every wait of the page ends |

**Why the bounds are enough.** Two requests are the least that race and three let a third
build on, or be caught by, what the race left (a review after a lost update, a refresh after
a replay, a twin behind a twin); four, taking turns, let a version be three steps
old when it is presented. Two nodes and one edge are the least with a dangling edge. Five
calls with a limit of one, which the first has used up, let a call that is being turned away pop
the entry of one let in after it read its clock, others that are being turned away pop what
that left, and one more test what is then in the window; a lag of half the window lets the window
move on between two steps of a call.
Two edits overflow a history of two, since deleting a joined node takes two
snapshots, and leave one to undo, to save and to make while a save is under way; two saves are
the least that are answered out of order; the deletion of one of two nodes leaves the gap in
the numbering that a reload finds. Two requests and one connection are the least that exhaust a
pool; one tick is the least in which a period ends between a request and its gate. Two runs of
the seed are the least that find the same row missing, and all six problems are seeded; two
requests of the page are the least that are answered out of order; two rows to an answer are
fewer than any sheet holds, so that totals and rows differ.

What a bound keeps from TLC: a tick of the limiter is a second, so that `int()` cuts nothing off
`retry_after`, and with a lag of one tick no key expires under a call in flight; both are covered by
the theorems, which hold for any ticks and lags. The six problems that are seeded are all of tier
25; the two that are published before the seed runs are put in two tiers, so that the sheets differ.
`PageReachesTotal` is about the first page of a sheet, the only one the frontend asks for.
Every action of the six specifications happens in the passing runs. Where a cfg
switches deadlock checking off, clients have sent all their requests, or the clock has
reached its bound, and nothing more happens.

**Symmetry** is declared on requests and calls in runs of safety properties only.

**Fairness.** `Spec` of `Workspaces` and `AuthSessions` has weak fairness of the steps that
serve a request that has begun: the event loop resumes a coroutine whose await is over,
PostgreSQL answers, and the model answers or fails within the SDK's timeout. No fairness is
assumed of clients, operators or crashes. The steps that wait (an INSERT for its twin, an
UPDATE for a row lock) are disabled meanwhile, so that their end is a result: the one waited
for never waits for the waiter. `DesignReview` has it of every step that serves a request, because each wait has an end of its
own: QueuePool's timeout, the SDK's and the sockets'; and of the page hearing how its request
ended, which fetch reports as an answer or an error. `SheetPage` has it of the effect that follows
a render, of the end of each request, and of the steps of a run of the seed that has begun; a
flush that waits is disabled, so that `SeedsEnd` is a result: both runs write the keys in one
order. `RateLimiter` and `PracticePage`, whose steps a user or a network takes, state
safety only.

**What the overlapping case breaks.** With `Overlap = TRUE` the properties of
`workspaces_serial` fail as well as those with a run of their own, and so do
`OneLiveTokenPerFamily` and `LogoutEndsSessions` without the hypotheses of `auth_overlap`: a version
goes down and comes back, two canvases bear the version a review pinned, a share link that was
answered is overwritten, a token is traded in twice and leaves two live successors.
`StoredCanvasesValid` fails with it: the
ORM writes the columns that changed, so one save can write the nodes and the other the edges,
and the mix has an edge that dangles although "it must be caught on write"
(`schemas/system_design.py:60-62`). With calls in flight, an entry of a call
that is being turned away can keep another call out (`DeniedOnlyWhenFull` counts it), and can
make `retry_after` a whole window too long (`RetryAfterIsNotLate` excludes it).

`WindowNearlyHonoured` says how far the limiter keeps to its docstring: a call that is turned away
pops the newest entry, which may be that of a call let in after it, and leaves its own in its
place, which is older and is trimmed sooner. So a window can let in one call more than the limit
for each call that was being turned away as it began, and no more than that; the proof counts the
displaced entries, and it showed that chains of them had to be forgiven. The extra second of
EXPIRE keeps the key alive for calls whose reading of the clock is that old.

**Findings** (`PROJECT.json` quotes the lines): concurrent saves are lost despite the version,
and can store a dangling edge; presenting a revoked token revokes nothing; a logout can miss
the token that a refresh under way is about to issue; the guard against losing work is off
after a save that failed; the undo after a drag shows the same canvas, since the snapshot is taken
when the node has moved already. Two more that no line of the code denies: `NewIdsAreFresh` fails for
a canvas with a gap in its numbering, after which every save is refused as invalid; and a save
whose answer is lost makes every later one a conflict "in another tab" until a reload.

**Drift of the bundled copies.** `LocalCopiesAgreeButForTwoLabels` compares of each bundled row its
slug, title, difficulty, minutes, tier and locks, of each bundled detail its slug, title,
difficulty, minutes and lock, and of the palette each kind with its category and label. Two labels
differ: "Config / Flags" (`frontend/src/lib/palette.ts:44`) for "Config / Feature Flags"
(`db/seed/components.py:77`) and "Custom" (`:46`) for "Custom Component" (`:80`), by the words of
`palette.ts:9-10` a seed-drift bug. Not compared, and different:

- the descriptions of the palette, which are shortened;
- the tags: the row and the detail of the rate limiter lack "distributed-state", the row of the
  news feed lacks "write-heavy";
- two requirements of the rate limiter, which are reworded;
- the capacity estimates: the URL shortener lacks "Cache working set", and most of the other rows
  shorten their assumption, working or result;
- what the API adds to an unlocked problem: the bundled details have no study guide, API design,
  data model, architecture, scaling or trade-offs.

Other things met while reading, outside what the models compare: the third row of `demo.ts` has no
detail, so that it cannot be opened offline; `ReviewRequest` (`schemas/system_design.py:159`),
meant to name the version to review, is taken by no route, and a review scores whatever is
stored when it is loaded; a problem that is taken out of the seed stays published.
With the order of FastAPI 0.118 and later, a review can be shown whose commit then fails
(`ShownReviewsAreSound` says what the earlier order achieves).

## Proofs

Every theorem is `Init => Inv`, lemmas for the actions that give `Inv /\ [Next]_vars => Inv'`, and
`Inv => P`. Unless the table says otherwise it assumes only the ASSUMEs of its modules, which TLC
evaluates on each instance.

| Theorems | Assume | Argument |
|---|---|---|
| `TypeCorrect` of `Workspaces` | | `TypeInv`: `TypeOK`, and the row of every running save, share or review is still there (the UPDATE of a save is a row only if the row it meets is one) |
| `ReviewsArePinned` | | `ReviewInv`: every row is the last entry of its history, and whatever a session loaded is somewhere in it; so what a review stores, however late, was stored before. Shares do not disturb it because they change neither version nor canvas |
| `UniqueWorkspace` | | `KeyInv`: an inserted row that is not committed reserves its primary key and its user and problem; the INSERT waits for, or fails on, any other |
| `OnlyOkRequestsHaveEffects` | | `EffectsInv`: a slug is drawn only by the request that writes it, and a row that has one keeps one; so what a session found set at its load is set at its commit, and a commit writes no name but that of the request it answers ok |
| `SavesAreNotLost`, `VersionsAreNames` | `[]SavesTakeTurns` | `SaveInv`: versions count the entries of a history, and a save under way has loaded the canvas as it is still stored. A share may commit in between: it writes neither the canvas nor its version |
| `StoredCanvasesAreValid` | `[]SavesTakeTurns` | Besides, what a writer holds is a whole drawing (`DrawingsAreWhole`), so the columns a commit leaves alone are those it had loaded. `CommitCases` lists what a commit makes of a row |
| `WorkspacesAreRegisters` | `[]SavesTakeTurns` | Refinement: every row is a `VersionedCanvas`; only the commit of an open or a save changes it, and each of those is one step of the register |
| `AnsweredLinksLast` | `[]SharesTakeTurns` | `SharesAreCurrent`: a share under way has loaded the slug that is still stored, and a save never writes the column |
| `SerialWritersTakeTurns`, `SerialCanvases` | `~Overlap` | `TurnInv`: there is one writer per canvas, so that the two hypotheses above are met, and with them all five results |
| `TypeCorrect`, `RotationsAreAtomic`, `NothingIsRevokedForNothing`, `AddressesAreSignedUpOnce` of `AuthSessions` | | `AuthInv`: a unit of work revokes and presents rows of its own account, a family belongs to one row and one account, an inserted address that is not committed is nobody else's. Rows only come and only get revoked (`Grows`), so what a unit knows survives the steps of others |
| `RotationsKeepOneLiveToken` | `[]RotationsTakeTurns` | `OneLiveInv`: what is live in a session that is being extended is the token presented for it, which its commit revokes as it stores the successor; only a second trade of the same token could have revoked that before and stored another |
| `LogoutsAreFinalWithoutRotations` | `[]LogoutsMeetNoRotation` | `EndedInv`: a session that was logged out has no live token, one being logged out has none but those about to be revoked (`LogoutsCover`), and only a rotation under way could add one |
| `FamiliesHaveOneLiveToken`, `LogoutsAreFinal` | `~Overlap` | Corollaries of the two: requests about one account that take turns meet both hypotheses (`TurnsByTokenAndSession`) |
| `KeysStaySmall` | | No more entries are stored than the limit, those being turned away and those that died: a call that is let in found fewer than the limit, every other one is counted by its name |
| `TurnedAwayWhenFull` | | `FullInv`: for every time t, no more entries are younger than t than calls that were let in, died or are being turned away with such a reading (`EntriesAreOwned`); a pop takes the youngest, so the calls that end denied never owe one |
| `WindowsAreNearlyHonoured` | | `WindowInv`: for every t, every call let in after t has an entry that is old enough, but for one displaced by a call that was turned away (`Balanced`) |
| `QuickCallsKeepTheLimit` | `MaxLag = 0` | From `WindowsAreNearlyHonoured`: it takes a call that is turned away slowly to displace the entry of a younger one, so when each call ends in the tick in which it begins no window sees more than the limit |
| `NoRetryIsLate` | `MaxLag <= Window` | `RetryInv`: what a call is about to read as the oldest entry is no younger than a call that filled its window, as long as no later call came between. The windows of the routes are a minute and an hour (`core/config.py:61-63`). The client sets no socket timeout, so a call that hangs for longer than its window is outside this theorem |
| `WholeReleases`, `DuplicatesLoseNothing` | | `SeedInv`: a run knows of every stale row among those it has looked at, what it adds is missing until the release is published, and what it has flushed covers what it knows. At the commit it has looked at all, so the catalogue becomes the release whatever it was; after that no row is stale, and the runs that remain have nothing to write that would change it |
| `RowsAndProblemsLockAlike` | | Both reads decide by the two features of one tier: `SYSTEM_DESIGN_FULL` and the tier of the problem say the same of each plan |
| `SheetsAreNested` | | The bounds of the tiers are ordered, so a smaller sheet is a larger one filtered by tier (`Bound`); the rows of a sheet are its problems by place (`InOrderIsRanked`), places are distinct (`SheetAssumption`) and do not depend on the sheet, so two rows of both stand in the same order in both (`SmallerSheetIsNested`). That a smaller sheet is a prefix does not follow, and is not claimed |
| `RowsAreOfTheFilter` | | `ShownInv`: the only request that is not cancelled is that of the last effect; its answer is the first rows of its filter in some release (`FewMatch`), and nothing else reaches the page |
| `PagesReachTheirTotal` | `NothingIsWithdrawn` | `CountsInv`: between the count and the rows the seed may commit, after which a filter finds no less (`SheetGrows`). The hypothesis says that a new release takes nothing out of what a filter finds; a release that moves a problem to another tier would. `MCSheetPage` has TLC check it of the releases it runs |
| `BundledCopiesAgree` | `CopiesAreOfTheRelease` | Once every problem is there the catalogue is the release (`SeedInv`), whose first rows are worked out from the places of the six problems (`SheetBegins`, `NextInOrder`) and compared with the literals of `demo.ts` and `palette.ts`, but for the two labels. The hypothesis says that what is released is what the repository seeds; `MCSheetPage` has TLC check it of the release it runs |
| `NoCallIsUnearned`, `NothingUnsoundIsShown` | | `ReviewInv` of `DesignReviewProofs`: an account is never enabled again, so whoever is found active was active when asking; the subscription that the request found is kept, its entitlement is worked out no earlier than the request was made, and a period that has not ended by then had not ended before; what a request got of the model it keeps through the flush, the commit and every way to end, and it ends in "review" only from the commit |
| `ReviewsDoNotGoBack` | | `OrderInv`: the page waits for one review at a time and shows only one that it waits for, so a review asked after the one shown loaded a canvas at least as new; an action property, from the invariant at both ends of a step |
| `ConnectionsAreReturned` | | `PoolInv`: the connections that are out are exactly those of the requests between the limiter and their end, and no more than `PoolCap`; each step of a request takes one, keeps it or returns it, and a crash returns all |
| `EditorIsSound`, `EdgesStayAttached`, `IdsStayFresh` | | `EditorInv`: the screen and every snapshot are sketches, drawings whose edges have their ends and, when the editor was mounted on a canvas numbered without a gap, whose ids are used once and lie below the counter. Both stacks together hold at most `MaxHistory`. The counter never goes down before the next mount, so that undo brings back nothing it would number again |
| `VersionsNameCanvases`, `WorkIsGuarded` | | `ServerInv`: an answered save carries a version no later than the server's, and if it is the server's, the server holds the canvas that was sent; since a sketch passes the editor's filter of edges whole (`SavesTheScreen`), the canvas that was sent is what the screen was |
| `UndoLosesNothing` | | Refinement of `EditHistory`, handler by handler: the line is the past, the screen and the future reversed. A commit cuts the future off, appends the screen and keeps the newest that fit (`OnePush`, `NewestOfNewest`; the deletion of a joined node pushes twice, `TwoPushes`); undo and redo move the mark along an unchanged line; a rename replaces what is marked; a reload starts a new line |

They hold for any number of users, problems, rows, requests, calls, connections and runs, any
canvases and bounds of the schema, any limit and window, any length of the history, any two
releases and whatever the webhooks and the model answer. `~Overlap` is the case the
version counter and the token families were written for. The theorems that assume less say which
overlaps hurt these properties: two saves of one canvas, two shares of one canvas, two refreshes with
one token, and a refresh of a session while it is logged out; everything else may overlap. The runs
that expect a violation show the first and the last of these to be real. The first three need
exclusion on one row only, the one that the handler loads (`with_for_update`); the last does not go
by rows, because the row that a refresh is about to store is not yet there to be locked.

Several definitions have the form they have because of the proofs. `Arrange` states ORDER BY by
ranks and `filter` by the indices that are kept: the prover cannot use the recursive functions of
the community modules, since that takes induction over data. Proving corrected the models as
well: what `WindowNearlyHonoured` and `RetryAfterIsNotLate` forgave was at first too little (chains
of displaced entries, and more than `Limit` calls that pop at once), and `SheetPage` had left
unsaid that no two problems share a place.

Model-checked only: `RequestsFinish`, `PoolRecovers`, `ButtonComesBack`, `LoadingEnds` and
`SeedsEnd`, which are liveness under fairness, of which the proof system treats neither the
fairness of an action (`ENABLED`) nor the descent.

## Plan

Every component with a logic of its own is modelled, and every safety property of a passing run,
the action property and both refinements are proved; the overlapping cases are proved under the
weakest hypotheses found. A change of the code that these modules would meet first: a lock on the
row a handler loads, which would turn the hypotheses of `WorkspacesSerialProofs` into theorems.

## Not modelled

- `_validate` of the review service: its limits, 120 components and 300 connections, are
  those of the schema that every stored canvas has passed, so it cannot refuse one.
- Runs of two releases of the seed at once; `Catalogue` assumes that runs overlap only with
  runs of the same release, and that releases only grow.
- `difficulty` and `offset`, which the page does not send; `is_solved`, which is false for as
  long as nothing writes an attempt; `generate` and `stream` of the provider, which have no
  callers.
- Two calls of the limiter that share a name because they share a clock reading and the
  address of a freed object; entries are named by their calls.
- A refresh whose answer is lost: the client is then left with a token that was traded in,
  and the code promises it nothing.
- Signatures of access tokens, roles, password hashing, the wording of errors and logging take
  part in no property stated here. Panels render what they are given; that the review panel can
  be closed is an action of `DesignReview`.
- Interviews, submissions, progress and discussions are tables that no code of this commit
  writes. Migrations run once, outside the program.
