------------------------------ MODULE SheetPage ------------------------------
(***************************************************************************)
(* The problem sheet (frontend/src/app/system-design/page.tsx) and the     *)
(* requests it sends for its rows, while the catalogue is being seeded.    *)
(*                                                                         *)
(* A request reads the count and then the rows, in statements that each    *)
(* see what is committed by then.  The page has one request that it waits  *)
(* for; those of filters that were left are cancelled, and may still be    *)
(* answered, in any order.                                                 *)
(***************************************************************************)
EXTENDS Catalogue

CONSTANTS Tiers,    \* the buttons of the page
          Queries,  \* what may be typed into the search, Null for nothing
          Limit,    \* the rows of an answer that names no limit
          MaxCalls  \* bound on the number of requests of the page

ASSUME PageAssumption == Limit \in Nat \ {0}

\* What a release is held to: no two problems have one place ("duplicates make
\* list order non-deterministic", tests/unit/test_system_design.py:114).
ASSUME SheetAssumption ==
    \A release \in {Earlier, Release} : \A s, t \in Slugs(release) :
        LET one == Problem(release, s)
            other == Problem(release, t)
        IN  /\ one.order_index \in Int /\ one.sheet_tier \in Int
            /\ one.order_index = other.order_index => s = t

VARIABLES page,     \* the state of ProblemSheetPage
          call      \* its requests, in the order in which they are made

vars == <<db, seed, page, call>>
-----------------------------------------------------------------------------
Filter == [tier : Tiers, query : Queries]

\* A request; items are the rows of its answer.
NewCall ==
    [stage |-> "idle", tier |-> 25, query |-> Null, cancelled |-> FALSE, total |-> 0,
     items |-> << >>]

\* The page: ran is the filter that the effect last ran for.
Init ==
    /\ SeedInit
    /\ page = [filter |-> [tier |-> 25, query |-> Null], ran |-> Null,
               problems |-> << >>, loading |-> TRUE, offline |-> FALSE]
    /\ call = [c \in 1 .. MaxCalls |-> NewCall]

\* A button or a key.
SetFilter(filter) ==
    /\ filter # page.filter
    /\ \E c \in 1 .. MaxCalls : call[c].stage = "idle"
    /\ page' = [page EXCEPT !.filter = filter]
    /\ UNCHANGED <<db, seed, call>>

\* Slip: the cleanup of the effect is forgotten.
CancelNone == call

\* The cleanup of the effect's last run.
CancelOthers ==
    [c \in 1 .. MaxCalls |->
        IF call[c].stage \in {"idle", "over"} THEN call[c]
        ELSE [call[c] EXCEPT !.cancelled = TRUE]]

\* The effect, after the render of a filter it has not run for.
Effect(c) ==
    /\ page.ran # page.filter
    /\ call[c].stage = "idle" /\ \A o \in 1 .. c - 1 : call[o].stage # "idle"
    /\ page' = [page EXCEPT !.ran = page.filter, !.loading = TRUE]
    /\ call' = [CancelOthers EXCEPT ![c] =
                  [NewCall EXCEPT !.stage = "sent", !.tier = page.filter.tier,
                                  !.query = page.filter.query]]
    /\ UNCHANGED <<db, seed>>

Total(c) == Cardinality(Matching(db, call[c].tier, call[c].query))

Rows(c, features) ==
    LET listing == FirstRows(Listing(db, call[c].tier, call[c].query), Limit)
    IN  [i \in DOMAIN listing |-> Summary(listing[i], features)]

\* Slip: the rows are read first and counted afterwards.
CountLate(c) ==
    /\ \/ /\ call[c].stage = "sent"
          /\ call' = [call EXCEPT ![c].stage = "counted", ![c].items = Rows(c, Free)]
       \/ /\ call[c].stage = "counted"
          /\ call' = [call EXCEPT ![c].stage = "answered", ![c].total = Total(c)]
    /\ UNCHANGED <<db, seed, page>>

\* list_problems, its first statement.
Count(c) ==
    /\ call[c].stage = "sent"
    /\ call' = [call EXCEPT ![c].stage = "counted", ![c].total = Total(c)]
    /\ UNCHANGED <<db, seed, page>>

\* The second, for a visitor without a valid token or a user of some tier.
Fetch(c) ==
    /\ call[c].stage = "counted"
    /\ \E tier \in SubscriptionTier :
          call' = [call EXCEPT ![c].stage = "answered", ![c].items = Rows(c, Features[tier])]
    /\ UNCHANGED <<db, seed, page>>

\* Slip: what finally does is done after an answer only.
FailLoading(c) ==
    /\ call[c].stage \in {"sent", "counted", "answered"}
    /\ page' = IF call[c].cancelled THEN page
               ELSE [page EXCEPT !.problems = DEMO_PROBLEMS, !.offline = TRUE]
    /\ call' = [call EXCEPT ![c] = [NewCall EXCEPT !.stage = "over"]]
    /\ UNCHANGED <<db, seed>>

\* The request, the server or the answer is lost.
Fail(c) ==
    /\ call[c].stage \in {"sent", "counted", "answered"}
    /\ page' = IF call[c].cancelled THEN page
               ELSE [page EXCEPT !.problems = DEMO_PROBLEMS, !.offline = TRUE, !.loading = FALSE]
    /\ call' = [call EXCEPT ![c] = [NewCall EXCEPT !.stage = "over"]]
    /\ UNCHANGED <<db, seed>>

Return(c) ==
    /\ call[c].stage = "answered"
    /\ page' = IF call[c].cancelled THEN page
               ELSE [page EXCEPT !.problems = call[c].items, !.offline = FALSE, !.loading = FALSE]
    /\ call' = [call EXCEPT ![c] = [NewCall EXCEPT !.stage = "over"]]
    /\ UNCHANGED <<db, seed>>

Serve(c) == Count(c) \/ Fetch(c) \/ Return(c) \/ Fail(c)

Next ==
    \/ \E r \in Runs : (Seeding(r) \/ CrashSeed(r)) /\ UNCHANGED <<page, call>>
    \/ \E filter \in Filter : SetFilter(filter)
    \/ \E c \in 1 .. MaxCalls : Effect(c) \/ Serve(c)

\* Fairness: React runs the effects of a render; a request ends, in an answer
\* or a failure; a run of the seed goes on when no lock is in its way.
Spec ==
    /\ Init /\ [][Next]_vars
    /\ WF_page(\E c \in 1 .. MaxCalls : Effect(c))
    /\ \A c \in 1 .. MaxCalls : WF_call(Return(c) \/ Fail(c))
    /\ \A r \in Runs : WF_seed((LookUp(r) \/ Flush(r) \/ Commit(r)) /\ UNCHANGED <<page, call>>)
-----------------------------------------------------------------------------
Releases == {Empty, Published(Earlier), Published(Release)}

(***************************************************************************)
(* At every moment the catalogue is a whole release, the earlier or the    *)
(* new one, however runs of the seed overlap, fail and are repeated        *)
(* ("re-running after adding content is safe", seed/__init__.py:6).        *)
(***************************************************************************)
PublishedSheetIsARelease == db \in Releases

(***************************************************************************)
(* A run of the seed that dies of a duplicate key has lost nothing: its    *)
(* twin has published all that it would have.                              *)
(***************************************************************************)
DuplicateMeansPublished ==
    (\E r \in Runs : seed[r].stage = "duplicate") => db = Published(Release)

(***************************************************************************)
(* A smaller sheet is a larger one with the problems of larger tiers left  *)
(* out and none moved, for every tier and search ("a 25-tier problem also  *)
(* appears in the 75 and 150 sheets", hld_problems.py:20-21; a tier that   *)
(* is none asks for all).  That it is a prefix, as                         *)
(* system_design_service.py:31 says, is up to the places that are seeded.  *)
(***************************************************************************)
TiersAreNested ==
    \A query \in Queries : \A pair \in {<<25, 75>>, <<75, 150>>, <<150, 0>>} :
        LET part == Listing(db, pair[1], query)
            whole == Listing(db, pair[2], query)
        IN  /\ Range(part) \subseteq Range(whole)
            /\ \A s \in Range(whole) \ Range(part) : db.problems[s].sheet_tier > pair[1]
            /\ \A i, j \in DOMAIN part : i < j =>
                  \E k, l \in DOMAIN whole : k < l /\ whole[k] = part[i] /\ whole[l] = part[j]

(***************************************************************************)
(* The lock on a row of the sheet is the lock on the problem behind it:    *)
(* the two are decided by different features of the tier.                  *)
(***************************************************************************)
LocksAgree ==
    \A s \in DOMAIN db.problems : \A tier \in SubscriptionTier :
        Summary(s, Features[tier]).is_locked = Detail(s, Features[tier]).is_locked

(***************************************************************************)
(* What the page falls back on is what an anonymous visitor of the API is  *)
(* shown: the first rows of the sheet, the head of the unlocked problems   *)
(* (title, difficulty, minutes, lock), and the palette with its categories *)
(* and labels, but for two labels.  palette.ts:10 calls a mismatch "a      *)
(* seed-drift bug": these two are, and no other.                           *)
(***************************************************************************)
LocalCopiesAgreeButForTwoLabels ==
    Slugs(Release) \subseteq DOMAIN db.problems =>
        LET sheet == Listing(db, 25, Null) IN
        /\ \A i \in DOMAIN DEMO_PROBLEMS : DEMO_PROBLEMS[i] = Summary(sheet[i], Free)
        /\ \A detail \in DETAILS : detail = Detail(detail.slug, Free)
        /\ FALLBACK_PALETTE =
              [db.palette EXCEPT !["config_service"] = <<"Config / Flags", @[2]>>,
                                 !["custom"] = <<"Custom", @[2]>>]

\* What is released is what the repository seeds, and an earlier release that
\* had all of the problems already had them as they are.
CopiesAreOfTheRelease ==
    /\ Release.palette = COMPONENTS /\ Release.sheet = HLD_PROBLEMS
    /\ Slugs(Release) \subseteq Slugs(Earlier) => Published(Earlier) = Published(Release)

\* What the page may ask for: its first filter, and those of its buttons.
Asked == [tier : Tiers \cup {25}, query : Queries \cup {Null}]

\* A new release takes no problem out of what a filter finds.
NothingIsWithdrawn ==
    \A filter \in Asked :
        Cardinality(Matching(Published(Earlier), filter.tier, filter.query))
            <= Cardinality(Matching(Published(Release), filter.tier, filter.query))

(***************************************************************************)
(* The first page of an answer is full, or has as many rows as were        *)
(* counted: the sheet grows between the two statements of list_problems,   *)
(* and never shrinks.                                                      *)
(***************************************************************************)
PageReachesTotal ==
    \A c \in 1 .. MaxCalls : call[c].stage = "answered" =>
        Len(call[c].items) >= IF call[c].total < Limit THEN call[c].total ELSE Limit

(***************************************************************************)
(* Rows that are not behind the skeleton are those of the filter that is   *)
(* set, in whatever order the answers came: the first rows of it in some   *)
(* release, or the bundled ones under their banner.                        *)
(***************************************************************************)
ShownIsAsked ==
    ~page.loading /\ page.ran = page.filter =>
        IF page.offline THEN page.problems = DEMO_PROBLEMS
        ELSE \E catalogue \in Releases :
                [i \in DOMAIN page.problems |-> page.problems[i].slug]
                    = FirstRows(Listing(catalogue, page.filter.tier, page.filter.query), Limit)

(***************************************************************************)
(* The skeleton goes away, however the requests end.                       *)
(***************************************************************************)
LoadingEnds == page.loading ~> ~page.loading

(***************************************************************************)
(* The runs of the seed come to rest: one that waits for another is never  *)
(* waited for by it, because all write the keys in one order.              *)
(***************************************************************************)
SeedsEnd == <>[](\A r \in Runs : seed[r].stage \notin {"look", "flush", "commit"})
=============================================================================
