------------------------------ MODULE Catalogue ------------------------------
(***************************************************************************)
(* The catalogue in the database: how runs of the seed write it            *)
(* (backend/app/db/seed/__init__.py) and how the sheet, a problem and the  *)
(* palette are read (SystemDesignService and the routes that call it).     *)
(*                                                                         *)
(* db holds what is committed.  A problem and its detail are one row: both *)
(* reads join them, and they are written in one transaction.  A run of the *)
(* seed is one transaction, whose session writes at each db.flush(); runs  *)
(* of one release may overlap, runs of different releases do not.          *)
(***************************************************************************)
EXTENDS HldProblems, Entitlements, Arrange, SequencesExt

CONSTANTS Release,  \* what is seeded: [palette, sheet]
          Earlier,  \* the release that may be in the database already
          Runs      \* the runs of the seed, each made once

Slugs(release) == {spec.slug : spec \in Range(release.sheet)}

\* "palette" is not a slug; what a release holds, later ones do.
ASSUME CatalogueAssumption ==
    /\ Release.sheet \in Seq(Range(Release.sheet)) /\ Release.sheet # << >>
    /\ "palette" \notin Slugs(Release)
    /\ DOMAIN Earlier.palette \subseteq DOMAIN Release.palette
    /\ Slugs(Earlier) \subseteq Slugs(Release)

VARIABLES db,       \* the committed catalogue: [palette, problems]
          seed      \* the runs of the seed

Problem(release, s) == CHOOSE spec \in Range(release.sheet) : spec.slug = s

\* The columns that the seed sets, on a new row and on one that is there.
Columns(spec) ==
    [title |-> spec.title, difficulty |-> spec.difficulty,
     order_index |-> spec.order_index, sheet_tier |-> spec.sheet_tier,
     estimated_minutes |-> spec.estimated_minutes,
     is_free_preview |-> spec.is_free_preview, is_premium |-> ~spec.is_free_preview]

\* Slip: the place in the sheet is given to new problems only.
WrittenInPlace(spec, old) ==
    [Columns(spec) EXCEPT !.order_index = IF old = Null THEN @ ELSE old.order_index]

\* Slip: the flag is copied, not negated.
WrittenUnnegated(spec, old) == [Columns(spec) EXCEPT !.is_premium = ~@]

\* The row of a problem after the seed; old is what it was, or Null.
Written(spec, old) == Columns(spec)

Empty == [palette |-> [kind \in {} |-> Null], problems |-> [s \in {} |-> Null]]

\* A release, as it is when all of it is in the database.
Published(release) ==
    [palette |-> [kind \in DOMAIN release.palette |-> release.palette[kind]],
     problems |-> [s \in Slugs(release) |-> Columns(Problem(release, s))]]
-----------------------------------------------------------------------------
\* A key is "palette", for the rows of component_catalog, or a slug.
Keys == {"palette"} \cup Slugs(Release)

Missing(k) ==
    IF k = "palette" THEN ~(DOMAIN Release.palette \subseteq DOMAIN db.palette)
    ELSE k \notin DOMAIN db.problems

Target(k) ==
    Written(Problem(Release, k), IF Missing(k) THEN Null ELSE db.problems[k])

Outdated(k) ==
    /\ ~Missing(k)
    /\ IF k = "palette" THEN \E kind \in DOMAIN Release.palette : db.palette[kind] # Release.palette[kind]
       ELSE db.problems[k] # Target(k)

(***************************************************************************)
(* at:     the problem in hand, 0 while the palette is looked at.          *)
(* adds, changes: the keys it found missing or outdated.                   *)
(* wrote:  what it has flushed; rows that others must wait for.            *)
(***************************************************************************)
SeedRun ==
    [stage : {"idle", "look", "flush", "commit", "done", "duplicate", "lost"},
     at : 0 .. Len(Release.sheet), adds : SUBSET Keys, changes : SUBSET Keys,
     wrote : SUBSET Keys]

Fresh == [stage |-> "idle", at |-> 0, adds |-> {}, changes |-> {}, wrote |-> {}]

SeedInit ==
    /\ db \in {Empty, Published(Earlier)}
    /\ seed = [r \in Runs |-> Fresh]

EndSeed(r, stage) == seed' = [seed EXCEPT ![r] = [Fresh EXCEPT !.stage = stage]]

\* seed_components.  Its SELECTs, one for each kind, are one step: when another
\* run commits between two of them, what the first ones missed makes the flush
\* fail, and what they found outdated is written as it is by now.
SeedComponents(r) ==
    /\ seed[r].stage = "idle"
    /\ seed' = [seed EXCEPT ![r] =
                  [Fresh EXCEPT !.stage = "look", !.at = 1,
                                !.adds = {k \in {"palette"} : Missing(k)},
                                !.changes = {k \in {"palette"} : Outdated(k)}]]
    /\ UNCHANGED db

\* seed_hld_problems: the SELECT of the next problem.
LookUp(r) ==
    /\ seed[r].stage = "look"
    /\ LET k == Release.sheet[seed[r].at].slug IN
       seed' = [seed EXCEPT ![r].stage = "flush",
                            ![r].adds = @ \cup (IF Missing(k) THEN {k} ELSE {}),
                            ![r].changes = @ \cup (IF Outdated(k) THEN {k} ELSE {})]
    /\ UNCHANGED db

\* What a flush sends: with autoflush off, the first sends the palette too.
Unflushed(r) ==
    (seed[r].adds \cup seed[r].changes) \ seed[r].wrote

\* Slip: it waits for any run that will write the key.
KeyWanted(r) == \E o \in Runs \ {r} : (seed[o].adds \cup seed[o].changes) \cap Unflushed(r) # {}

\* PostgreSQL: another transaction has written a row of this key.
KeyPending(r) == \E o \in Runs \ {r} : seed[o].wrote \cap Unflushed(r) # {}

\* db.flush(): waits for a key that is pending, fails on one that is taken.
\* The detail's row is looked up and sent with the next flush: its key is
\* the problem's, which by then is held.
Flush(r) ==
    /\ seed[r].stage = "flush"
    /\ ~KeyPending(r)
    /\ IF \E k \in Unflushed(r) \cap seed[r].adds : ~Missing(k)
       THEN EndSeed(r, "duplicate")
       ELSE seed' = [seed EXCEPT ![r].wrote = @ \cup Unflushed(r),
                       ![r].stage = IF seed[r].at = Len(Release.sheet) THEN "commit" ELSE "look",
                       ![r].at = IF seed[r].at = Len(Release.sheet) THEN @ ELSE @ + 1]
    /\ UNCHANGED db

WithRows(keys) ==
    [s \in DOMAIN db.problems \cup (keys \ {"palette"}) |->
        IF s \in keys THEN Target(s) ELSE db.problems[s]]

WithPalette ==
    [kind \in DOMAIN db.palette \cup DOMAIN Release.palette |->
        IF kind \in DOMAIN Release.palette THEN Release.palette[kind] ELSE db.palette[kind]]

\* The catalogue with the rows of some keys written.
With(keys) ==
    [palette |-> IF "palette" \in keys THEN WithPalette ELSE db.palette,
     problems |-> WithRows(keys)]

\* Slip: each problem is committed as it is seeded.
CommitEach(r) ==
    \/ /\ seed[r].stage \in {"look", "commit"}
       /\ db' = With(seed[r].wrote)
       /\ seed' = [seed EXCEPT ![r].wrote = {}]
    \/ seed[r].stage = "commit" /\ EndSeed(r, "done") /\ db' = With(seed[r].wrote)

Commit(r) ==
    /\ seed[r].stage = "commit"
    /\ EndSeed(r, "done")
    /\ db' = With(seed[r].wrote)

\* The run, its connection or a statement fails: nothing is committed.
CrashSeed(r) ==
    /\ seed[r].stage \in {"look", "flush", "commit"}
    /\ EndSeed(r, "lost")
    /\ UNCHANGED db

Seeding(r) == SeedComponents(r) \/ LookUp(r) \/ Flush(r) \/ Commit(r)
-----------------------------------------------------------------------------
SHEET_TIERS == {25, 75, 150}

\* Slip: a tier that is none asks for the smallest sheet.
InSmallest(row, tier) == row.sheet_tier <= IF tier \in SHEET_TIERS THEN tier ELSE 25

InSheet(row, tier) == row.sheet_tier <= IF tier \in SHEET_TIERS THEN tier ELSE 150

\* list_problems: the problems of a catalogue that match a word, or Null.
Matching(catalogue, tier, query) ==
    {s \in DOMAIN catalogue.problems :
        /\ InSheet(catalogue.problems[s], tier)
        /\ query # Null => query \in catalogue.problems[s].title}

\* ... in the order of the sheet, in which no two have one place,
Listing(catalogue, tier, query) ==
    LET found == Matching(catalogue, tier, query)
    IN  InOrder(found, [s \in found |-> catalogue.problems[s].order_index])

LockedInList(row, features) ==
    row.is_premium /\ "can_access_premium_problems" \notin features /\ ~row.is_free_preview

\* ... as the rows that one with these features is shown.
Summary(s, features) ==
    LET row == db.problems[s] IN
    [slug |-> s, title |-> row.title, difficulty |-> row.difficulty,
     estimated_minutes |-> row.estimated_minutes, sheet_tier |-> row.sheet_tier,
     is_premium |-> row.is_premium, is_locked |-> LockedInList(row, features)]

FirstRows(listing, limit) ==
    SubSeq(listing, 1, IF limit < Len(listing) THEN limit ELSE Len(listing))

\* get_problem, without the worked solution, which goes with the lock.
LockedInDetail(row, features) ==
    row.is_premium /\ "can_access_full_study_guides" \notin features /\ ~row.is_free_preview

Detail(s, features) ==
    LET row == db.problems[s] IN
    [slug |-> s, title |-> row.title, difficulty |-> row.difficulty,
     estimated_minutes |-> row.estimated_minutes,
     is_locked |-> LockedInDetail(row, features)]
=============================================================================
