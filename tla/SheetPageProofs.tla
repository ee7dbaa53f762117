--------------------------- MODULE SheetPageProofs ---------------------------
(***************************************************************************)
(* For any releases and any number of runs of the seed: the catalogue is   *)
(* at every moment a whole release, and a run that dies of a duplicate key *)
(* leaves the new one published.  For any number of requests of the page:  *)
(* the rows it shows are those of the filter that is set.  The listing of  *)
(* a smaller sheet is that of a larger one with rows left out and none     *)
(* moved.  A page of rows is full, or has all that were counted, while     *)
(* releases only grow.                                                     *)
(*                                                                         *)
(* A run knows of every row that is not as it will be, among those that it *)
(* has come to; once one run has committed, no row is left that is not.    *)
(***************************************************************************)
EXTENDS SheetPage, ArrangeProofs

Places == Len(Release.sheet)

Stale(k) == Missing(k) \/ Outdated(k)

\* The keys that run r has looked up.
Seen(r) ==
    {"palette"} \cup {Release.sheet[i].slug :
                        i \in 1 .. (IF seed[r].stage = "look" THEN seed[r].at - 1 ELSE seed[r].at)}

RunInv(r) ==
    /\ seed[r].stage \in {"look", "flush"} => seed[r].at \in 1 .. Places
    /\ seed[r].stage \in {"look", "flush", "commit"} =>
          /\ \A k \in Seen(r) : Stale(k) => k \in seed[r].adds \cup seed[r].changes
          /\ \A k \in seed[r].adds : Missing(k) \/ db = Published(Release)
          /\ seed[r].wrote \subseteq seed[r].adds \cup seed[r].changes
    /\ seed[r].stage = "commit" =>
          /\ seed[r].at = Places
          /\ seed[r].adds \cup seed[r].changes \subseteq seed[r].wrote
    /\ seed[r].stage = "duplicate" => db = Published(Release)

SeedInv ==
    /\ seed \in [Runs -> SeedRun]
    /\ db \in Releases
    /\ \A r \in Runs : RunInv(r)
-----------------------------------------------------------------------------
LEMMA PlacesArePositive == Places \in Nat \ {0}
  BY CatalogueAssumption DEF Places

LEMMA SlugsAreKeys ==
    ASSUME NEW i \in 1 .. Places
    PROVE  Release.sheet[i].slug \in Keys \ {"palette"}
  BY CatalogueAssumption DEF Places, Keys, Slugs, Range

\* Every slug of the release is that of some place in its sheet.
LEMMA KeysHavePlaces ==
    ASSUME NEW s \in Slugs(Release)
    PROVE  \E i \in 1 .. Places : s = Release.sheet[i].slug
  BY CatalogueAssumption DEF Places, Slugs, Range

\* Nothing is left to do where the release is published.
LEMMA NothingIsStale == db = Published(Release) => \A k \in Keys : ~Stale(k)
<1>. SUFFICES ASSUME db = Published(Release), NEW k \in Keys PROVE ~Stale(k)
  OBVIOUS
<1>1. CASE k = "palette"
  <2>1. /\ DOMAIN db.palette = DOMAIN Release.palette
        /\ \A kind \in DOMAIN Release.palette : db.palette[kind] = Release.palette[kind]
    BY DEF Published
  <2>. QED BY <1>1, <2>1 DEF Stale, Missing, Outdated
<1>2. CASE k # "palette"
  <2>1. k \in Slugs(Release)
    BY <1>2 DEF Keys
  <2>2. k \in DOMAIN db.problems /\ db.problems[k] = Columns(Problem(Release, k))
    BY <2>1 DEF Published
  <2>. QED BY <1>2, <2>2 DEF Stale, Missing, Outdated, Target, Written
<1>. QED BY <1>1, <1>2

\* A run that writes all that is stale publishes the release.
LEMMA WritingAllPublishes ==
    ASSUME db \in Releases, NEW keys, keys \subseteq Keys,
           \A k \in Keys : Stale(k) => k \in keys
    PROVE  With(keys) = Published(Release)
<1>1. DOMAIN db.palette \subseteq DOMAIN Release.palette /\ DOMAIN db.problems \subseteq Slugs(Release)
  BY CatalogueAssumption DEF Releases, Empty, Published
<1>2. WithPalette = Published(Release).palette
  <2>1. DOMAIN db.palette \cup DOMAIN Release.palette = DOMAIN Release.palette
    BY <1>1
  <2>. QED BY <2>1 DEF WithPalette, Published
<1>3. (IF "palette" \in keys THEN WithPalette ELSE db.palette) = Published(Release).palette
  <2>1. CASE "palette" \notin keys
    <3>1. ~Missing("palette") /\ ~Outdated("palette")
      BY <2>1 DEF Stale, Keys
    <3>2. /\ DOMAIN db.palette = DOMAIN Release.palette
          /\ \A kind \in DOMAIN Release.palette : db.palette[kind] = Release.palette[kind]
      BY <1>1, <3>1 DEF Missing, Outdated
    <3>3. db.palette = [kind \in DOMAIN db.palette |-> db.palette[kind]]
      BY DEF Releases, Empty, Published
    <3>. QED BY <2>1, <3>2, <3>3 DEF Published
  <2>. QED BY <1>2, <2>1
<1>4. DOMAIN db.problems \cup (keys \ {"palette"}) = Slugs(Release)
  <2>1. keys \ {"palette"} \subseteq Slugs(Release)
    BY DEF Keys
  <2>2. ASSUME NEW s \in Slugs(Release), s \notin keys PROVE s \in DOMAIN db.problems
    BY <2>2, CatalogueAssumption DEF Keys, Stale, Missing
  <2>. QED BY <1>1, <2>1, <2>2, CatalogueAssumption
<1>5. ASSUME NEW s \in Slugs(Release)
      PROVE  (IF s \in keys THEN Target(s) ELSE db.problems[s]) = Columns(Problem(Release, s))
  <2>1. Target(s) = Columns(Problem(Release, s))
    BY DEF Target, Written
  <2>2. s \notin keys => db.problems[s] = Target(s)
    BY CatalogueAssumption DEF Keys, Stale, Missing, Outdated
  <2>. QED BY <2>1, <2>2
<1>6. WithRows(keys) = [s \in Slugs(Release) |-> Columns(Problem(Release, s))]
  BY <1>4, <1>5 DEF WithRows
<1>. QED BY <1>3, <1>6 DEF With, Published
-----------------------------------------------------------------------------
LEMMA SeedInvInit == Init => SeedInv
<1>. SUFFICES ASSUME Init PROVE SeedInv
  OBVIOUS
<1>1. Fresh \in SeedRun
  BY PlacesArePositive DEF Fresh, SeedRun, Places
<1>. QED BY <1>1 DEF Init, SeedInit, SeedInv, Releases, RunInv, Fresh

\* A step that leaves the catalogue and the run r alone.
LEMMA OthersKeep ==
    ASSUME NEW r \in Runs, RunInv(r), seed'[r] = seed[r], db' = db
    PROVE  RunInv(r)'
  BY DEF RunInv, Seen, Stale, Missing, Outdated, Target

LEMMA LookingKeeps ==
    ASSUME SeedInv, NEW r \in Runs, SeedComponents(r) \/ LookUp(r)
    PROVE  SeedInv'
<1>. USE PlacesArePositive DEF SeedInv
<1>1. db' = db
  BY DEF SeedComponents, LookUp
<1>2. seed' \in [Runs -> SeedRun] /\ RunInv(r)'
  <2>1. CASE SeedComponents(r)
    <3>1. /\ seed'[r].stage = "look" /\ seed'[r].at = 1 /\ seed'[r].wrote = {}
          /\ seed'[r].adds = {k \in {"palette"} : Missing(k)}
          /\ seed'[r].changes = {k \in {"palette"} : Outdated(k)}
      BY <2>1 DEF SeedComponents, Fresh
    <3>2. seed' \in [Runs -> SeedRun]
      <4>. DEFINE adds == {k \in {"palette"} : Missing(k)}
                  changes == {k \in {"palette"} : Outdated(k)}
                  new == [Fresh EXCEPT !.stage = "look", !.at = 1, !.adds = adds,
                                       !.changes = changes]
      <4>1. adds \in SUBSET Keys /\ changes \in SUBSET Keys
        BY DEF Keys
      <4>2. 1 \in 0 .. Len(Release.sheet)
        BY DEF Places
      <4>3. Fresh \in SeedRun
        BY DEF Fresh, SeedRun
      <4>4. new \in SeedRun
        <5>. HIDE DEF adds, changes
        <5>. QED BY <4>1, <4>2, <4>3 DEF SeedRun
      <4>5. seed' = [seed EXCEPT ![r] = new]
        BY <2>1 DEF SeedComponents, adds, changes
      <4>. HIDE DEF adds, changes, new
      <4>. QED BY <4>4, <4>5
    <3>3. Seen(r)' = {"palette"}
      BY <3>1 DEF Seen
    <3>4. Missing("palette")' = Missing("palette") /\ Outdated("palette")' = Outdated("palette")
      BY <1>1 DEF Missing, Outdated
    <3>. QED BY <3>1, <3>2, <3>3, <3>4 DEF RunInv, Stale
  <2>2. CASE LookUp(r)
    <3>. DEFINE k == Release.sheet[seed[r].at].slug
    <3>1. seed[r].stage = "look" /\ seed[r].at \in 1 .. Places /\ seed[r] \in SeedRun
      BY <2>2 DEF LookUp, RunInv
    <3>2. k \in Keys \ {"palette"}
      BY <3>1, SlugsAreKeys
    <3>3. /\ seed'[r].stage = "flush" /\ seed'[r].at = seed[r].at
          /\ seed'[r].wrote = seed[r].wrote
          /\ seed'[r].adds = seed[r].adds \cup (IF Missing(k) THEN {k} ELSE {})
          /\ seed'[r].changes = seed[r].changes \cup (IF Outdated(k) THEN {k} ELSE {})
      BY <2>2, <3>1 DEF LookUp, SeedRun
    <3>4. seed' \in [Runs -> SeedRun]
      <4>. DEFINE adds == IF Missing(k) THEN {k} ELSE {}
                  changes == IF Outdated(k) THEN {k} ELSE {}
      <4>1. adds \in SUBSET Keys /\ changes \in SUBSET Keys
        BY <3>2
      <4>2. seed' = [seed EXCEPT ![r].stage = "flush", ![r].adds = @ \cup adds,
                                 ![r].changes = @ \cup changes]
        BY <2>2 DEF LookUp
      <4>. HIDE DEF k, adds, changes
      <4>. QED BY <3>1, <4>1, <4>2 DEF SeedRun
    <3>5. Seen(r)' = Seen(r) \cup {k}
      BY <3>1, <3>3 DEF Seen
    <3>6. ASSUME NEW q PROVE Missing(q)' = Missing(q) /\ Outdated(q)' = Outdated(q)
      BY <1>1 DEF Missing, Outdated, Target
    <3>7. \A q \in Seen(r)' : Stale(q)' => q \in seed'[r].adds \cup seed'[r].changes
      BY <3>1, <3>3, <3>5, <3>6 DEF RunInv, Stale
    <3>8. \A q \in seed'[r].adds : Missing(q)' \/ db' = Published(Release)
      BY <1>1, <3>1, <3>3, <3>6 DEF RunInv
    <3>. QED BY <3>1, <3>3, <3>4, <3>7, <3>8 DEF RunInv, Published, Columns
  <2>. QED BY <2>1, <2>2
<1>3. ASSUME NEW o \in Runs, o # r PROVE RunInv(o)'
  BY <1>1, <1>3, OthersKeep DEF SeedComponents, LookUp
<1>. QED BY <1>1, <1>2, <1>3

LEMMA FlushKeeps ==
    ASSUME SeedInv, NEW r \in Runs, Flush(r)
    PROVE  SeedInv'
<1>. USE PlacesArePositive DEF SeedInv
<1>1. db' = db /\ seed[r].stage = "flush" /\ seed[r].at \in 1 .. Places /\ seed[r] \in SeedRun
  BY DEF Flush, RunInv
<1>2. seed' \in [Runs -> SeedRun] /\ RunInv(r)'
  <2>1. CASE \E k \in Unflushed(r) \cap seed[r].adds : ~Missing(k)
    <3>1. db = Published(Release)
      BY <1>1, <2>1 DEF RunInv
    <3>2. seed' = [seed EXCEPT ![r] = [Fresh EXCEPT !.stage = "duplicate"]]
      BY <2>1 DEF Flush, EndSeed
    <3>3. seed' \in [Runs -> SeedRun]
      BY <3>2 DEF Fresh, SeedRun, Places
    <3>4. seed'[r].stage = "duplicate" /\ db' = Published(Release)
      BY <1>1, <3>1, <3>2
    <3>. QED BY <3>3, <3>4 DEF RunInv, Published
  <2>2. CASE ~\E k \in Unflushed(r) \cap seed[r].adds : ~Missing(k)
    <3>. DEFINE done == seed[r].at = Places
    <3>1. seed' = [seed EXCEPT ![r].wrote = @ \cup Unflushed(r),
                     ![r].stage = IF done THEN "commit" ELSE "look",
                     ![r].at = IF done THEN @ ELSE @ + 1]
      BY <2>2 DEF Flush, Places
    <3>2. /\ seed'[r].stage = (IF done THEN "commit" ELSE "look")
          /\ seed'[r].at = (IF done THEN seed[r].at ELSE seed[r].at + 1)
          /\ seed'[r].adds = seed[r].adds /\ seed'[r].changes = seed[r].changes
          /\ seed'[r].wrote = seed[r].wrote \cup Unflushed(r)
      BY <1>1, <3>1 DEF SeedRun
    <3>3. seed'[r].wrote = seed[r].adds \cup seed[r].changes
      BY <1>1, <3>2 DEF RunInv, Unflushed
    <3>4. seed'[r].at \in 1 .. Places
      BY <1>1, <3>2
    <3>5. seed' \in [Runs -> SeedRun]
      BY <1>1, <3>1, <3>4 DEF SeedRun, Unflushed, Places
    <3>6. Seen(r)' = Seen(r)
      BY <1>1, <3>2 DEF Seen
    <3>7. ASSUME NEW q PROVE Missing(q)' = Missing(q) /\ Outdated(q)' = Outdated(q)
      BY <1>1 DEF Missing, Outdated, Target
    <3>8. \A q \in Seen(r)' : Stale(q)' => q \in seed'[r].adds \cup seed'[r].changes
      BY <1>1, <3>2, <3>6, <3>7 DEF RunInv, Stale
    <3>9. \A q \in seed'[r].adds : Missing(q)' \/ db' = Published(Release)
      BY <1>1, <3>2, <3>7 DEF RunInv
    <3>. QED BY <3>2, <3>3, <3>4, <3>5, <3>8, <3>9 DEF RunInv, Published, Columns
  <2>. QED BY <2>1, <2>2
<1>3. ASSUME NEW o \in Runs, o # r PROVE RunInv(o)'
  BY <1>1, <1>3, OthersKeep DEF Flush, EndSeed
<1>. QED BY <1>1, <1>2, <1>3

LEMMA CommitPublishes ==
    ASSUME SeedInv, NEW r \in Runs, Commit(r)
    PROVE  db' = Published(Release)
<1>. USE PlacesArePositive DEF SeedInv
<1>1. seed[r].stage = "commit" /\ seed[r] \in SeedRun /\ RunInv(r)
  BY DEF Commit
<1>2. Keys \subseteq Seen(r)
  BY <1>1, KeysHavePlaces DEF Keys, Seen, RunInv
<1>3. \A k \in Keys : Stale(k) => k \in seed[r].wrote
  BY <1>1, <1>2 DEF RunInv
<1>. QED BY <1>1, <1>3, WritingAllPublishes DEF Commit, SeedRun

LEMMA CommitKeeps ==
    ASSUME SeedInv, NEW r \in Runs, Commit(r)
    PROVE  SeedInv'
<1>. USE PlacesArePositive DEF SeedInv
<1>4. db' = Published(Release)
  BY CommitPublishes
<1>5. seed' = [seed EXCEPT ![r] = [Fresh EXCEPT !.stage = "done"]]
  BY DEF Commit, EndSeed
<1>6. seed' \in [Runs -> SeedRun] /\ RunInv(r)'
  BY <1>5 DEF RunInv, Fresh, SeedRun, Places
<1>7. (db = Published(Release))' => (\A k \in Keys : ~Stale(k))'
  BY NothingIsStale, PTL
<1>8. ASSUME NEW o \in Runs, o # r PROVE RunInv(o)'
  <2>1. seed'[o] = seed[o] /\ seed[o] \in SeedRun
    BY <1>5, <1>8
  <2>2. Seen(o)' \subseteq Keys
    BY <2>1, SlugsAreKeys DEF Seen, SeedRun, Keys, Places
  <2>3. \A k \in Seen(o)' : ~Stale(k)'
    BY <1>4, <1>7, <2>2 DEF Keys
  <2>. QED BY <1>4, <1>8, <2>1, <2>3 DEF RunInv
<1>. QED BY <1>4, <1>5, <1>6, <1>8 DEF Releases

LEMMA CrashKeeps ==
    ASSUME SeedInv, NEW r \in Runs, CrashSeed(r)
    PROVE  SeedInv'
<1>. USE PlacesArePositive DEF SeedInv
<1>1. db' = db /\ seed' = [seed EXCEPT ![r] = [Fresh EXCEPT !.stage = "lost"]]
  BY DEF CrashSeed, EndSeed
<1>2. seed' \in [Runs -> SeedRun] /\ RunInv(r)'
  BY <1>1 DEF RunInv, Fresh, SeedRun, Places
<1>3. ASSUME NEW o \in Runs, o # r PROVE RunInv(o)'
  BY <1>1, <1>3, OthersKeep
<1>. QED BY <1>1, <1>2, <1>3 DEF Releases, Published, Columns

LEMMA SeedInvNext == SeedInv /\ [Next]_vars => SeedInv'
<1>. SUFFICES ASSUME SeedInv, [Next]_vars PROVE SeedInv'
  OBVIOUS
<1>1. CASE UNCHANGED <<db, seed>>
  <2>1. ASSUME NEW r \in Runs PROVE RunInv(r)'
    BY <1>1, <2>1, OthersKeep DEF SeedInv
  <2>. QED BY <1>1, <2>1 DEF SeedInv, Releases, Published, Columns
<1>2. CASE \E r \in Runs : Seeding(r) \/ CrashSeed(r)
  BY <1>2, LookingKeeps, FlushKeeps, CommitKeeps, CrashKeeps DEF Seeding
<1>3. CASE \E filter \in Filter : SetFilter(filter)
  BY <1>1, <1>3 DEF SetFilter
<1>4. CASE \E c \in 1 .. MaxCalls : Effect(c) \/ Serve(c)
  BY <1>1, <1>4 DEF Effect, Serve, Count, Fetch, Return, Fail
<1>. QED BY <1>1, <1>2, <1>3, <1>4 DEF Next, vars
-----------------------------------------------------------------------------
(***************************************************************************)
(* The catalogue is at every moment a whole release: seed/__init__.py,     *)
(* run, with its one commit, whatever overlaps it.                         *)
(***************************************************************************)
THEOREM WholeReleases == Spec => []PublishedSheetIsARelease
<1>1. SeedInv => PublishedSheetIsARelease
  BY DEF SeedInv, PublishedSheetIsARelease
<1>. QED BY <1>1, SeedInvInit, SeedInvNext, PTL DEF Spec

(***************************************************************************)
(* A run of the seed that ends in a duplicate key, at its db.flush(),      *)
(* finds the whole of the release published.                               *)
(***************************************************************************)
THEOREM DuplicatesLoseNothing == Spec => []DuplicateMeansPublished
<1>1. SeedInv => DuplicateMeansPublished
  BY DEF SeedInv, RunInv, DuplicateMeansPublished
<1>. QED BY <1>1, SeedInvInit, SeedInvNext, PTL DEF Spec
-----------------------------------------------------------------------------
(***************************************************************************)
(* A row and the problem behind it have one lock in every tier, whatever   *)
(* is published: the tiers that open the one feature open the other.       *)
(***************************************************************************)
THEOREM RowsAndProblemsLockAlike == Spec => []LocksAgree
<1>1. ASSUME NEW tier \in SubscriptionTier
      PROVE  "can_access_premium_problems" \in Features[tier]
                <=> "can_access_full_study_guides" \in Features[tier]
  BY DEF SubscriptionTier, Features, Free, Premium, Pro
<1>2. LocksAgree
  <2>. SUFFICES ASSUME NEW s \in DOMAIN db.problems, NEW tier \in SubscriptionTier
                PROVE  Summary(s, Features[tier]).is_locked = Detail(s, Features[tier]).is_locked
    BY DEF LocksAgree
  <2>1. LockedInList(db.problems[s], Features[tier]) = LockedInDetail(db.problems[s], Features[tier])
    BY <1>1 DEF LockedInList, LockedInDetail
  <2>. QED BY <2>1 DEF Summary, Detail
<1>. QED BY <1>2, PTL
-----------------------------------------------------------------------------
SlugsOf(rows) == [i \in DOMAIN rows |-> rows[i].slug]

\* The rows are the first of a filter in some release.
AreFirst(rows, tier, query) ==
    \E catalogue \in Releases : SlugsOf(rows) = FirstRows(Listing(catalogue, tier, query), Limit)

PageInv ==
    /\ page = [filter |-> page.filter, ran |-> page.ran, problems |-> page.problems,
               loading |-> page.loading, offline |-> page.offline]
    /\ page.loading \in BOOLEAN /\ page.offline \in BOOLEAN
    /\ ~page.loading =>
          IF page.offline THEN page.problems = DEMO_PROBLEMS
          ELSE AreFirst(page.problems, page.ran.tier, page.ran.query)

Typed(b) ==
    b \in [stage : {"idle", "sent", "counted", "answered", "over"}, tier : {b.tier},
          query : {b.query}, cancelled : BOOLEAN, total : {b.total}, items : {b.items}]

CallInv(c) ==
    /\ Typed(call[c])
    /\ call[c].stage \in {"sent", "counted", "answered"} /\ ~call[c].cancelled =>
          call[c].tier = page.ran.tier /\ call[c].query = page.ran.query
    /\ call[c].stage = "answered" => AreFirst(call[c].items, call[c].tier, call[c].query)

ShownInv ==
    /\ PageInv
    /\ DOMAIN call = 1 .. MaxCalls /\ call = [c \in 1 .. MaxCalls |-> call[c]]
    /\ \A c \in 1 .. MaxCalls : CallInv(c)

\* A release has finitely many problems.
LEMMA FewSlugs == IsFiniteSet(Slugs(Release))
<1>. DEFINE f == [i \in 1 .. Places |-> Release.sheet[i].slug]
<1>1. IsFiniteSet(1 .. Places)
  BY PlacesArePositive, FS_Interval
<1>2. f \in Surjection(1 .. Places, Slugs(Release))
  BY SlugsAreKeys, KeysHavePlaces DEF Surjection, Keys
<1>. QED BY <1>1, <1>2, FS_Surjection

LEMMA FewMatch ==
    ASSUME NEW catalogue \in Releases, NEW tier, NEW query
    PROVE  Cardinality(Matching(catalogue, tier, query)) \in Nat
<1>1. DOMAIN catalogue.problems \subseteq Slugs(Release)
  BY CatalogueAssumption DEF Releases, Empty, Published
<1>2. Matching(catalogue, tier, query) \in SUBSET Slugs(Release)
  BY <1>1 DEF Matching
<1>. QED BY <1>2, FewSlugs, FS_Subset, FS_CardinalityType

Found(c) == Cardinality(Matching(db, call[c].tier, call[c].query))

\* The rows of an answer are in the order of the sheet, and fill the page.
LEMMA RowsAreFirst ==
    ASSUME db \in Releases, NEW c, NEW features
    PROVE  /\ AreFirst(Rows(c, features), call[c].tier, call[c].query)
           /\ Found(c) \in Nat
           /\ Len(Rows(c, features)) = IF Limit < Found(c) THEN Limit ELSE Found(c)
<1>. DEFINE listing == Listing(db, call[c].tier, call[c].query)
            n == Found(c)
            m == IF Limit < n THEN Limit ELSE n
            first == FirstRows(listing, Limit)
            rows == Rows(c, features)
<1>1. n \in Nat
  BY FewMatch DEF Found
<1>2. listing \in Seq({listing[i] : i \in 1 .. n}) /\ Len(listing) = n
  <2>. DEFINE found == Matching(db, call[c].tier, call[c].query)
              place == [s \in found |-> db.problems[s].order_index]
              row(i) == CHOOSE s \in found :
                           Cardinality({t \in found : place[t] <= place[s]}) = i
  <2>1. listing = [i \in 1 .. n |-> row(i)]
    BY DEF Listing, InOrder, Found
  <2>. HIDE DEF listing, n, row
  <2>2. DOMAIN listing = 1 .. n /\ listing \in [1 .. n -> {listing[i] : i \in 1 .. n}]
    BY <2>1
  <2>. QED BY <1>1, <2>2
<1>3. m \in Nat /\ m <= n /\ first = SubSeq(listing, 1, m)
  BY <1>1, <1>2, PageAssumption DEF FirstRows
<1>4. rows = [i \in DOMAIN first |-> Summary(first[i], features)]
  BY DEF Rows
<1>. HIDE DEF listing, n, m, first
<1>5. first \in Seq({listing[i] : i \in 1 .. n}) /\ Len(first) = m
  BY <1>1, <1>3, SubSeqProperties
<1>6. SlugsOf(rows) = [i \in DOMAIN first |-> first[i]]
  BY <1>4 DEF SlugsOf, Summary
<1>7. AreFirst(rows, call[c].tier, call[c].query)
  <2>1. [i \in DOMAIN first |-> first[i]] = first
    BY <1>5
  <2>. QED BY <1>6, <2>1 DEF AreFirst, first, listing
<1>8. Len(rows) = m
  <2>1. rows = [i \in 1 .. m |-> Summary(first[i], features)]
    BY <1>4, <1>5
  <2>. HIDE DEF rows
  <2>2. DOMAIN rows = 1 .. m /\ rows \in [1 .. m -> {rows[i] : i \in 1 .. m}]
    BY <2>1
  <2>. QED BY <1>3, <2>2
<1>. QED BY <1>1, <1>7, <1>8 DEF m, n, rows

Made(stage, tier, query) ==
    [stage : {stage}, tier : {tier}, query : {query}, cancelled : {FALSE}, total : {0},
     items : {<< >>}]

\* A request that is made, and one that is not: they have no answer.
LEMMA NewCallsAreMade ==
    /\ NewCall \in Made("idle", 25, Null)
    /\ \A tier, query : [NewCall EXCEPT !.stage = "sent", !.tier = tier, !.query = query]
                            \in Made("sent", tier, query)
<1>1. NewCall \in Made("idle", 25, Null)
  BY DEF NewCall, Made
<1>. QED BY <1>1 DEF Made

LEMMA MadeIsTyped ==
    ASSUME NEW stage \in {"idle", "sent"}, NEW tier, NEW query,
           NEW b \in Made(stage, tier, query)
    PROVE  Typed(b) /\ b.stage = stage /\ b.tier = tier /\ b.query = query
  BY DEF Made, Typed

LEMMA ShownInvInit == Init => ShownInv
<1>. SUFFICES ASSUME Init PROVE ShownInv
  OBVIOUS
<1>1. PageInv
  BY DEF Init, PageInv
<1>2. DOMAIN call = 1 .. MaxCalls /\ \A c \in 1 .. MaxCalls : call[c] = NewCall
  BY DEF Init
<1>3. call = [c \in 1 .. MaxCalls |-> call[c]]
  BY DEF Init
<1>4. \A c \in 1 .. MaxCalls : CallInv(c)
  <2>1. Typed(NewCall) /\ NewCall.stage = "idle"
    BY NewCallsAreMade DEF Made, Typed
  <2>. QED BY <1>2, <2>1 DEF CallInv
<1>. QED BY <1>1, <1>2, <1>3, <1>4 DEF ShownInv

\* A request that a step leaves alone, when the filter that ran is the same.
LEMMA SameCall ==
    ASSUME NEW c \in 1 .. MaxCalls, CallInv(c), call'[c] = call[c], page'.ran = page.ran
    PROVE  CallInv(c)'
  BY DEF CallInv, Typed

LEMMA SamePage == PageInv /\ page' = page => PageInv'
  BY DEF PageInv

\* A step of one request, when the page stays as it is or shows its end.
LEMMA ServingKeepsShown ==
    ASSUME SeedInv, ShownInv, NEW c \in 1 .. MaxCalls, Serve(c)
    PROVE  ShownInv'
<1>. USE DEF ShownInv
<1>d. db \in Releases
  BY DEF SeedInv
<1>1. ASSUME NEW b, call' = [call EXCEPT ![c] = b]
      PROVE  /\ DOMAIN call' = 1 .. MaxCalls /\ call' = [o \in 1 .. MaxCalls |-> call'[o]]
             /\ call'[c] = b /\ \A o \in 1 .. MaxCalls : o # c => call'[o] = call[o]
  BY <1>1
<1>2. CASE Count(c)
  <2>1. call' = [call EXCEPT ![c] = [call[c] EXCEPT !.stage = "counted", !.total = Total(c)]]
    BY <1>2 DEF Count
  <2>2. PageInv' /\ page'.ran = page.ran
    BY <1>2, SamePage DEF Count
  <2>3. CallInv(c)'
    BY <1>1, <1>2, <2>1, <2>2 DEF Count, CallInv, Typed
  <2>. QED BY <1>1, <2>1, <2>2, <2>3, SameCall
<1>3. CASE Fetch(c)
  <2>1. PICK tier \in SubscriptionTier :
          call' = [call EXCEPT ![c] = [call[c] EXCEPT !.stage = "answered",
                                                      !.items = Rows(c, Features[tier])]]
    BY <1>3 DEF Fetch
  <2>2. PageInv' /\ page'.ran = page.ran
    BY <1>3, SamePage DEF Fetch
  <2>3. AreFirst(Rows(c, Features[tier]), call[c].tier, call[c].query)
    BY <1>d, RowsAreFirst
  <2>4. /\ call'[c].stage = "answered" /\ call'[c].items = Rows(c, Features[tier])
        /\ call'[c].tier = call[c].tier /\ call'[c].query = call[c].query
        /\ call'[c].cancelled = call[c].cancelled /\ call'[c].total = call[c].total
    <3>. DEFINE rows == Rows(c, Features[tier])
    <3>. HIDE DEF rows
    <3>1. Typed(call[c]) /\ call'[c] = [call[c] EXCEPT !.stage = "answered", !.items = rows]
      BY <1>1, <2>1 DEF CallInv, rows
    <3>2. /\ call'[c].stage = "answered" /\ call'[c].items = rows
          /\ call'[c].tier = call[c].tier /\ call'[c].query = call[c].query
          /\ call'[c].cancelled = call[c].cancelled /\ call'[c].total = call[c].total
      BY <3>1 DEF Typed
    <3>. QED BY <3>2 DEF rows
  <2>5. AreFirst(call'[c].items, call'[c].tier, call'[c].query)
    BY <2>3, <2>4
  <2>6. CallInv(c)'
    BY <1>1, <1>3, <2>1, <2>2, <2>4, <2>5 DEF Fetch, CallInv, Typed
  <2>. QED BY <1>1, <2>1, <2>2, <2>6, SameCall
<1>4. CASE Return(c) \/ Fail(c)
  <2>1. call' = [call EXCEPT ![c] = [NewCall EXCEPT !.stage = "over"]]
    BY <1>4 DEF Return, Fail
  <2>2. page'.ran = page.ran
    BY <1>4 DEF Return, Fail, PageInv
  <2>3. PageInv'
    <3>1. CASE call[c].cancelled
      BY <1>4, <3>1, SamePage DEF Return, Fail
    <3>2. CASE ~call[c].cancelled /\ Fail(c)
      BY <3>2 DEF Fail, PageInv
    <3>3. CASE ~call[c].cancelled /\ Return(c)
      <4>1. /\ page' = [page EXCEPT !.problems = call[c].items, !.offline = FALSE,
                                    !.loading = FALSE]
            /\ AreFirst(call[c].items, page.ran.tier, page.ran.query)
        BY <3>3 DEF Return, CallInv
      <4>2. AreFirst(page'.problems, page'.ran.tier, page'.ran.query)
        BY <2>2, <4>1 DEF PageInv
      <4>. QED BY <4>1, <4>2 DEF PageInv
    <3>. QED BY <1>4, <3>1, <3>2, <3>3
  <2>4. CallInv(c)'
    BY <1>1, <2>1 DEF CallInv, Typed, NewCall
  <2>. QED BY <1>1, <2>1, <2>2, <2>3, <2>4, SameCall
<1>. QED BY <1>2, <1>3, <1>4 DEF Serve

\* The effect cancels the requests of the filter that was left.
LEMMA EffectKeepsShown ==
    ASSUME ShownInv, NEW c \in 1 .. MaxCalls, Effect(c)
    PROVE  ShownInv'
<1>. USE DEF ShownInv
<1>. DEFINE b == [NewCall EXCEPT !.stage = "sent", !.tier = page.filter.tier,
                                 !.query = page.filter.query]
<1>1. call' = [CancelOthers EXCEPT ![c] = b]
  BY DEF Effect
<1>2. /\ DOMAIN call' = 1 .. MaxCalls /\ call' = [o \in 1 .. MaxCalls |-> call'[o]]
      /\ call'[c] = b /\ \A o \in 1 .. MaxCalls : o # c => call'[o] = CancelOthers[o]
  BY <1>1 DEF CancelOthers
<1>3. page'.ran = page.filter /\ page'.loading = TRUE /\ PageInv'
  BY DEF Effect, PageInv
<1>4. CallInv(c)'
  <2>1. /\ Typed(b) /\ b.stage = "sent"
        /\ b.tier = page.filter.tier /\ b.query = page.filter.query
    <3>1. b \in Made("sent", page.filter.tier, page.filter.query)
      BY NewCallsAreMade
    <3>. HIDE DEF b
    <3>. QED BY <3>1, MadeIsTyped
  <2>. HIDE DEF b
  <2>2. Typed(call[c])'
    BY <1>2, <2>1 DEF Typed
  <2>. QED BY <1>2, <1>3, <2>1, <2>2 DEF CallInv
<1>5. ASSUME NEW o \in 1 .. MaxCalls, o # c PROVE CallInv(o)'
  <2>1. CASE call[o].stage \in {"idle", "over"}
    <3>1. call'[o] = call[o]
      BY <1>2, <1>5, <2>1 DEF CancelOthers
    <3>. QED BY <2>1, <3>1 DEF CallInv, Typed
  <2>2. CASE call[o].stage \notin {"idle", "over"}
    <3>1. call'[o] = [call[o] EXCEPT !.cancelled = TRUE]
      BY <1>2, <1>5, <2>2 DEF CancelOthers
    <3>2. /\ call'[o].stage = call[o].stage /\ call'[o].items = call[o].items
          /\ call'[o].tier = call[o].tier /\ call'[o].query = call[o].query
          /\ call'[o].cancelled = TRUE /\ call'[o].total = call[o].total
      BY <3>1 DEF CallInv, Typed
    <3>3. call'[o].stage = "answered" =>
             AreFirst(call'[o].items, call'[o].tier, call'[o].query)
      BY <3>2 DEF CallInv, Typed
    <3>. QED BY <3>1, <3>2, <3>3 DEF CallInv, Typed
  <2>. QED BY <2>1, <2>2
<1>. QED BY <1>2, <1>3, <1>4, <1>5

LEMMA ShownInvNext == SeedInv /\ ShownInv /\ [Next]_vars => ShownInv'
<1>. SUFFICES ASSUME SeedInv, ShownInv, [Next]_vars PROVE ShownInv'
  OBVIOUS
<1>1. ASSUME UNCHANGED <<page, call>> PROVE ShownInv'
  BY <1>1, SamePage, SameCall DEF ShownInv
<1>2. CASE \E filter \in Filter : SetFilter(filter)
  <2>1. PICK filter \in Filter : page' = [page EXCEPT !.filter = filter] /\ call' = call
    BY <1>2 DEF SetFilter
  <2>2. PageInv' /\ page'.ran = page.ran
    BY <2>1 DEF ShownInv, PageInv
  <2>. QED BY <2>1, <2>2, SameCall DEF ShownInv
<1>3. CASE \E c \in 1 .. MaxCalls : Effect(c) \/ Serve(c)
  BY <1>3, ServingKeepsShown, EffectKeepsShown
<1>4. CASE \E r \in Runs : (Seeding(r) \/ CrashSeed(r)) /\ UNCHANGED <<page, call>>
  BY <1>1, <1>4
<1>. QED BY <1>1, <1>2, <1>3, <1>4 DEF Next, vars

(***************************************************************************)
(* Rows that are not behind the skeleton are those of the filter that is   *)
(* set, in whatever order the answers come: ProblemSheetPage cancels what  *)
(* it no longer waits for, and an answer is of one committed release.      *)
(***************************************************************************)
THEOREM RowsAreOfTheFilter == Spec => []ShownIsAsked
<1>1. ShownInv => ShownIsAsked
  BY DEF ShownInv, PageInv, ShownIsAsked, AreFirst, SlugsOf
<1>. QED BY <1>1, SeedInvInit, SeedInvNext, ShownInvInit, ShownInvNext, PTL DEF Spec
-----------------------------------------------------------------------------
Bound(tier) == IF tier \in SHEET_TIERS THEN tier ELSE 150

\* Each problem has its place.
LEMMA RowsAreInOrder ==
    ASSUME db \in Releases
    PROVE  /\ IsFiniteSet(DOMAIN db.problems)
           /\ \A s, t \in DOMAIN db.problems :
                /\ db.problems[s].order_index \in Int /\ db.problems[s].sheet_tier \in Int
                /\ db.problems[s].order_index = db.problems[t].order_index => s = t
<1>1. IsFiniteSet(DOMAIN db.problems)
  <2>1. DOMAIN db.problems \in SUBSET Slugs(Release)
    BY CatalogueAssumption DEF Releases, Empty, Published
  <2>. QED BY <2>1, FewSlugs, FS_Subset
<1>2. CASE db = Empty
  BY <1>1, <1>2 DEF Empty
<1>3. ASSUME NEW release \in {Earlier, Release}, db = Published(release),
             NEW s \in DOMAIN db.problems, NEW t \in DOMAIN db.problems
      PROVE  /\ db.problems[s].order_index \in Int /\ db.problems[s].sheet_tier \in Int
             /\ db.problems[s].order_index = db.problems[t].order_index => s = t
  <2>1. s \in Slugs(release) /\ t \in Slugs(release)
    BY <1>3 DEF Published
  <2>2. ASSUME NEW u \in Slugs(release)
        PROVE  /\ db.problems[u].order_index = Problem(release, u).order_index
               /\ db.problems[u].sheet_tier = Problem(release, u).sheet_tier
    BY <1>3 DEF Published, Columns
  <2>. QED BY <2>1, <2>2, SheetAssumption
<1>. QED BY <1>1, <1>2, <1>3 DEF Releases

\* A listing is another with the rows above some tier left out and none moved.
LeavesOut(part, whole, bound) ==
    /\ Range(part) \subseteq Range(whole)
    /\ \A s \in Range(whole) \ Range(part) : db.problems[s].sheet_tier > bound
    /\ \A i, j \in DOMAIN part : i < j =>
          \E k, l \in DOMAIN whole : k < l /\ whole[k] = part[i] /\ whole[l] = part[j]

LEMMA SmallerSheetIsNested ==
    ASSUME db \in Releases, NEW query, NEW small, NEW large,
           Bound(small) \in Int, Bound(large) \in Int, Bound(small) <= Bound(large)
    PROVE  LeavesOut(Listing(db, small, query), Listing(db, large, query), Bound(small))
<1>. DEFINE S == Matching(db, large, query)
            T == Matching(db, small, query)
            place == [s \in S |-> db.problems[s].order_index]
            placed == [s \in T |-> db.problems[s].order_index]
            whole == Listing(db, large, query)
            part == Listing(db, small, query)
            n == Cardinality(S)
            m == Cardinality(T)
<1>r. \A s, t \in DOMAIN db.problems :
         /\ db.problems[s].order_index \in Int /\ db.problems[s].sheet_tier \in Int
         /\ db.problems[s].order_index = db.problems[t].order_index => s = t
  BY RowsAreInOrder
<1>1. S \in SUBSET DOMAIN db.problems /\ T \in SUBSET S
  BY <1>r DEF Matching, InSheet, Bound
<1>2. IsFiniteSet(S) /\ IsFiniteSet(T)
  BY <1>1, RowsAreInOrder, FS_Subset
<1>3. /\ place \in Placings(S) /\ placed \in Placings(T)
      /\ \A t \in T : placed[t] = place[t]
  BY <1>1, <1>r DEF Placings
<1>4. \A s \in S \ T : db.problems[s].sheet_tier > Bound(small)
  BY <1>1, <1>r DEF Matching, InSheet, Bound
<1>5. whole = InOrder(S, place) /\ part = InOrder(T, placed)
  BY DEF Listing
<1>. HIDE DEF S, T, place, placed, whole, part, n, m
<1>6. /\ whole \in Bijection(1 .. n, S)
      /\ \A k, l \in 1 .. n : k < l => place[whole[k]] < place[whole[l]]
  BY <1>2, <1>3, <1>5, InOrderIsRanked DEF n
<1>7. /\ part \in Bijection(1 .. m, T)
      /\ \A i, j \in 1 .. m : i < j => placed[part[i]] < placed[part[j]]
  BY <1>2, <1>3, <1>5, InOrderIsRanked DEF m
<1>8. /\ DOMAIN whole = 1 .. n /\ Range(whole) = S
      /\ DOMAIN part = 1 .. m /\ Range(part) = T
  BY <1>6, <1>7 DEF Bijection, Injection, Surjection, Range
<1>9. ASSUME NEW i \in DOMAIN part, NEW j \in DOMAIN part, i < j
      PROVE  \E k, l \in DOMAIN whole : k < l /\ whole[k] = part[i] /\ whole[l] = part[j]
  <2>1. part[i] \in T /\ part[j] \in T /\ place[part[i]] < place[part[j]]
    BY <1>3, <1>7, <1>8, <1>9 DEF Bijection, Injection
  <2>2. PICK k \in 1 .. n, l \in 1 .. n : whole[k] = part[i] /\ whole[l] = part[j]
    BY <1>1, <1>6, <2>1 DEF Bijection, Surjection
  <2>3. place[part[i]] \in Int /\ place[part[j]] \in Int
    BY <1>1, <1>3, <2>1 DEF Placings
  <2>4. Cardinality(S) \in Nat
    BY <1>2, FS_CardinalityType
  <2>5. ~(l < k) /\ l # k
    BY <1>6, <2>1, <2>2, <2>3
  <2>. QED BY <1>8, <2>2, <2>4, <2>5 DEF n
<1>. QED BY <1>1, <1>4, <1>8, <1>9 DEF LeavesOut, part, whole

(***************************************************************************)
(* A smaller sheet is a larger one with the problems of larger tiers left  *)
(* out and none moved, for every tier and every search, at every moment of *)
(* a seed: list_problems orders by a place that no two problems share, and *)
(* sees one release at a time.                                             *)
(***************************************************************************)
THEOREM SheetsAreNested == Spec => []TiersAreNested
<1>1. SeedInv => TiersAreNested
  <2>. SUFFICES ASSUME SeedInv, NEW query \in Queries,
                       NEW pair \in {<<25, 75>>, <<75, 150>>, <<150, 0>>}
                PROVE  LeavesOut(Listing(db, pair[1], query), Listing(db, pair[2], query), pair[1])
    BY DEF TiersAreNested, LeavesOut
  <2>. DEFINE small == pair[1]
              large == pair[2]
  <2>1. db \in Releases
    BY DEF SeedInv
  <2>2. /\ Bound(small) = small /\ Bound(small) \in Int /\ Bound(large) \in Int
        /\ Bound(small) <= Bound(large)
    BY DEF Bound, SHEET_TIERS
  <2>. HIDE DEF small, large
  <2>3. LeavesOut(Listing(db, small, query), Listing(db, large, query), small)
    BY <2>1, <2>2, SmallerSheetIsNested
  <2>. QED BY <2>3 DEF small, large
<1>. QED BY <1>1, SeedInvInit, SeedInvNext, PTL DEF Spec
-----------------------------------------------------------------------------
\* The rows of an answer are as many as were counted, or a page full.
TotalInv(c) ==
    /\ call[c].tier \in Tiers \cup {25} /\ call[c].query \in Queries \cup {Null}
    /\ call[c].total \in Nat
    /\ call[c].stage = "counted" => call[c].total <= Found(c)
    /\ call[c].stage = "answered" =>
          Len(call[c].items) >= IF call[c].total < Limit THEN call[c].total ELSE Limit

CountsInv ==
    /\ page.filter \in Asked
    /\ \A c \in 1 .. MaxCalls : TotalInv(c)

LEMMA SheetGrows ==
    ASSUME NothingIsWithdrawn, SeedInv, [Next]_vars, NEW filter \in Asked
    PROVE  Cardinality(Matching(db, filter.tier, filter.query))
             <= Cardinality(Matching(db', filter.tier, filter.query))
<1>. DEFINE count(catalogue) == Cardinality(Matching(catalogue, filter.tier, filter.query))
<1>1. count(db) \in Nat /\ count(Published(Release)) \in Nat
  BY FewMatch DEF SeedInv, Releases
<1>2. db' = db \/ db' = Published(Release)
  <2>1. ASSUME NEW r \in Runs, Seeding(r) PROVE db' = db \/ db' = Published(Release)
    BY <2>1, CommitPublishes DEF Seeding, SeedComponents, LookUp, Flush
  <2>. QED BY <2>1 DEF Next, vars, CrashSeed, SetFilter, Effect, Serve, Count, Fetch, Return, Fail
<1>3. count(db) <= count(Published(Release))
  <2>1. CASE db = Empty
    <3>1. Matching(db, filter.tier, filter.query) = {}
      BY <2>1 DEF Matching, Empty
    <3>. QED BY <1>1, <3>1, FS_EmptySet
  <2>2. CASE db = Published(Earlier)
    BY <2>2 DEF NothingIsWithdrawn
  <2>3. CASE db = Published(Release)
    BY <1>1, <2>3
  <2>. QED BY <2>1, <2>2, <2>3 DEF SeedInv, Releases
<1>. QED BY <1>1, <1>2, <1>3

LEMMA CountsInvInit == Init => CountsInv
<1>. SUFFICES ASSUME Init PROVE CountsInv
  OBVIOUS
<1>1. page.filter \in Asked
  BY DEF Init, Asked
<1>2. ASSUME NEW c \in 1 .. MaxCalls PROVE TotalInv(c)
  <2>1. call[c] = NewCall
    BY DEF Init
  <2>. QED BY <2>1 DEF NewCall, TotalInv
<1>. QED BY <1>1, <1>2 DEF CountsInv

\* A request that a step leaves alone, when the sheet does not shrink.
LEMMA SameTotal ==
    ASSUME NothingIsWithdrawn, SeedInv, [Next]_vars, NEW c \in 1 .. MaxCalls, TotalInv(c),
           call'[c].stage = call[c].stage, call'[c].tier = call[c].tier,
           call'[c].query = call[c].query, call'[c].total = call[c].total,
           call'[c].items = call[c].items
    PROVE  TotalInv(c)'
<1>. DEFINE filter == [tier |-> call[c].tier, query |-> call[c].query]
<1>1. filter \in Asked
  BY DEF Asked, TotalInv
<1>2. /\ Found(c) = Cardinality(Matching(db, filter.tier, filter.query))
      /\ Found(c)' = Cardinality(Matching(db', filter.tier, filter.query))
  BY DEF Found
<1>. HIDE DEF filter
<1>3. Found(c) <= Found(c)'
  BY <1>1, <1>2, SheetGrows
<1>4. Found(c) \in Nat /\ Found(c)' \in Nat
  <2>1. db \in Releases /\ db' \in Releases
    BY SeedInvNext DEF SeedInv, Releases
  <2>. QED BY <1>2, <2>1, FewMatch
<1>. QED BY <1>3, <1>4 DEF TotalInv

LEMMA ServingKeepsCounts ==
    ASSUME NothingIsWithdrawn, SeedInv, ShownInv, CountsInv, Next,
           NEW c \in 1 .. MaxCalls, Serve(c)
    PROVE  \A o \in 1 .. MaxCalls : TotalInv(o)'
<1>q. Typed(call[c]) /\ TotalInv(c) /\ db \in Releases
  BY DEF ShownInv, CallInv, SeedInv, CountsInv
<1>0. ASSUME NEW b, call' = [call EXCEPT ![c] = b], TotalInv(c)'
      PROVE  \A o \in 1 .. MaxCalls : TotalInv(o)'
  <2>1. ASSUME NEW o \in 1 .. MaxCalls, o # c PROVE TotalInv(o)'
    BY <1>0, <2>1, SameTotal DEF ShownInv, CountsInv
  <2>. QED BY <1>0, <2>1
<1>1. CASE Count(c)
  <2>. DEFINE n == Total(c)
              b == [call[c] EXCEPT !.stage = "counted", !.total = n]
  <2>1. call' = [call EXCEPT ![c] = b] /\ db' = db
    BY <1>1 DEF Count
  <2>2. n = Found(c) /\ n \in Nat
    BY <1>q, RowsAreFirst DEF Total, Found
  <2>. HIDE DEF n
  <2>3. call'[c] = b
    BY <2>1 DEF ShownInv
  <2>4. /\ call'[c].stage = "counted" /\ call'[c].total = n
        /\ call'[c].tier = call[c].tier /\ call'[c].query = call[c].query
    BY <1>q, <2>3 DEF Typed
  <2>5. Found(c)' = Found(c)
    BY <2>1, <2>4 DEF Found
  <2>6. TotalInv(c)'
    BY <1>q, <2>2, <2>4, <2>5 DEF TotalInv
  <2>. QED BY <1>0, <2>1, <2>6
<1>2. CASE Fetch(c)
  <2>1. PICK tier \in SubscriptionTier :
          call' = [call EXCEPT ![c] = [call[c] EXCEPT !.stage = "answered",
                                                      !.items = Rows(c, Features[tier])]]
    BY <1>2 DEF Fetch
  <2>. DEFINE rows == Rows(c, Features[tier])
              b == [call[c] EXCEPT !.stage = "answered", !.items = rows]
  <2>2. Found(c) \in Nat /\ Len(rows) = IF Limit < Found(c) THEN Limit ELSE Found(c)
    BY <1>q, RowsAreFirst
  <2>3. call' = [call EXCEPT ![c] = b]
    BY <2>1
  <2>. HIDE DEF rows
  <2>4. call'[c] = b
    BY <2>3 DEF ShownInv
  <2>5. /\ call'[c].stage = "answered" /\ call'[c].total = call[c].total
        /\ call'[c].tier = call[c].tier /\ call'[c].query = call[c].query
        /\ call'[c].items = rows
    BY <1>q, <2>4 DEF Typed
  <2>6. call[c].total <= Found(c) /\ call[c].total \in Nat
    BY <1>2, <1>q DEF Fetch, TotalInv
  <2>7. Len(rows) >= IF call[c].total < Limit THEN call[c].total ELSE Limit
    BY <2>2, <2>6, PageAssumption
  <2>8. TotalInv(c)'
    BY <1>q, <2>5, <2>7 DEF TotalInv
  <2>. QED BY <1>0, <2>3, <2>8
<1>3. CASE Return(c) \/ Fail(c)
  <2>. DEFINE b == [NewCall EXCEPT !.stage = "over"]
  <2>1. call' = [call EXCEPT ![c] = b]
    BY <1>3 DEF Return, Fail
  <2>2. call'[c] = b
    BY <2>1 DEF ShownInv
  <2>3. /\ call'[c].stage = "over" /\ call'[c].total = 0
        /\ call'[c].tier = 25 /\ call'[c].query = Null
    BY <2>2 DEF NewCall
  <2>4. TotalInv(c)'
    BY <2>3 DEF TotalInv
  <2>. QED BY <1>0, <2>1, <2>4
<1>. QED BY <1>1, <1>2, <1>3 DEF Serve

LEMMA CountsInvNext ==
    NothingIsWithdrawn /\ SeedInv /\ ShownInv /\ CountsInv /\ [Next]_vars => CountsInv'
<1>. SUFFICES ASSUME NothingIsWithdrawn, SeedInv, ShownInv, CountsInv, [Next]_vars
              PROVE  CountsInv'
  OBVIOUS
<1>1. CASE call' = call
  <2>1. \A c \in 1 .. MaxCalls : TotalInv(c)'
    BY <1>1, SameTotal DEF CountsInv
  <2>2. page'.filter \in Asked
    <3>1. CASE \E filter \in Filter : SetFilter(filter)
      BY <3>1 DEF SetFilter, Filter, Asked, ShownInv, PageInv
    <3>2. CASE page' = page
      BY <3>2 DEF CountsInv
    <3>3. CASE \E c \in 1 .. MaxCalls : Effect(c)
      BY <3>3 DEF Effect, ShownInv, PageInv, CountsInv
    <3>4. CASE \E c \in 1 .. MaxCalls : Serve(c)
      BY <3>4 DEF Serve, Count, Fetch, Return, Fail, ShownInv, PageInv, CountsInv
    <3>. QED BY <3>1, <3>2, <3>3, <3>4 DEF Next, vars
  <2>. QED BY <2>1, <2>2 DEF CountsInv
<1>2. CASE \E c \in 1 .. MaxCalls : Serve(c)
  <2>1. page'.filter = page.filter
    BY <1>2 DEF Serve, Count, Fetch, Return, Fail, ShownInv, PageInv
  <2>2. CASE call' # call
    BY <1>2, <2>1, <2>2, ServingKeepsCounts DEF CountsInv, vars
  <2>. QED BY <1>1, <2>2
<1>3. CASE \E c \in 1 .. MaxCalls : Effect(c)
  <2>1. PICK c \in 1 .. MaxCalls : Effect(c)
    BY <1>3
  <2>. DEFINE b == [NewCall EXCEPT !.stage = "sent", !.tier = page.filter.tier,
                                   !.query = page.filter.query]
  <2>2. page'.filter = page.filter /\ page.filter \in Asked
    BY <2>1 DEF Effect, ShownInv, PageInv, CountsInv
  <2>3. /\ call'[c] = b
        /\ \A o \in 1 .. MaxCalls : o # c => call'[o] = CancelOthers[o]
    BY <2>1 DEF Effect, CancelOthers
  <2>4. b \in Made("sent", page.filter.tier, page.filter.query)
    BY NewCallsAreMade
  <2>. HIDE DEF b
  <2>5. TotalInv(c)'
    <3>1. /\ call'[c].stage = "sent" /\ call'[c].total = 0
          /\ call'[c].tier = page.filter.tier /\ call'[c].query = page.filter.query
      BY <2>3, <2>4 DEF Made
    <3>. QED BY <2>2, <3>1 DEF TotalInv, Asked
  <2>6. ASSUME NEW o \in 1 .. MaxCalls, o # c PROVE TotalInv(o)'
    <3>1. call'[o] = call[o] \/ call'[o] = [call[o] EXCEPT !.cancelled = TRUE]
      BY <2>3, <2>6 DEF CancelOthers
    <3>2. /\ call'[o].stage = call[o].stage /\ call'[o].items = call[o].items
          /\ call'[o].tier = call[o].tier /\ call'[o].query = call[o].query
          /\ call'[o].total = call[o].total
      BY <3>1 DEF ShownInv, CallInv, Typed
    <3>. QED BY <3>2, SameTotal DEF CountsInv
  <2>. QED BY <2>2, <2>5, <2>6 DEF CountsInv
<1>. QED BY <1>1, <1>2, <1>3 DEF Next, vars, SetFilter

(***************************************************************************)
(* A client that follows the pages until it has as many rows as were       *)
(* counted gets there, when a new release takes nothing out of what a      *)
(* filter finds: between the count of list_problems and its rows the seed  *)
(* may commit, and the sheet only grows.                                   *)
(***************************************************************************)
THEOREM PagesReachTheirTotal == ASSUME NothingIsWithdrawn PROVE Spec => []PageReachesTotal
<1>1. CountsInv => PageReachesTotal
  BY DEF CountsInv, TotalInv, PageReachesTotal
<1>. QED
  BY <1>1, SeedInvInit, SeedInvNext, ShownInvInit, ShownInvNext, CountsInvInit, CountsInvNext,
     PTL DEF Spec
-----------------------------------------------------------------------------
Specs == {UrlShortener, RateLimiter, NewsFeed, ChatApplication, VideoStreamingPlatform,
          NotificationSystem}

\* What the sheet that is seeded is: six problems of the smallest sheet, in order.
LEMMA SpecsAreSheet ==
    /\ Range(HLD_PROBLEMS) = Specs
    /\ \A x \in Specs : x.sheet_tier = 25 /\ x.order_index \in 1 .. 6
    /\ \A x, y \in Specs : x.slug = y.slug \/ x.order_index = y.order_index => x = y
<1>1. Range(HLD_PROBLEMS) = Specs
  BY DEF Range, HLD_PROBLEMS, Specs
<1>2. \A x \in Specs : x.sheet_tier = 25 /\ x.order_index \in 1 .. 6
  BY DEF Specs, UrlShortener, RateLimiter, NewsFeed, ChatApplication,
         VideoStreamingPlatform, NotificationSystem
<1>3. \A x, y \in Specs : x.slug = y.slug \/ x.order_index = y.order_index => x = y
  <2>1. /\ UrlShortener.order_index = 1 /\ UrlShortener.slug = "design-a-url-shortener"
        /\ RateLimiter.order_index = 2 /\ RateLimiter.slug = "design-a-rate-limiter"
        /\ NewsFeed.order_index = 3 /\ NewsFeed.slug = "design-a-news-feed"
        /\ ChatApplication.order_index = 4
        /\ ChatApplication.slug = "design-a-chat-application"
        /\ VideoStreamingPlatform.order_index = 5
        /\ VideoStreamingPlatform.slug = "design-a-video-streaming-platform"
        /\ NotificationSystem.order_index = 6
        /\ NotificationSystem.slug = "design-a-notification-system"
    BY DEF UrlShortener, RateLimiter, NewsFeed, ChatApplication,
           VideoStreamingPlatform, NotificationSystem
  <2>. QED BY <2>1 DEF Specs
<1>. QED BY <1>1, <1>2, <1>3

\* The rows of the catalogue when the repository's own release is published.
LEMMA SpecsAreRows ==
    ASSUME CopiesAreOfTheRelease, db = Published(Release)
    PROVE  /\ db.palette = COMPONENTS
           /\ DOMAIN db.problems = {x.slug : x \in Specs}
           /\ \A x \in Specs : db.problems[x.slug] = Columns(x)
<1>1. Range(Release.sheet) = Specs /\ Slugs(Release) = {x.slug : x \in Specs}
  BY SpecsAreSheet DEF CopiesAreOfTheRelease, Slugs
<1>2. ASSUME NEW x \in Specs PROVE Problem(Release, x.slug) = x
  BY <1>1, SpecsAreSheet DEF Problem
<1>3. db.palette = [kind \in DOMAIN COMPONENTS |-> COMPONENTS[kind]]
  BY DEF Published, CopiesAreOfTheRelease
<1>4. COMPONENTS = [kind \in DOMAIN COMPONENTS |-> COMPONENTS[kind]]
  BY DEF COMPONENTS
<1>5. db.problems = [s \in Slugs(Release) |-> Columns(Problem(Release, s))]
  BY DEF Published
<1>. QED BY <1>1, <1>2, <1>3, <1>4, <1>5

LEMMA SheetBegins ==
    ASSUME CopiesAreOfTheRelease, db = Published(Release)
    PROVE  /\ Listing(db, 25, Null)[1] = UrlShortener.slug
           /\ Listing(db, 25, Null)[2] = RateLimiter.slug
           /\ Listing(db, 25, Null)[3] = NewsFeed.slug
<1>. DEFINE S == Matching(db, 25, Null)
            place == [s \in S |-> db.problems[s].order_index]
            one == UrlShortener.slug
            two == RateLimiter.slug
            three == NewsFeed.slug
<1>0. /\ DOMAIN db.problems = {x.slug : x \in Specs}
      /\ \A x \in Specs : /\ db.problems[x.slug].sheet_tier = 25
                          /\ db.problems[x.slug].order_index = x.order_index
  <2>1. \A x : Columns(x).sheet_tier = x.sheet_tier /\ Columns(x).order_index = x.order_index
    BY DEF Columns
  <2>. QED BY <2>1, SpecsAreRows, SpecsAreSheet
<1>1. S = {x.slug : x \in Specs}
  <2>1. S = {s \in DOMAIN db.problems : db.problems[s].sheet_tier <= 25}
    BY DEF Matching, InSheet, SHEET_TIERS
  <2>. QED BY <1>0, <2>1
<1>2. \A x \in Specs : place[x.slug] = x.order_index
  BY <1>0, <1>1
<1>3. IsFiniteSet(S)
  <2>1. DOMAIN db.problems = Slugs(Release)
    BY DEF Published
  <2>2. S \in SUBSET Slugs(Release)
    BY <2>1 DEF Matching
  <2>. QED BY <2>2, FewSlugs, FS_Subset
<1>4. Listing(db, 25, Null) = InOrder(S, place)
  BY DEF Listing
<1>5. place = [s \in S |-> place[s]]
  OBVIOUS
<1>6. /\ UrlShortener \in Specs /\ RateLimiter \in Specs /\ NewsFeed \in Specs
      /\ UrlShortener.order_index = 1 /\ RateLimiter.order_index = 2
      /\ NewsFeed.order_index = 3
  BY DEF Specs, UrlShortener, RateLimiter, NewsFeed
<1>. HIDE DEF S, place, one, two, three
<1>7. place \in Placings(S)
  BY <1>1, <1>2, <1>5, SpecsAreSheet DEF Placings
<1>8. /\ one \in S /\ two \in S /\ three \in S
      /\ place[one] = 1 /\ place[two] = 2 /\ place[three] = 3
  BY <1>1, <1>2, <1>6 DEF one, two, three
<1>9. \A s \in S : place[s] \in 1 .. 6
  BY <1>1, <1>2, SpecsAreSheet
<1>10. \A s, t \in S : place[s] = place[t] => s = t
  BY <1>7 DEF Placings
<1>11. /\ Cardinality({}) = 0 /\ Cardinality({one}) = 1 /\ Cardinality({one, two}) = 2
  <2>1. one # two
    BY <1>8
  <2>2. Cardinality({}) = 0 /\ IsFiniteSet({one}) /\ Cardinality({one}) = 1
    BY FS_EmptySet, FS_Singleton
  <2>3. Cardinality({one} \cup {two}) = 2
    <3>1. ASSUME NEW T, IsFiniteSet(T), NEW x, x \notin T
          PROVE  Cardinality(T \cup {x}) = Cardinality(T) + 1
      BY <3>1, FS_AddElement
    <3>2. two \notin {one}
      BY <2>1
    <3>3. Cardinality({one} \cup {two}) = Cardinality({one}) + 1
      BY <2>2, <3>1, <3>2, Zenon
    <3>. QED BY <2>2, <3>3
  <2>4. {one} \cup {two} = {one, two}
    OBVIOUS
  <2>. QED BY <2>2, <2>3, <2>4
<1>12. InOrder(S, place)[Cardinality({}) + 1] = one
  <2>1. \A u \in S \ ({} \cup {one}) : place[one] < place[u]
    BY <1>8, <1>9, <1>10
  <2>. QED BY <1>3, <1>7, <1>8, <2>1, NextInOrder
<1>13. InOrder(S, place)[Cardinality({one}) + 1] = two
  <2>1. /\ \A u \in S \ ({one} \cup {two}) : place[two] < place[u]
        /\ \A t \in {one} : place[t] < place[two]
        /\ {one} \in SUBSET S /\ two \in S \ {one}
    BY <1>8, <1>9, <1>10
  <2>. QED BY <1>3, <1>7, <2>1, NextInOrder
<1>14. InOrder(S, place)[Cardinality({one, two}) + 1] = three
  <2>1. /\ \A u \in S \ ({one, two} \cup {three}) : place[three] < place[u]
        /\ \A t \in {one, two} : place[t] < place[three]
        /\ {one, two} \in SUBSET S /\ three \in S \ {one, two}
    BY <1>8, <1>9, <1>10
  <2>. QED BY <1>3, <1>7, <2>1, NextInOrder
<1>. QED BY <1>4, <1>11, <1>12, <1>13, <1>14 DEF one, two, three

\* What an anonymous visitor is shown of a problem, in the sheet and on its page.
Shown(x) ==
    [slug |-> x.slug, title |-> x.title, difficulty |-> x.difficulty,
     estimated_minutes |-> x.estimated_minutes, sheet_tier |-> x.sheet_tier,
     is_premium |-> ~x.is_free_preview, is_locked |-> ~x.is_free_preview]

Told(x) ==
    [slug |-> x.slug, title |-> x.title, difficulty |-> x.difficulty,
     estimated_minutes |-> x.estimated_minutes, is_locked |-> ~x.is_free_preview]

LEMMA VisitorsAreShown ==
    ASSUME CopiesAreOfTheRelease, db = Published(Release), NEW x \in Specs
    PROVE  Summary(x.slug, Free) = Shown(x) /\ Detail(x.slug, Free) = Told(x)
<1>1. db.problems[x.slug] = Columns(x)
  BY SpecsAreRows
<1>2. x.is_free_preview \in BOOLEAN
  <2>1. /\ UrlShortener.is_free_preview = TRUE /\ RateLimiter.is_free_preview = TRUE
        /\ NewsFeed.is_free_preview = FALSE /\ ChatApplication.is_free_preview = FALSE
        /\ VideoStreamingPlatform.is_free_preview = FALSE
        /\ NotificationSystem.is_free_preview = FALSE
    BY DEF UrlShortener, RateLimiter, NewsFeed, ChatApplication,
           VideoStreamingPlatform, NotificationSystem
  <2>. QED BY <2>1 DEF Specs
<1>3. /\ Columns(x).title = x.title /\ Columns(x).difficulty = x.difficulty
      /\ Columns(x).estimated_minutes = x.estimated_minutes
      /\ Columns(x).sheet_tier = x.sheet_tier
      /\ Columns(x).is_premium = ~x.is_free_preview
      /\ Columns(x).is_free_preview = x.is_free_preview
  BY DEF Columns
<1>4. /\ LockedInList(Columns(x), Free) = ~x.is_free_preview
      /\ LockedInDetail(Columns(x), Free) = ~x.is_free_preview
  BY <1>2, <1>3 DEF LockedInList, LockedInDetail, Free
<1>. QED BY <1>1, <1>3, <1>4 DEF Summary, Detail, Shown, Told

Relabelled(palette) ==
    [palette EXCEPT !["config_service"] = <<"Config / Flags", @[2]>>,
                    !["custom"] = <<"Custom", @[2]>>]

\* The kinds of component that have one label in both palettes.
Alike ==
    {"client", "web_app", "mobile_app", "dns", "cdn", "load_balancer",
     "api_gateway", "reverse_proxy", "rate_limiter", "app_server", "microservice",
     "worker", "cron", "sql_database", "nosql_database", "read_replica", "cache",
     "object_storage", "search_index", "data_warehouse", "message_queue",
     "event_stream", "pub_sub", "auth_service", "monitoring", "logging"}

\* The two palettes, kind by kind.
LEMMA LabelsAreLiteral == FALLBACK_PALETTE = Relabelled(COMPONENTS)
<1>1. /\ DOMAIN COMPONENTS = Alike \cup {"config_service", "custom"}
      /\ DOMAIN FALLBACK_PALETTE = Alike \cup {"config_service", "custom"}
  BY DEF COMPONENTS, FALLBACK_PALETTE, Alike
<1>2. FALLBACK_PALETTE = [kind \in DOMAIN FALLBACK_PALETTE |-> FALLBACK_PALETTE[kind]]
  BY DEF FALLBACK_PALETTE
<1>3. /\ FALLBACK_PALETTE["config_service"] = <<"Config / Flags", COMPONENTS["config_service"][2]>>
      /\ FALLBACK_PALETTE["custom"] = <<"Custom", COMPONENTS["custom"][2]>>
  BY DEF COMPONENTS, FALLBACK_PALETTE
<1>. DEFINE Same(kind) == FALLBACK_PALETTE[kind] = COMPONENTS[kind]
<1>4. /\ Same("client") /\ Same("web_app") /\ Same("mobile_app") /\ Same("dns")
      /\ Same("cdn") /\ Same("load_balancer") /\ Same("api_gateway")
      /\ Same("reverse_proxy") /\ Same("rate_limiter") /\ Same("app_server")
      /\ Same("microservice") /\ Same("worker") /\ Same("cron")
      /\ Same("sql_database") /\ Same("nosql_database") /\ Same("read_replica")
      /\ Same("cache") /\ Same("object_storage") /\ Same("search_index")
      /\ Same("data_warehouse") /\ Same("message_queue") /\ Same("event_stream")
      /\ Same("pub_sub") /\ Same("auth_service") /\ Same("monitoring")
      /\ Same("logging")
  BY DEF COMPONENTS, FALLBACK_PALETTE
<1>. HIDE DEF Same
<1>5. \A kind \in Alike : Same(kind)
  BY <1>4 DEF Alike
<1>. QED BY <1>1, <1>2, <1>3, <1>5 DEF Relabelled, Same

LEMMA CopiesAreLiteral ==
    /\ DEMO_PROBLEMS[1] = Shown(UrlShortener) /\ DEMO_PROBLEMS[2] = Shown(RateLimiter)
    /\ DEMO_PROBLEMS[3] = Shown(NewsFeed)
    /\ DETAILS = {Told(UrlShortener), Told(RateLimiter)}
<1>1. DEMO_PROBLEMS[1] = Shown(UrlShortener) /\ DEMO_PROBLEMS[2] = Shown(RateLimiter)
  BY DEF DEMO_PROBLEMS, Shown, UrlShortener, RateLimiter
<1>2. DEMO_PROBLEMS[3] = Shown(NewsFeed)
  BY DEF DEMO_PROBLEMS, Shown, NewsFeed
<1>3. DETAILS = {Told(UrlShortener), Told(RateLimiter)}
  BY DEF DETAILS, Told, UrlShortener, RateLimiter
<1>. QED BY <1>1, <1>2, <1>3

(***************************************************************************)
(* Once the problems of the repository's seed are all in the database, the *)
(* rows, the heads of the unlocked problems and the palette that the page  *)
(* has without an API are those that an anonymous visitor is shown, but    *)
(* for two labels of the palette: over any earlier release, however the    *)
(* runs of the seed overlap.                                               *)
(***************************************************************************)
THEOREM BundledCopiesAgree == ASSUME CopiesAreOfTheRelease PROVE Spec => []LocalCopiesAgreeButForTwoLabels
<1>1. SeedInv => LocalCopiesAgreeButForTwoLabels
  <2>. SUFFICES ASSUME SeedInv, Slugs(Release) \subseteq DOMAIN db.problems
                PROVE  LET sheet == Listing(db, 25, Null) IN
                       /\ \A i \in DOMAIN DEMO_PROBLEMS :
                             DEMO_PROBLEMS[i] = Summary(sheet[i], Free)
                       /\ \A detail \in DETAILS : detail = Detail(detail.slug, Free)
                       /\ FALLBACK_PALETTE = Relabelled(db.palette)
    BY DEF LocalCopiesAgreeButForTwoLabels, Relabelled
  <2>1. db = Published(Release)
    <3>1. CASE db = Empty
      <4>1. Release.sheet[1].slug \in Slugs(Release) /\ DOMAIN db.problems = {}
        BY <3>1, PlacesArePositive, SlugsAreKeys DEF Empty, Keys
      <4>. QED BY <4>1
    <3>2. CASE db = Published(Earlier)
      BY <3>2 DEF Published, CopiesAreOfTheRelease
    <3>. QED BY <3>1, <3>2 DEF SeedInv, Releases
  <2>2. FALLBACK_PALETTE = Relabelled(db.palette)
    BY <2>1, SpecsAreRows, LabelsAreLiteral
  <2>3. /\ UrlShortener \in Specs /\ RateLimiter \in Specs /\ NewsFeed \in Specs
    BY DEF Specs
  <2>4. /\ Summary(UrlShortener.slug, Free) = Shown(UrlShortener)
        /\ Summary(RateLimiter.slug, Free) = Shown(RateLimiter)
        /\ Summary(NewsFeed.slug, Free) = Shown(NewsFeed)
        /\ Detail(UrlShortener.slug, Free) = Told(UrlShortener)
        /\ Detail(RateLimiter.slug, Free) = Told(RateLimiter)
    BY <2>1, <2>3, VisitorsAreShown
  <2>5. DOMAIN DEMO_PROBLEMS = {1, 2, 3}
    BY DEF DEMO_PROBLEMS
  <2>6. \A i \in DOMAIN DEMO_PROBLEMS :
           DEMO_PROBLEMS[i] = Summary(Listing(db, 25, Null)[i], Free)
    <3>1. /\ DEMO_PROBLEMS[1] = Summary(Listing(db, 25, Null)[1], Free)
          /\ DEMO_PROBLEMS[2] = Summary(Listing(db, 25, Null)[2], Free)
          /\ DEMO_PROBLEMS[3] = Summary(Listing(db, 25, Null)[3], Free)
      BY <2>1, <2>4, SheetBegins, CopiesAreLiteral
    <3>. QED BY <2>5, <3>1
  <2>7. DETAILS = {Detail(UrlShortener.slug, Free), Detail(RateLimiter.slug, Free)}
    BY <2>4, CopiesAreLiteral
  <2>8. \A detail \in DETAILS : detail = Detail(detail.slug, Free)
    <3>1. \A s : Detail(s, Free).slug = s
      BY DEF Detail
    <3>. QED BY <2>7, <3>1
  <2>. QED BY <2>2, <2>6, <2>8
<1>. QED BY <1>1, SeedInvInit, SeedInvNext, PTL DEF Spec
=============================================================================
