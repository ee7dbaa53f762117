\* Two overlapping runs of the seed, and a page that asks twice.
SPECIFICATION Spec
CONSTANTS
    Release <- Seeded
    Earlier <- FirstTwo
    Runs = {s1, s2}
    Tiers = {25, 75}
    Queries = {Null, "limiter"}
    Limit = 2  MaxCalls = 2
    Null = Null
INVARIANTS
    PublishedSheetIsARelease
    DuplicateMeansPublished
    TiersAreNested
    LocksAgree
    LocalCopiesAgreeButForTwoLabels
    PageReachesTotal
    ShownIsAsked
PROPERTIES
    LoadingEnds
    SeedsEnd
\* The requests and the runs of the seed run out.
CHECK_DEADLOCK FALSE
