\* Two requests and one connection: every wait, failure and late answer.
SPECIFICATION Spec
CONSTANTS
    Requests = {r1, r2}
    PoolCap = 1  MaxTime = 1  MaxVersion = 2
    Snapshots <- SomeSnapshots
    Scores <- SomeScores
    Null = Null
INVARIANTS
    CallsAreEarned
    ShownReviewsAreSound
PROPERTIES
    ShownNeverGoesBack
    PoolRecovers
    ButtonComesBack
\* The requests run out.
CHECK_DEADLOCK FALSE
