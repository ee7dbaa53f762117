\* One canvas is saved, shared and reviewed and another opened by requests of
\* two users that overlap freely.
SPECIFICATION Spec
CONSTANTS
    a = a  b = b  w1 = w1  u1 = u1  p1 = p1
    NodeIds = {a, b}  MaxNodes = 2  MaxEdges = 1
    None = None
    Users = {u1, u2}  Entitled = {u1}
    Slugs = {p1, p2}  Problems = {p1}
    WsIds = {w1, w2, w3}
    Opened <- MCOpened
    Requests = {r1, r2, r3}
    Drawings <- MCDrawings
    Overlap = TRUE
INVARIANTS
    TypeOK
    OneWorkspacePerProblem
    ReviewsPinStoredCanvas
    EffectsOfOkRequestsOnly
PROPERTY
    RequestsFinish
\* Every client sends its requests and stops.
CHECK_DEADLOCK FALSE
