\* Several tabs hold states of one canvas of any age; writers take turns.
SPECIFICATION Spec
CONSTANTS
    a = a  b = b  w1 = w1  u1 = u1  p1 = p1
    NodeIds = {a, b}  MaxNodes = 2  MaxEdges = 1
    None = None
    Users = {u1}  Entitled = {u1}
    Slugs = {p1, p2}  Problems = {p1, p2}
    WsIds = {w1, w2}
    Opened <- MCOpened
    Requests = {r1, r2, r3, r4}
    Drawings <- MCDrawings
    Overlap = FALSE
SYMMETRY RequestSymmetry
INVARIANTS
    SavesBuildOnWhatTheyReplace
    VersionNamesOneCanvas
    StoredCanvasesValid
    AnsweredLinksResolve
PROPERTY
    SavesAreAtomic
CHECK_DEADLOCK FALSE
