\* Two saves that overlap both pass the version check.
SPECIFICATION Spec
CONSTANTS
    a = a  b = b  w1 = w1  u1 = u1  p1 = p1
    NodeIds = {a, b}  MaxNodes = 2  MaxEdges = 1
    None = None
    Users = {u1}  Entitled = {u1}
    Slugs = {p1}  Problems = {p1}
    WsIds = {w1}
    Opened <- MCOpened
    Requests = {r1, r2, r3}
    Drawings <- MCDrawings
    Overlap = TRUE
INVARIANT
    SavesBuildOnWhatTheyReplace
CHECK_DEADLOCK FALSE
