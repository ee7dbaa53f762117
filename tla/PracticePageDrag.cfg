\* A node is dragged, and the drag undone.
SPECIFICATION Spec
CONSTANTS
    tidy = tidy  moved = moved
    Looks = {tidy, moved}  Tidy = tidy
    NodeIds = {1, 2, 3}
    MaxNodes = 3  MaxEdges = 2
    MaxHistory = 2  MaxEdits = 2
    First <- Joined
    Canvases <- MCCanvases
    Saves = {s1, s2}
    MaxOtherSaves = 1
PROPERTY
    DragsCanBeUndone
\* The user stops editing and saving.
CHECK_DEADLOCK FALSE
