\* The window is full, and calls take up to half of it: they overlap freely, pop
\* each other's entries, and some die half way.
SPECIFICATION Spec
CONSTANTS
    Calls = {c0, c1, c2, c3, c4}  Earlier = {c0}
    Limit = 1  WindowSeconds = 2  TicksPerSecond = 1
    MaxClock = 3  MaxLag = 1
SYMMETRY CallSymmetry
INVARIANTS
    KeyStaysSmall
    WindowNearlyHonoured
    DeniedOnlyWhenFull
    RetryAfterIsNotLate
\* The calls run out and the clock reaches its bound.
CHECK_DEADLOCK FALSE
