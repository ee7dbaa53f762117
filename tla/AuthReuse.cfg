\* A replayed token, with no request overlapping another.
SPECIFICATION Spec
CONSTANTS
    d1 = d1  u1 = u1
    Devices = {d1}  HolderOf <- MCHolderOf
    None = None
    Users = {u1}  Registered = {u1}
    Requests = {r1, r2, r3}
    Overlap = FALSE
SYMMETRY RequestSymmetry
INVARIANTS
    ReuseEndsTheFamily
\* Every client sends its requests and stops.
CHECK_DEADLOCK FALSE
