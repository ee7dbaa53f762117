\* A refresh overlaps a logout of its session.
SPECIFICATION Spec
CONSTANTS
    d1 = d1  u1 = u1
    Devices = {d1}  HolderOf <- MCHolderOf
    None = None
    Users = {u1}  Registered = {u1}
    Requests = {r1, r2}
    Overlap = TRUE
SYMMETRY RequestSymmetry
INVARIANTS
    LogoutEndsThisSession
\* Every client sends its requests and stops.
CHECK_DEADLOCK FALSE
