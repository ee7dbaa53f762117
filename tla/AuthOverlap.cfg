\* Requests about an account overlap freely.
SPECIFICATION Spec
CONSTANTS
    d1 = d1  u1 = u1
    Devices = {d1}  HolderOf <- MCHolderOf
    None = None
    Users = {u1, u2}  Registered = {u1}
    Requests = {r1, r2, r3}
    Overlap = TRUE
INVARIANTS
    TypeOK
    RotationIsAtomic
    RevocationsAreEarned
    OneSignupWins
PROPERTIES
    RequestsFinish
    OneLiveTokenIfRotationsTakeTurns
    LogoutEndsSessionsThatRest
\* Every client sends its requests and stops.
CHECK_DEADLOCK FALSE
