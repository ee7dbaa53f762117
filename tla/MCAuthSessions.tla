--------------------------- MODULE MCAuthSessions ---------------------------
(***************************************************************************)
(* Instances of AuthSessions for TLC: one device is signed in to the one   *)
(* account that exists.                                                    *)
(***************************************************************************)
EXTENDS AuthSessions, TLC

CONSTANTS d1, u1

MCHolderOf == [d \in {d1} |-> u1]

RequestSymmetry == Permutations(Requests)
=============================================================================
