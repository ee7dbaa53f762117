--------------------------- MODULE MCRateLimiter ---------------------------
(***************************************************************************)
(* Instances of RateLimiter for TLC: the calls still to come are           *)
(* interchangeable.                                                        *)
(***************************************************************************)
EXTENDS RateLimiter, TLC

CallSymmetry == Permutations(Calls \ Earlier)
=============================================================================
