---------------------------- MODULE MCSheetPage ----------------------------
(***************************************************************************)
(* What the repository seeds, over nothing or over a release of two        *)
(* problems in the other order, in two tiers and differently gated, with   *)
(* another name for one component.                                         *)
(***************************************************************************)
EXTENDS SheetPage

Seeded == [palette |-> COMPONENTS, sheet |-> HLD_PROBLEMS]

FirstTwo ==
    [palette |-> [COMPONENTS EXCEPT !.worker = <<"Background Job", "async">>],
     sheet |-> <<[UrlShortener EXCEPT !.is_free_preview = FALSE, !.order_index = 2,
                                   !.sheet_tier = 75],
                 [RateLimiter EXCEPT !.order_index = 1]>>]

\* What PageReachesTotal and
\* LocalCopiesAgreeButForTwoLabels rest on, and this instance gives.
ASSUME InstanceAssumption == NothingIsWithdrawn /\ CopiesAreOfTheRelease
=============================================================================
