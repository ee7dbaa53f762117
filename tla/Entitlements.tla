---------------------------- MODULE Entitlements ----------------------------
(***************************************************************************)
(* What a subscription tier may do (backend/app/core/entitlements.py), and *)
(* how the tier of a request is worked out from the subscription row.      *)
(*                                                                         *)
(* The two numeric limits of a tier, max_problems and interviews_per_week, *)
(* are compared by no code and are left out.                               *)
(***************************************************************************)
EXTENDS Integers

CONSTANT Null \* no subscription row, or no end of its period

SubscriptionTier == {"free", "premium", "pro"}

SubscriptionStatus == {"active", "past_due", "cancelled", "expired", "trialing"}

\* A row that the webhook handler wrote; times are natural numbers.
Subscription ==
    [tier : SubscriptionTier, status : SubscriptionStatus, end : Nat \cup {Null}]

Free == {}

\* Slip: the new tier is given the list and not what is behind it.
PremiumListed == {"can_access_premium_problems", "can_access_advanced_analytics"}

Premium ==
    {"can_access_premium_problems", "can_access_full_study_guides",
     "can_access_advanced_analytics"}

Pro ==
    Premium \cup {"can_access_company_guides", "can_request_resume_review",
                  "can_access_mentoring"}

\* _BY_TIER: the features of a tier.
Features == [free |-> Free, premium |-> Premium, pro |-> Pro]

Lapsed(sub, now) == sub.end # Null /\ sub.end < now

InForce(sub, now) ==
    /\ sub # Null
    /\ sub.status \in {"active", "trialing"}
    /\ ~Lapsed(sub, now)

\* Slip: the status is trusted, as though every webhook arrived.
GetEntitlementsTrusting(sub, now) ==
    IF sub # Null /\ sub.status \in {"active", "trialing"}
    THEN Features[sub.tier] ELSE Free

\* get_entitlements: the features a request has, from the row and the clock.
GetEntitlements(sub, now) ==
    IF InForce(sub, now) THEN Features[sub.tier] ELSE Free
=============================================================================
