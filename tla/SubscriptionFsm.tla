--------------------------- MODULE SubscriptionFsm ---------------------------
(***************************************************************************)
(* The pure rules of packages/shared that every handler of the             *)
(* subscription services consults: the transition matrix and the dates.    *)
(* Dates are natural numbers (days); a service period is a number of days. *)
(***************************************************************************)
EXTENDS Naturals

Status == {"PENDING", "ACTIVE", "GRACE", "SUSPENDED", "EXPIRED", "CANCELLED"}

\* A row that does not exist in the subscriptions table.
Absent == "ABSENT"

Live == {"ACTIVE", "GRACE"}

ALLOWED_SUBSCRIPTION_TRANSITIONS ==
  [PENDING   |-> {"ACTIVE", "CANCELLED"},
   ACTIVE    |-> {"ACTIVE", "GRACE", "SUSPENDED", "EXPIRED", "CANCELLED"},
   GRACE     |-> {"ACTIVE", "SUSPENDED", "EXPIRED", "CANCELLED"},
   SUSPENDED |-> {"ACTIVE", "EXPIRED", "CANCELLED"},
   EXPIRED   |-> {"ACTIVE", "CANCELLED"},
   CANCELLED |-> {}]

\* Variant with a fault: a terminal status is not told apart.
CanTransitionFromAny(from, to) ==
  /\ from \in Status
  /\ to = "ACTIVE" \/ to \in ALLOWED_SUBSCRIPTION_TRANSITIONS[from]

\* validateSubscriptionTransition: the request goes on only if this holds.
CanTransition(from, to) ==
  /\ from \in Status \ {"CANCELLED"}
  /\ to \in ALLOWED_SUBSCRIPTION_TRANSITIONS[from]

\* calculateSubscriptionEndDate, for a plan whose period is a fixed number of
\* days (billingCycle CUSTOM).
CalculateEndDate(start, period) == start + period

CalculateGraceEnd(end, grace) == end + grace

\* The later of the current end date and today: renewals extend from there.
RenewalAnchor(end, now) == IF end > now THEN end ELSE now
=============================================================================
