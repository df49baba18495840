---------------------------- MODULE MCLifecycle ----------------------------
(* Values of Duty for the model checker. *)
EXTENDS SubscriptionLifecycle, TLC

CONSTANT Scanner   \* the billing worker, where a run has one

\* Every process may be asked for anything.
AnyDuty == [w \in Workers |-> Operations]

\* The operations whose transactions touch more than their own subscription
\* row, and one of each kind of those that touch only theirs.
CrossingDuty ==
  [w \in Workers |->
     {"create", "activate", "renew", "suspend", "cancel", "evaluateExpiry",
      "expireSubscription"}]

\* An API handler asked for anything but expire, and the billing worker.
DutyWithScanner ==
  [w \in Workers |-> IF w = Scanner THEN {"evaluateExpiry"}
                     ELSE Operations \ {"expire"}]

PlanSymmetry == Permutations(Plans)
WorkerSymmetry == Permutations(Workers)
SubSymmetry == Permutations(Subs)
Symmetry == WorkerSymmetry \cup SubSymmetry \cup PlanSymmetry
=============================================================================
