---------------------------- MODULE GatewayOnce ----------------------------
(***************************************************************************)
(* What the payment handlers promise about a payment at the gateway: it    *)
(* is settled at most once, the subscription is extended in that step or   *)
(* never, and what was refunded is not settled again, however often the    *)
(* browser and the gateway report it.                                      *)
(***************************************************************************)
EXTENDS Naturals

CONSTANT Gateways  \* gatewayPaymentIds

VARIABLES
  phase,     \* of each gateway payment
  extended   \* how many times it has extended the subscription

Init ==
  /\ phase = [g \in Gateways |-> "unknown"]
  /\ extended = [g \in Gateways |-> 0]

Move(g, from, to) == phase[g] = from /\ phase' = [phase EXCEPT ![g] = to]

Order(g) == Move(g, "unknown", "ordered") /\ UNCHANGED extended

Settle(g) ==
  /\ Move(g, "ordered", "settled")
  /\ extended[g] = 0
  /\ extended' \in {extended, [extended EXCEPT ![g] = 1]}

Refund(g) == Move(g, "settled", "refunded") /\ UNCHANGED extended

Next == \E g \in Gateways : Order(g) \/ Settle(g) \/ Refund(g)

Spec == Init /\ [][Next]_<<phase, extended>>
=============================================================================
