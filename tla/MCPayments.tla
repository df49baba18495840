----------------------------- MODULE MCPayments -----------------------------
(* Symmetries, and the property that needs a sum. *)
EXTENDS PaymentSettlement, FiniteSetsExt, TLC

\* The payments of an invoice that succeeded and stand amount to its total at
\* most: what calculatePaymentSettlement refuses to exceed.
NoOverpayment ==
  \A i \in Invoices :
    MapThenSumSet(LAMBDA p : payment[p].amount, SuccessRows(i)) <= Total

Symmetry ==
  Permutations(Workers) \cup Permutations(Gateways) \cup Permutations(Payments)
=============================================================================
