---------------------------- MODULE MCInvoiceGst ----------------------------
(* The invoices of plans that do not have the standard rate of tax. *)
EXTENDS InvoiceLedger

HundredRupees == [p \in Plans |-> 10000]
ReducedRate == [p \in Plans |-> 12 * Percent]
Renewals ==
  {[source |-> "SUBSCRIPTION_RENEWAL", period |-> n, plan |-> p] : n \in Periods, p \in Plans}
=============================================================================
