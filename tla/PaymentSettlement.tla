------------------------- MODULE PaymentSettlement -------------------------
(***************************************************************************)
(* The invoices of one customer with one subscription, the payments        *)
(* recorded against them, and the handlers that settle, refund, cancel and *)
(* renew: PaymentsService, InvoicesService.cancel and the payment renewal  *)
(* of the API and of the billing worker.                                   *)
(*                                                                         *)
(* All of them read the invoice without a lock and later write absolute    *)
(* values computed from what they read.  A request is "ready" when it has  *)
(* read and validated, and "open" while its transaction holds row locks.   *)
(* Money is counted in units; every invoice has the same total.            *)
(***************************************************************************)
EXTENDS SubscriptionFsm

CONSTANTS
  Invoices,   \* invoices of the customer
  Linked,     \* those whose subscriptionId names the subscription
  Gateways,   \* gatewayPaymentIds the provider has issued
  Payments,   \* identities of payment rows; a bound on their number
  Workers,    \* requests, webhooks and jobs that may run at the same time
  None,
  Total,      \* totalAmount of an invoice
  Refunds,    \* amounts a refund request may name; nothing in the code checks them
  Today,      \* the date
  Period,     \* validity of the plan, in days
  MaxEnd      \* bound: no handler extends the subscription beyond this day

ASSUME PaymentAssumption ==
  /\ Linked \subseteq Invoices
  /\ None \notin Invoices /\ None \notin Gateways /\ None \notin Payments
  /\ Total \in Nat \ {0} /\ Refunds \subseteq 0..Total
  /\ Today \in Nat /\ MaxEnd \in Nat /\ Period \in Nat \ {0}
  /\ Today + Period <= MaxEnd

VARIABLES
  invoice,   \* status and paidAmount of each invoice
  payment,   \* rows of the payments table
  order,     \* what each gateway payment was created for
  sub,       \* the subscription: status and end date
  customer,  \* Customer.status
  access,    \* radcheck holds the real password
  extended,  \* SubscriptionHistory rows that name the gateway payment
  req        \* what each worker is doing

vars == <<invoice, payment, order, sub, customer, access, extended, req>>
-----------------------------------------------------------------------------
(* Types *)

InvoiceStatus == {"ISSUED", "PARTIALLY_PAID", "PAID", "CANCELLED"}
CustomerStatus == {"PENDING", "ACTIVE", "SUSPENDED", "EXPIRED"}

Row ==
  [status  : {"SUCCESS", "REFUNDED"},
   invoice : Invoices \cup {None},
   amount  : 1..Total,
   ref     : Gateways \cup {None},  \* transactionRef
   online  : BOOLEAN]               \* whether gatewayPaymentId is ref, or null

NoRow == [status |-> "NONE", invoice |-> None, amount |-> 0, ref |-> None,
          online |-> FALSE]

NoOrder == [invoice |-> None, amount |-> 0]

Request ==
  [op       : {"none", "verify", "record", "refund", "renewal", "cancel"},
   pc       : {"idle", "ready", "open"},
   invoice  : Invoices \cup {None},
   paid     : 0..Total,               \* paidAmount it read
   amount   : 0..Total,               \* amount of the payment or the refund
   ref      : Gateways \cup {None},   \* the gateway payment it is about
   payment  : Payments \cup {None},   \* the payment it refunds
   customer : CustomerStatus,         \* the customer's status it read
   renews   : BOOLEAN,                \* it found a subscription to extend
   end      : 0..MaxEnd]              \* the end date of that subscription

Idle ==
  [op |-> "none", pc |-> "idle", invoice |-> None, paid |-> 0, amount |-> 0,
   ref |-> None, payment |-> None, customer |-> "ACTIVE", renews |-> FALSE,
   end |-> 0]

TypeOK ==
  /\ invoice \in [Invoices -> [status : InvoiceStatus, paid : 0..Total]]
  /\ payment \in [Payments -> Row \cup {NoRow}]
  /\ order \in [Gateways -> [invoice : Invoices, amount : 1..Total] \cup {NoOrder}]
  /\ sub \in [status : Status, end : 0..MaxEnd]
  /\ customer \in CustomerStatus
  /\ access \in BOOLEAN
  /\ extended \in [Gateways -> Nat]
  /\ req \in [Workers -> Request]
-----------------------------------------------------------------------------
(* What a transaction sees and what it waits for *)

Rows(i) == {p \in Payments : payment[p] # NoRow /\ payment[p].invoice = i}

SuccessRows(i) == {p \in Rows(i) : payment[p].status = "SUCCESS"}

\* Rows with this gatewayPaymentId, a unique column.
GatewayRows(g) == {p \in Payments : payment[p].online /\ payment[p].ref = g}

\* Another transaction has updated the invoice and has not committed yet; only
\* verification does something else between this update and its commit.
InvoiceHeld(w, i) ==
  \E v \in Workers \ {w} :
    req[v].pc = "open" /\ req[v].op = "verify" /\ req[v].invoice = i

PaymentHeld(w, p) ==
  \E v \in Workers \ {w} :
    req[v].pc = "open" /\ req[v].op = "refund" /\ req[v].payment = p

\* Receipt numbers are count + 1 and unique: while another verification has
\* inserted its row, a second insert gets the same number.
ReceiptTaken(w) ==
  \E v \in Workers \ {w} : req[v].pc = "open" /\ req[v].op = "verify"

Insert(row) ==
  \E p \in Payments : payment[p] = NoRow /\ payment' = [payment EXCEPT ![p] = row]

Finish(w) == req' = [req EXCEPT ![w] = Idle]

NewEnd(end) == CalculateEndDate(RenewalAnchor(end, Today), Period)

Reactivated(status) ==
  IF status \in {"SUSPENDED", "PENDING"} THEN "ACTIVE" ELSE customer
-----------------------------------------------------------------------------
Init ==
  /\ invoice = [i \in Invoices |-> [status |-> "ISSUED", paid |-> 0]]
  /\ payment = [p \in Payments |-> NoRow]
  /\ order = [g \in Gateways |-> NoOrder]
  /\ \E status \in {"PENDING", "ACTIVE", "SUSPENDED", "EXPIRED", "CANCELLED"},
        end \in {0, Today} :
       /\ sub = [status |-> status, end |-> end]
       /\ customer = IF status = "CANCELLED" THEN "EXPIRED" ELSE status
       /\ access = (status = "ACTIVE")
  /\ extended = [g \in Gateways |-> 0]
  /\ req = [w \in Workers |-> Idle]
-----------------------------------------------------------------------------
\* Step 1 of every handler: read and validate.
Accept(w, r) ==
  /\ req[w].pc = "idle"
  /\ req' = [req EXCEPT ![w] = r]
  /\ UNCHANGED <<invoice, payment, order, sub, customer, access, extended>>

\* The subscriber is sent to the gateway and pays there.
CreatePaymentIntent(g) ==
  \E i \in Invoices, amount \in 1..Total :
    /\ order[g] = NoOrder
    /\ invoice[i].status \notin {"PAID", "CANCELLED"}
    /\ amount <= Total - invoice[i].paid
    /\ order' = [order EXCEPT ![g] = [invoice |-> i, amount |-> amount]]
    /\ UNCHANGED <<invoice, payment, sub, customer, access, extended, req>>

\* The browser's callback and the gateway's webhook, any number of times.  A row
\* found for g ends the request if it succeeded; of several rows any is found.
\* The key each of them brings adds nothing: a row with that key names g as well.
VerifyRead(w) ==
  \E g \in Gateways :
    LET i == order[g].invoice
        found == {p \in Payments : payment[p].ref = g}
    IN
    /\ order[g] # NoOrder
    /\ found = {} \/ \E p \in found : payment[p].status = "REFUNDED"
    /\ invoice[i].status \notin {"PAID", "CANCELLED"}
    /\ invoice[i].paid < Total
    /\ Accept(w, [Idle EXCEPT !.op = "verify", !.pc = "ready", !.invoice = i,
                              !.paid = invoice[i].paid, !.ref = g,
                              !.amount = Total - invoice[i].paid,
                              !.customer = customer])

\* Variant with a fault: the amount is not compared with the balance.
RecordReadUnchecked(w) ==
  \E i \in Invoices \cup {None}, amount \in 1..Total, ref \in Gateways \cup {None} :
    /\ i # None => invoice[i].status \notin {"PAID", "CANCELLED"}
    /\ Accept(w, [Idle EXCEPT !.op = "record", !.pc = "ready", !.invoice = i,
                              !.paid = IF i = None THEN 0 ELSE invoice[i].paid,
                              !.amount = amount, !.ref = ref,
                              !.customer = customer])

\* A manual payment, against an invoice or in advance; the operator may enter
\* the reference of a gateway payment.
RecordRead(w) ==
  \E i \in Invoices \cup {None}, amount \in 1..Total, ref \in Gateways \cup {None} :
    /\ i # None => /\ invoice[i].status \notin {"PAID", "CANCELLED"}
                   /\ amount <= Total - invoice[i].paid
    /\ Accept(w, [Idle EXCEPT !.op = "record", !.pc = "ready", !.invoice = i,
                              !.paid = IF i = None THEN 0 ELSE invoice[i].paid,
                              !.amount = amount, !.ref = ref,
                              !.customer = customer])

\* The amount of a refund is the caller's, or else the payment's.
RefundRead(w) ==
  \E p \in Payments : \E amount \in Refunds \cup {payment[p].amount} :
    /\ payment[p].status = "SUCCESS"
    /\ Accept(w, [Idle EXCEPT !.op = "refund", !.pc = "ready", !.payment = p,
                              !.invoice = payment[p].invoice, !.amount = amount])

\* The subscription comes with the invoice if the invoice names one.
RenewalRead(w) ==
  \E i \in Invoices :
    /\ invoice[i].status # "PAID"
    /\ Accept(w, [Idle EXCEPT !.op = "renewal", !.pc = "ready", !.invoice = i,
                              !.renews = i \in Linked,
                              !.end = IF i \in Linked THEN sub.end ELSE 0])

CancelRead(w) ==
  \E i \in Invoices :
    /\ invoice[i].status \notin {"PAID", "CANCELLED"}
    /\ Accept(w, [Idle EXCEPT !.op = "cancel", !.pc = "ready", !.invoice = i])
-----------------------------------------------------------------------------
(* The transactions *)

\* Variant with a fault: nothing keeps gatewayPaymentId unique.
VerifySettleTwice(w) ==
  LET r == req[w] IN
  /\ r.op = "verify" /\ r.pc = "ready"
  /\ ~InvoiceHeld(w, r.invoice) /\ ~ReceiptTaken(w)
  /\ req' = [req EXCEPT
       ![w].pc = "open", ![w].end = sub.end,
       ![w].renews = r.invoice \in Linked \/ sub.status # "CANCELLED"]
  /\ UNCHANGED <<invoice, payment, order, sub, customer, access, extended>>

\* The provider confirms; the invoice is updated and its row locked, the payment
\* is inserted, the subscription is read.  The fallback for an invoice that names
\* no subscription passes over a cancelled one.
VerifySettle(w) ==
  LET r == req[w] IN
  /\ r.op = "verify" /\ r.pc = "ready"
  /\ ~InvoiceHeld(w, r.invoice) /\ ~ReceiptTaken(w)
  /\ GatewayRows(r.ref) = {}
  /\ req' = [req EXCEPT
       ![w].pc = "open", ![w].end = sub.end,
       ![w].renews = r.invoice \in Linked \/ sub.status # "CANCELLED"]
  /\ UNCHANGED <<invoice, payment, order, sub, customer, access, extended>>

\* The password returns with the extension, the customer's status without it.
VerifyCommit(w) ==
  LET r == req[w] IN
  /\ r.op = "verify" /\ r.pc = "open"
  /\ invoice' = [invoice EXCEPT ![r.invoice] =
                   [status |-> "PAID", paid |-> r.paid + r.amount]]
  /\ Insert([status |-> "SUCCESS", invoice |-> r.invoice, amount |-> r.amount,
             ref |-> r.ref, online |-> TRUE])
  /\ IF r.renews
     THEN /\ NewEnd(r.end) <= MaxEnd
          /\ sub' = [status |-> "ACTIVE", end |-> NewEnd(r.end)]
          /\ extended' = [extended EXCEPT ![r.ref] = @ + 1]
          /\ access' = TRUE
     ELSE UNCHANGED <<sub, extended, access>>
  /\ customer' = Reactivated(r.customer)
  /\ Finish(w)
  /\ UNCHANGED order

\* Variant with a fault: an invoice paid in full stays PARTIALLY_PAID.
RecordAsPartial(w) ==
  LET r == req[w]
      full == r.invoice = None \/ r.paid + r.amount = Total
  IN
  /\ r.op = "record" /\ r.pc = "ready"
  /\ ~InvoiceHeld(w, r.invoice) /\ ~ReceiptTaken(w)
  /\ invoice' = IF r.invoice = None THEN invoice
                ELSE [invoice EXCEPT ![r.invoice] =
                        [status |-> "PARTIALLY_PAID", paid |-> r.paid + r.amount]]
  /\ Insert([status |-> "SUCCESS", invoice |-> r.invoice, amount |-> r.amount,
             ref |-> r.ref, online |-> FALSE])
  /\ IF full /\ r.customer \in {"SUSPENDED", "PENDING"}
     THEN customer' = "ACTIVE" /\ access' = TRUE
     ELSE UNCHANGED <<customer, access>>
  /\ Finish(w)
  /\ UNCHANGED <<order, sub, extended>>

\* calculatePaymentSettlement on the paid amount read before; the subscription
\* is left as it is.
RecordCommit(w) ==
  LET r == req[w]
      full == r.invoice = None \/ r.paid + r.amount = Total
  IN
  /\ r.op = "record" /\ r.pc = "ready"
  /\ ~InvoiceHeld(w, r.invoice) /\ ~ReceiptTaken(w)
  /\ invoice' = IF r.invoice = None THEN invoice
                ELSE [invoice EXCEPT ![r.invoice] =
                        [status |-> IF full THEN "PAID" ELSE "PARTIALLY_PAID",
                         paid |-> r.paid + r.amount]]
  /\ Insert([status |-> "SUCCESS", invoice |-> r.invoice, amount |-> r.amount,
             ref |-> r.ref, online |-> FALSE])
  /\ IF full /\ r.customer \in {"SUSPENDED", "PENDING"}
     THEN customer' = "ACTIVE" /\ access' = TRUE
     ELSE UNCHANGED <<customer, access>>
  /\ Finish(w)
  /\ UNCHANGED <<order, sub, extended>>

\* The provider has returned the money; the payment row is updated and locked,
\* the invoice is read without a lock.
RefundOpen(w) ==
  LET r == req[w] IN
  /\ r.op = "refund" /\ r.pc = "ready"
  /\ ~PaymentHeld(w, r.payment)
  /\ req' = [req EXCEPT
       ![w].pc = "open",
       ![w].paid = IF r.invoice = None THEN 0 ELSE invoice[r.invoice].paid]
  /\ UNCHANGED <<invoice, payment, order, sub, customer, access, extended>>

\* What remains paid after the refund.
Remaining(r) == IF r.paid > r.amount THEN r.paid - r.amount ELSE 0

\* Variant with a fault: the invoice keeps its status.
RefundKeepsStatus(w) ==
  LET r == req[w] IN
  /\ r.op = "refund" /\ r.pc = "open"
  /\ ~InvoiceHeld(w, r.invoice)
  /\ payment' = [payment EXCEPT ![r.payment].status = "REFUNDED"]
  /\ invoice' = IF r.invoice = None THEN invoice
                ELSE [invoice EXCEPT ![r.invoice].paid = Remaining(r)]
  /\ Finish(w)
  /\ UNCHANGED <<order, sub, customer, access, extended>>

\* Whatever its status was, the invoice becomes PARTIALLY_PAID, or PAID if the
\* refund takes nothing off the total.
RefundCommit(w) ==
  LET r == req[w] IN
  /\ r.op = "refund" /\ r.pc = "open"
  /\ ~InvoiceHeld(w, r.invoice)
  /\ payment' = [payment EXCEPT ![r.payment].status = "REFUNDED"]
  /\ invoice' = IF r.invoice = None THEN invoice
                ELSE [invoice EXCEPT ![r.invoice] =
                        [status |-> IF Remaining(r) >= Total THEN "PAID"
                                    ELSE "PARTIALLY_PAID",
                         paid |-> Remaining(r)]]
  /\ Finish(w)
  /\ UNCHANGED <<order, sub, customer, access, extended>>

\* The invoice is PAID in full whatever it has become; a payment is added only
\* if none succeeded so far; the end date may be that of an earlier state.
RenewalCommit(w) ==
  LET r == req[w]
      end == NewEnd(IF r.renews THEN r.end ELSE sub.end)
  IN
  /\ r.op = "renewal" /\ r.pc = "ready"
  /\ ~InvoiceHeld(w, r.invoice)
  /\ end <= MaxEnd
  /\ invoice' = [invoice EXCEPT ![r.invoice] = [status |-> "PAID", paid |-> Total]]
  /\ IF SuccessRows(r.invoice) = {}
     THEN Insert([status |-> "SUCCESS", invoice |-> r.invoice, amount |-> Total,
                  ref |-> None, online |-> FALSE])
     ELSE UNCHANGED payment
  /\ sub' = [status |-> "ACTIVE", end |-> end]
  /\ customer' = "ACTIVE"
  /\ access' = TRUE
  /\ Finish(w)
  /\ UNCHANGED <<order, extended>>

CancelCommit(w) ==
  LET r == req[w] IN
  /\ r.op = "cancel" /\ r.pc = "ready"
  /\ ~InvoiceHeld(w, r.invoice)
  /\ invoice' = [invoice EXCEPT ![r.invoice].status = "CANCELLED"]
  /\ Finish(w)
  /\ UNCHANGED <<payment, order, sub, customer, access, extended>>

\* Nothing is written: the provider refuses, a unique column is taken (by a row
\* of this customer, or the receipt number by any other customer's payment), the
\* database picks a deadlock victim, or the process dies.
Rollback(w) ==
  /\ req[w].pc # "idle"
  /\ Finish(w)
  /\ UNCHANGED <<invoice, payment, order, sub, customer, access, extended>>
-----------------------------------------------------------------------------
Handler(w) ==
  \/ VerifyRead(w) \/ VerifySettle(w) \/ VerifyCommit(w)
  \/ RecordRead(w) \/ RecordCommit(w)
  \/ RefundRead(w) \/ RefundOpen(w) \/ RefundCommit(w)
  \/ RenewalRead(w) \/ RenewalCommit(w)
  \/ CancelRead(w) \/ CancelCommit(w)
  \/ Rollback(w)

Next ==
  \/ \E w \in Workers : Handler(w)
  \/ \E g \in Gateways : CreatePaymentIntent(g)

Spec == Init /\ [][Next]_vars
-----------------------------------------------------------------------------
(* Properties *)

\* However often the gateway and the browser report it, one after the other or
\* at once, before or after a refund, a gateway payment is recorded in one row
\* and extends the subscription once.
OnlinePaymentCountsOnce ==
  \A g \in Gateways :
    /\ \A p, q \in GatewayRows(g) : p = q
    /\ extended[g] <= 1
    /\ extended[g] = 1 => GatewayRows(g) # {}

\* An invoice is PAID only while a payment of it stands that was not refunded,
\* provided that no refund is for nothing.
PaidIsCovered ==
  0 \notin Refunds =>
    \A i \in Invoices : invoice[i].status = "PAID" => SuccessRows(i) # {}

\* The status of an invoice agrees with its paid amount although handlers write
\* both from what they read before: PAID means all, and all means PAID, or
\* CANCELLED by a request that came too late.
StatusMatchesPaid ==
  \A i \in Invoices :
    /\ invoice[i].status = "PAID" => invoice[i].paid = Total
    /\ invoice[i].paid = Total => invoice[i].status \in {"PAID", "CANCELLED"}
    /\ invoice[i].status = "ISSUED" => invoice[i].paid = 0

\* The rows of the payments table say how far a gateway payment has come.
PhaseOf(g) ==
  IF order[g] = NoOrder THEN "unknown"
  ELSE IF GatewayRows(g) = {} THEN "ordered"
  ELSE IF \E p \in GatewayRows(g) : payment[p].status = "SUCCESS" THEN "settled"
  ELSE "refunded"

Phase == [g \in Gateways |-> PhaseOf(g)]

Once == INSTANCE GatewayOnce WITH phase <- Phase

\* The handlers implement GatewayOnce: a verification that is cut off between its
\* writes, repeated, or overtaken by a refund settles as one step or not at all.
SettlesOnce == Once!Spec
=============================================================================
