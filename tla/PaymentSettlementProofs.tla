----------------------- MODULE PaymentSettlementProofs -----------------------
(***************************************************************************)
(* For any number of invoices, gateway payments, rows and concurrent       *)
(* handlers: a gateway payment counts once, a PAID invoice has a payment   *)
(* that stands, and the status of an invoice agrees with its paid amount.  *)
(* At the end: the handlers implement GatewayOnce.                         *)
(***************************************************************************)
EXTENDS PaymentSettlement, TLAPS

\* What a request carries from its reads to its commit.
Sound(r) ==
  /\ r.op = "verify" =>
       /\ r.invoice \in Invoices /\ r.ref \in Gateways
       /\ r.amount \in 1..Total /\ r.paid + r.amount = Total
  /\ r.op = "record" => r.amount \in 1..Total /\ r.paid + r.amount <= Total
  /\ r.op = "refund" =>
       /\ r.payment \in Payments /\ payment[r.payment].status # "NONE"
       /\ payment[r.payment].invoice = r.invoice
       /\ 0 \notin Refunds => r.amount # 0
  /\ r.op \in {"renewal", "cancel"} => r.invoice \in Invoices

\* The request has inserted the row of a gateway payment and not committed.
Inserting(r) == r.op = "verify" /\ r.pc = "open"

\* Receipt numbers let one verification at a time insert its row ...
OneInserting ==
  \A v, w \in Workers : Inserting(req[v]) /\ Inserting(req[w]) => v = w

\* ... and the unique column makes it the first row of its gateway payment.
FirstRow == \A w \in Workers : Inserting(req[w]) => GatewayRows(req[w].ref) = {}

IInv ==
  /\ TypeOK
  /\ \A w \in Workers : Sound(req[w])
  /\ OneInserting
  /\ FirstRow
  /\ OnlinePaymentCountsOnce
  /\ PaidIsCovered
  /\ StatusMatchesPaid
-----------------------------------------------------------------------------
(* Lemmas about requests and rows *)

LEMMA IdleRequest == Idle \in Request /\ Sound(Idle) /\ ~Inserting(Idle)
  BY PaymentAssumption DEF Idle, Request, CustomerStatus, Sound, Inserting

\* The rows that exist keep what identifies them.
RowsKept ==
  \A p \in Payments :
    payment[p].status # "NONE" =>
      /\ payment'[p].status # "NONE"
      /\ payment'[p].invoice = payment[p].invoice
      /\ payment'[p].online = payment[p].online
      /\ payment'[p].ref = payment[p].ref

\* A step that changes only what handler w is doing.
LEMMA RequestStep ==
  ASSUME IInv, NEW w \in Workers, NEW r \in Request, Sound(r),
         Inserting(r) => ~ReceiptTaken(w) /\ GatewayRows(r.ref) = {},
         req' = [req EXCEPT ![w] = r],
         UNCHANGED <<invoice, payment, order, sub, customer, access, extended>>
  PROVE  IInv'
  <1>1. \A v \in Workers : req'[v] = IF v = w THEN r ELSE req[v]
    BY DEF IInv, TypeOK
  <1>2. TypeOK'
    BY DEF IInv, TypeOK
  <1>3. \A v \in Workers : Sound(req[v])'
    BY <1>1 DEF IInv, Sound
  <1>4. OneInserting'
    BY <1>1 DEF IInv, OneInserting, ReceiptTaken, Inserting
  <1>5. FirstRow'
    BY <1>1 DEF IInv, FirstRow, GatewayRows
  <1>6. OnlinePaymentCountsOnce' /\ PaidIsCovered' /\ StatusMatchesPaid'
    BY DEF IInv, OnlinePaymentCountsOnce, PaidIsCovered, StatusMatchesPaid,
           GatewayRows, SuccessRows, Rows
  <1>. QED BY <1>2, <1>3, <1>4, <1>5, <1>6 DEF IInv

\* A step with which handler w ends.
LEMMA LastStep ==
  ASSUME IInv, NEW w \in Workers, Finish(w), RowsKept,
         \/ Inserting(req[w])
         \/ \A g \in Gateways : GatewayRows(g)' = GatewayRows(g),
         TypeOK', OnlinePaymentCountsOnce', PaidIsCovered', StatusMatchesPaid'
  PROVE  IInv'
  <1>1. \A v \in Workers : req'[v] = IF v = w THEN Idle ELSE req[v]
    BY DEF IInv, TypeOK, Finish
  <1>2. ASSUME NEW v \in Workers
        PROVE  Sound(req[v])'
    <2>1. CASE v = w
      BY <1>1, <2>1 DEF Sound, Idle
    <2>2. CASE v # w
      <3>1. req'[v] = req[v] /\ Sound(req[v])
        BY <1>1, <2>2 DEF IInv
      <3>. QED BY <3>1 DEF Sound, RowsKept
    <2>. QED BY <2>1, <2>2
  <1>3. OneInserting'
    BY <1>1, IdleRequest DEF IInv, OneInserting, Inserting
  <1>4. FirstRow'
    <2>1. \A v \in Workers : Inserting(req[v])' =>
            /\ v # w /\ req'[v] = req[v] /\ Inserting(req[v])
            /\ req[v].ref \in Gateways
      BY <1>1, IdleRequest DEF Inserting, IInv, Sound
    <2>2. \A v \in Workers : Inserting(req[v])' =>
            GatewayRows(req[v].ref)' = GatewayRows(req[v].ref)
      BY <2>1 DEF IInv, OneInserting, GatewayRows
    <2>. QED BY <2>1, <2>2 DEF FirstRow, IInv
  <1>. QED BY <1>2, <1>3, <1>4 DEF IInv

\* What an insert does.
LEMMA InsertStep ==
  ASSUME TypeOK, NEW row \in Row, Insert(row)
  PROVE  \E p \in Payments :
           /\ payment[p] = NoRow
           /\ payment' = [payment EXCEPT ![p] = row]
           /\ payment' \in [Payments -> Row \cup {NoRow}]
           /\ RowsKept
           /\ row.invoice \in Invoices /\ row.status = "SUCCESS"
                => SuccessRows(row.invoice)' # {}
           /\ \A i \in Invoices : SuccessRows(i) \subseteq SuccessRows(i)'
           /\ \A g \in Gateways :
                GatewayRows(g)' = GatewayRows(g) \cup
                  (IF row.online /\ row.ref = g THEN {p} ELSE {})
  <1>1. PICK p \in Payments :
          payment[p] = NoRow /\ payment' = [payment EXCEPT ![p] = row]
    BY DEF Insert
  <1>2. /\ \A q \in Payments : payment'[q] = IF q = p THEN row ELSE payment[q]
        /\ payment' \in [Payments -> Row \cup {NoRow}]
    BY <1>1 DEF TypeOK
  <1>3. row # NoRow /\ row.status # "NONE"
    BY DEF Row, NoRow
  <1>4. RowsKept
    BY <1>1, <1>2 DEF RowsKept, NoRow
  <1>5. \A i \in Invoices : SuccessRows(i) \subseteq SuccessRows(i)'
    BY <1>1, <1>2 DEF SuccessRows, Rows
  <1>6. row.invoice \in Invoices /\ row.status = "SUCCESS" =>
          p \in SuccessRows(row.invoice)'
    BY <1>2, <1>3 DEF SuccessRows, Rows
  <1>7. \A g \in Gateways :
          GatewayRows(g)' = GatewayRows(g) \cup
            (IF row.online /\ row.ref = g THEN {p} ELSE {})
    BY <1>1, <1>2 DEF GatewayRows, NoRow
  <1>. QED BY <1>1, <1>2, <1>4, <1>5, <1>6, <1>7
-----------------------------------------------------------------------------
(* The steps that only read *)

LEMMA AcceptStep ==
  ASSUME IInv, NEW w \in Workers, NEW r \in Request, Sound(r), r.pc = "ready",
         Accept(w, r)
  PROVE  IInv'
  BY RequestStep DEF Accept, Inserting

LEMMA VerifyReadStep ==
  ASSUME IInv, NEW w \in Workers, VerifyRead(w)
  PROVE  IInv'
  <1>. DEFINE R(g) ==
         [Idle EXCEPT !.op = "verify", !.pc = "ready", !.invoice = order[g].invoice,
                      !.paid = invoice[order[g].invoice].paid, !.ref = g,
                      !.amount = Total - invoice[order[g].invoice].paid,
                      !.customer = customer]
  <1>1. PICK g \in Gateways :
          /\ order[g] # NoOrder
          /\ invoice[order[g].invoice].paid < Total
          /\ Accept(w, R(g))
    BY DEF VerifyRead
  <1>. DEFINE i == order[g].invoice
              paid == invoice[i].paid
              amount == Total - paid
              r == R(g)
  <1>2. i \in Invoices
    BY <1>1 DEF IInv, TypeOK
  <1>3. paid \in 0..Total /\ amount \in 1..Total /\ paid + amount = Total
    BY <1>1, <1>2, PaymentAssumption DEF IInv, TypeOK
  <1>4. customer \in CustomerStatus
    BY DEF IInv, TypeOK
  <1>5. r = [Idle EXCEPT !.op = "verify", !.pc = "ready", !.invoice = i,
                         !.paid = paid, !.ref = g, !.amount = amount,
                         !.customer = customer]
    OBVIOUS
  <1>6. Accept(w, r)
    BY <1>1, Zenon
  <1>. HIDE DEF i, paid, amount, r
  <1>7. amount \in 0..Total
    BY <1>3
  <1>8. r \in Request /\ r.pc = "ready"
    BY <1>2, <1>3, <1>4, <1>5, <1>7, IdleRequest DEF Request
  <1>9. /\ r.op = "verify" /\ r.invoice = i /\ r.ref = g
        /\ r.paid = paid /\ r.amount = amount
    BY <1>5, IdleRequest DEF Request
  <1>10. Sound(r)
    BY <1>2, <1>3, <1>9 DEF Sound
  <1>. QED BY <1>6, <1>8, <1>10, AcceptStep

LEMMA RecordReadStep ==
  ASSUME IInv, NEW w \in Workers, RecordRead(w)
  PROVE  IInv'
  <1>. DEFINE Paid(i) == IF i = None THEN 0 ELSE invoice[i].paid
              R(i, amount, ref) ==
                [Idle EXCEPT !.op = "record", !.pc = "ready", !.invoice = i,
                             !.paid = IF i = None THEN 0 ELSE invoice[i].paid,
                             !.amount = amount, !.ref = ref,
                             !.customer = customer]
  <1>1. PICK i \in Invoices \cup {None}, amount \in 1..Total,
             ref \in Gateways \cup {None} :
          /\ i # None => amount <= Total - invoice[i].paid
          /\ Accept(w, R(i, amount, ref))
    BY DEF RecordRead
  <1>. DEFINE paid == Paid(i)
              r == R(i, amount, ref)
  <1>2. paid \in 0..Total /\ paid + amount <= Total
    BY <1>1, PaymentAssumption DEF IInv, TypeOK
  <1>3. customer \in CustomerStatus
    BY DEF IInv, TypeOK
  <1>4. r = [Idle EXCEPT !.op = "record", !.pc = "ready", !.invoice = i,
                         !.paid = paid, !.amount = amount, !.ref = ref,
                         !.customer = customer]
    OBVIOUS
  <1>5. Accept(w, r)
    BY <1>1, Zenon
  <1>. HIDE DEF paid, r
  <1>6. amount \in 0..Total
    BY PaymentAssumption
  <1>7. r \in Request /\ r.pc = "ready"
    BY <1>2, <1>3, <1>4, <1>6, IdleRequest DEF Request
  <1>8. r.op = "record" /\ r.paid = paid /\ r.amount = amount
    BY <1>4, IdleRequest DEF Request
  <1>9. Sound(r)
    BY <1>2, <1>8 DEF Sound
  <1>. QED BY <1>5, <1>7, <1>9, AcceptStep

LEMMA RefundReadStep ==
  ASSUME IInv, NEW w \in Workers, RefundRead(w)
  PROVE  IInv'
  <1>. DEFINE R(p, amount) ==
         [Idle EXCEPT !.op = "refund", !.pc = "ready", !.payment = p,
                      !.invoice = payment[p].invoice, !.amount = amount]
  <1>1. PICK p \in Payments : \E amount \in Refunds \cup {payment[p].amount} :
          payment[p].status = "SUCCESS" /\ Accept(w, R(p, amount))
    BY DEF RefundRead
  <1>2. payment[p] \in Row
    BY <1>1 DEF IInv, TypeOK, NoRow
  <1>3. PICK amount \in Refunds \cup {payment[p].amount} : Accept(w, R(p, amount))
    BY <1>1
  <1>. DEFINE i == payment[p].invoice
              r == R(p, amount)
  <1>4. i \in Invoices \cup {None}
    BY DEF IInv, TypeOK, Row, NoRow
  <1>5. r = [Idle EXCEPT !.op = "refund", !.pc = "ready", !.payment = p,
                         !.invoice = i, !.amount = amount]
    OBVIOUS
  <1>6. Accept(w, r)
    BY <1>3, Zenon
  <1>7. i = payment[p].invoice
    OBVIOUS
  <1>. HIDE DEF i, r
  <1>8. amount \in 0..Total /\ (0 \notin Refunds => amount # 0)
    BY <1>2, PaymentAssumption DEF Row
  <1>9. r \in Request /\ r.pc = "ready"
    BY <1>4, <1>5, <1>8, IdleRequest DEF Request
  <1>10. Sound(r)
    BY <1>1, <1>5, <1>7, <1>8, IdleRequest DEF Request, Sound
  <1>. QED BY <1>6, <1>9, <1>10, AcceptStep

LEMMA RenewalReadStep ==
  ASSUME IInv, NEW w \in Workers, RenewalRead(w)
  PROVE  IInv'
  <1>. DEFINE R(i) ==
         [Idle EXCEPT !.op = "renewal", !.pc = "ready", !.invoice = i,
                      !.renews = i \in Linked,
                      !.end = IF i \in Linked THEN sub.end ELSE 0]
  <1>1. PICK i \in Invoices : Accept(w, R(i))
    BY DEF RenewalRead
  <1>. DEFINE renews == i \in Linked
              end == IF i \in Linked THEN sub.end ELSE 0
              r == R(i)
  <1>2. renews \in BOOLEAN /\ end \in 0..MaxEnd
    BY PaymentAssumption DEF IInv, TypeOK
  <1>3. r = [Idle EXCEPT !.op = "renewal", !.pc = "ready", !.invoice = i,
                         !.renews = renews, !.end = end]
    OBVIOUS
  <1>4. Accept(w, r)
    BY <1>1, Zenon
  <1>. HIDE DEF renews, end, r
  <1>5. r \in Request /\ r.pc = "ready"
    BY <1>2, <1>3, IdleRequest DEF Request
  <1>6. Sound(r)
    BY <1>3, IdleRequest DEF Request, Sound
  <1>. QED BY <1>4, <1>5, <1>6, AcceptStep

LEMMA CancelReadStep ==
  ASSUME IInv, NEW w \in Workers, CancelRead(w)
  PROVE  IInv'
  <1>. DEFINE R(i) == [Idle EXCEPT !.op = "cancel", !.pc = "ready", !.invoice = i]
  <1>1. PICK i \in Invoices : Accept(w, R(i))
    BY DEF CancelRead
  <1>. DEFINE r == R(i)
  <1>2. r = [Idle EXCEPT !.op = "cancel", !.pc = "ready", !.invoice = i]
    OBVIOUS
  <1>3. Accept(w, r)
    BY <1>1, Zenon
  <1>. HIDE DEF r
  <1>4. r \in Request /\ r.pc = "ready"
    BY <1>2, IdleRequest DEF Request
  <1>5. Sound(r)
    BY <1>2, IdleRequest DEF Request, Sound
  <1>. QED BY <1>3, <1>4, <1>5, AcceptStep
-----------------------------------------------------------------------------
(* The steps inside a transaction *)

LEMMA VerifySettleStep ==
  ASSUME IInv, NEW w \in Workers, VerifySettle(w)
  PROVE  IInv'
  <1>. DEFINE renews == req[w].invoice \in Linked \/ sub.status # "CANCELLED"
              end == sub.end
              r == [req[w] EXCEPT !.pc = "open", !.end = end, !.renews = renews]
  <1>1. /\ req[w].op = "verify" /\ ~ReceiptTaken(w) /\ GatewayRows(req[w].ref) = {}
        /\ UNCHANGED <<invoice, payment, order, sub, customer, access, extended>>
    BY DEF VerifySettle
  <1>2. req' = [req EXCEPT ![w] = r]
    BY DEF VerifySettle, IInv, TypeOK
  <1>3. renews \in BOOLEAN /\ end \in 0..MaxEnd /\ req[w] \in Request
    BY DEF IInv, TypeOK
  <1>4. r = [req[w] EXCEPT !.pc = "open", !.end = end, !.renews = renews]
    OBVIOUS
  <1>. HIDE DEF r, renews, end
  <1>5. r \in Request
    BY <1>3, <1>4 DEF Request
  <1>6. /\ r.op = req[w].op /\ r.invoice = req[w].invoice /\ r.ref = req[w].ref
        /\ r.paid = req[w].paid /\ r.amount = req[w].amount
    BY <1>3, <1>4 DEF Request
  <1>7. Sound(r)
    BY <1>1, <1>6 DEF Sound, IInv
  <1>. QED BY <1>1, <1>2, <1>5, <1>6, <1>7, RequestStep

LEMMA RefundOpenStep ==
  ASSUME IInv, NEW w \in Workers, RefundOpen(w)
  PROVE  IInv'
  <1>. DEFINE paid == IF req[w].invoice = None THEN 0 ELSE invoice[req[w].invoice].paid
              r == [req[w] EXCEPT !.pc = "open", !.paid = paid]
  <1>1. /\ req[w].op = "refund"
        /\ UNCHANGED <<invoice, payment, order, sub, customer, access, extended>>
    BY DEF RefundOpen
  <1>2. req' = [req EXCEPT ![w] = r]
    BY DEF RefundOpen, IInv, TypeOK
  <1>3. req[w] \in Request
    BY DEF IInv, TypeOK
  <1>4. paid \in 0..Total
    BY <1>3, PaymentAssumption DEF IInv, TypeOK, Request
  <1>5. r = [req[w] EXCEPT !.pc = "open", !.paid = paid]
    OBVIOUS
  <1>. HIDE DEF r, paid
  <1>6. r \in Request
    BY <1>3, <1>4, <1>5 DEF Request
  <1>7. /\ r.op = req[w].op /\ r.invoice = req[w].invoice
        /\ r.payment = req[w].payment /\ r.amount = req[w].amount
    BY <1>3, <1>5 DEF Request
  <1>8. Sound(r) /\ ~Inserting(r)
    BY <1>1, <1>7 DEF Sound, IInv, Inserting
  <1>. QED BY <1>1, <1>2, <1>6, <1>8, RequestStep
-----------------------------------------------------------------------------
(* The commits *)

\* What writing both fields of an invoice does.
LEMMA InvoiceWritten ==
  ASSUME TypeOK, NEW i \in Invoices, NEW st \in InvoiceStatus, NEW n \in 0..Total,
         invoice' = [invoice EXCEPT ![i] = [status |-> st, paid |-> n]]
  PROVE  /\ invoice' \in [Invoices -> [status : InvoiceStatus, paid : 0..Total]]
         /\ invoice'[i].status = st /\ invoice'[i].paid = n
         /\ \A j \in Invoices : j # i => invoice'[j] = invoice[j]
  BY DEF TypeOK

\* A handler that adds no row and takes none leaves a gateway payment as it was.
LEMMA GatewayKept ==
  ASSUME OnlinePaymentCountsOnce, UNCHANGED extended,
         \A g \in Gateways : GatewayRows(g)' = GatewayRows(g)
  PROVE  OnlinePaymentCountsOnce'
  BY DEF OnlinePaymentCountsOnce

LEMMA VerifyCommitStep ==
  ASSUME IInv, NEW w \in Workers, VerifyCommit(w)
  PROVE  IInv'
  <1>0. PICK r \in Request : r = req[w]
    BY DEF IInv, TypeOK
  <1>. DEFINE i == r.invoice
              g == r.ref
              row == [status |-> "SUCCESS", invoice |-> i, amount |-> r.amount,
                      ref |-> g, online |-> TRUE]
  <1>1. /\ i \in Invoices /\ g \in Gateways
        /\ r.amount \in 1..Total /\ r.paid + r.amount = Total /\ Inserting(r)
    BY <1>0 DEF VerifyCommit, IInv, Sound, Inserting
  <1>2. GatewayRows(g) = {} /\ extended[g] = 0
    <2>1. GatewayRows(g) = {}
      BY <1>0, <1>1 DEF IInv, FirstRow
    <2>2. extended[g] \in Nat /\ extended[g] <= 1 /\ extended[g] # 1
      BY <1>1, <2>1 DEF IInv, TypeOK, OnlinePaymentCountsOnce
    <2>. QED BY <2>1, <2>2
  <1>3. /\ invoice' = [invoice EXCEPT ![i] = [status |-> "PAID", paid |-> Total]]
        /\ Insert(row) /\ Finish(w) /\ order' = order
        /\ customer' = Reactivated(r.customer)
    BY <1>0, <1>1 DEF VerifyCommit
  <1>4. /\ extended' \in [Gateways -> Nat] /\ extended'[g] \in {0, 1}
        /\ \A h \in Gateways \ {g} : extended'[h] = extended[h]
    BY <1>0, <1>1, <1>2 DEF VerifyCommit, IInv, TypeOK
  <1>5. sub' \in [status : Status, end : 0..MaxEnd] /\ access' \in BOOLEAN
    <2>1. CASE r.renews
      <3>1. NewEnd(r.end) \in 0..MaxEnd
        BY <1>0, <2>1, PaymentAssumption
           DEF VerifyCommit, NewEnd, CalculateEndDate, RenewalAnchor, Request
      <3>. QED BY <1>0, <2>1, <3>1 DEF VerifyCommit, Status
    <2>2. CASE ~r.renews
      BY <1>0, <2>2 DEF VerifyCommit, IInv, TypeOK
    <2>. QED BY <2>1, <2>2
  <1>6. customer' \in CustomerStatus
    BY <1>3 DEF Reactivated, CustomerStatus, IInv, TypeOK
  <1>7. row \in Row /\ row.invoice = i /\ row.status = "SUCCESS" /\ row.online /\ row.ref = g
    BY <1>1 DEF Row
  <1>. HIDE DEF row
  <1>8. PICK p \in Payments :
          /\ payment' \in [Payments -> Row \cup {NoRow}]
          /\ RowsKept
          /\ SuccessRows(i)' # {}
          /\ \A j \in Invoices : SuccessRows(j) \subseteq SuccessRows(j)'
          /\ \A h \in Gateways :
               GatewayRows(h)' = GatewayRows(h) \cup (IF g = h THEN {p} ELSE {})
    BY <1>1, <1>3, <1>7, InsertStep DEF IInv
  <1>9. /\ invoice' \in [Invoices -> [status : InvoiceStatus, paid : 0..Total]]
        /\ invoice'[i].status = "PAID" /\ invoice'[i].paid = Total
        /\ \A j \in Invoices : j # i => invoice'[j] = invoice[j]
    <2>1. "PAID" \in InvoiceStatus /\ Total \in 0..Total
      BY PaymentAssumption DEF InvoiceStatus
    <2>. QED BY <1>1, <1>3, <2>1, InvoiceWritten DEF IInv
  <1>. HIDE DEF i, g
  <1>10. TypeOK'
    <2>1. req' \in [Workers -> Request]
      BY <1>3, IdleRequest DEF Finish, IInv, TypeOK
    <2>. QED BY <1>3, <1>4, <1>5, <1>6, <1>8, <1>9, <2>1 DEF TypeOK, IInv
  <1>11. OnlinePaymentCountsOnce'
    BY <1>1, <1>2, <1>4, <1>8 DEF IInv, OnlinePaymentCountsOnce
  <1>12. PaidIsCovered'
    BY <1>8, <1>9 DEF IInv, PaidIsCovered
  <1>13. StatusMatchesPaid'
    BY <1>9, PaymentAssumption DEF IInv, StatusMatchesPaid
  <1>14. Inserting(req[w])
    BY <1>0, <1>1
  <1>. QED BY <1>3, <1>8, <1>10, <1>11, <1>12, <1>13, <1>14, LastStep

LEMMA RecordCommitStep ==
  ASSUME IInv, NEW w \in Workers, RecordCommit(w)
  PROVE  IInv'
  <1>1. PICK r \in Request : r = req[w]
    BY DEF IInv, TypeOK
  <1>. DEFINE i == r.invoice
              full == i = None \/ r.paid + r.amount = Total
              st == IF full THEN "PAID" ELSE "PARTIALLY_PAID"
              n == r.paid + r.amount
              row == [status |-> "SUCCESS", invoice |-> i, amount |-> r.amount,
                      ref |-> r.ref, online |-> FALSE]
  <1>2. r.amount \in 1..Total /\ n \in 0..Total /\ i \in Invoices \cup {None}
    BY <1>1, PaymentAssumption DEF RecordCommit, IInv, Sound, Request
  <1>3. /\ Insert(row) /\ Finish(w) /\ UNCHANGED <<order, sub, extended>>
        /\ i = None => invoice' = invoice
        /\ i # None => invoice' = [invoice EXCEPT ![i] = [status |-> st, paid |-> n]]
    BY <1>1 DEF RecordCommit
  <1>4. customer' \in CustomerStatus /\ access' \in BOOLEAN
    BY DEF RecordCommit, CustomerStatus, IInv, TypeOK
  <1>5. /\ row \in Row /\ row.invoice = i /\ row.status = "SUCCESS" /\ ~row.online
    BY <1>2 DEF Row, Request
  <1>6. st \in InvoiceStatus /\ (i # None => (st = "PAID" <=> n = Total)) /\ st # "ISSUED"
    BY DEF InvoiceStatus
  <1>. HIDE DEF row, st, n, full
  <1>7. /\ payment' \in [Payments -> Row \cup {NoRow}]
        /\ RowsKept
        /\ i \in Invoices => SuccessRows(i)' # {}
        /\ \A j \in Invoices : SuccessRows(j) \subseteq SuccessRows(j)'
        /\ \A g \in Gateways : GatewayRows(g)' = GatewayRows(g)
    <2>1. PICK p \in Payments :
            /\ payment' \in [Payments -> Row \cup {NoRow}]
            /\ RowsKept
            /\ i \in Invoices => SuccessRows(i)' # {}
            /\ \A j \in Invoices : SuccessRows(j) \subseteq SuccessRows(j)'
            /\ \A g \in Gateways :
                 GatewayRows(g)' = GatewayRows(g) \cup
                   (IF row.online /\ row.ref = g THEN {p} ELSE {})
      BY <1>3, <1>5, InsertStep DEF IInv
    <2>. QED BY <1>5, <2>1
  <1>8. CASE i = None
    <2>1. invoice' = invoice
      BY <1>3, <1>8
    <2>2. TypeOK'
      BY <1>3, <1>4, <1>7, <2>1, IdleRequest DEF TypeOK, IInv, Finish
    <2>3. PaidIsCovered'
      BY <1>7, <2>1 DEF IInv, PaidIsCovered
    <2>4. StatusMatchesPaid'
      BY <2>1 DEF IInv, StatusMatchesPaid
    <2>. QED BY <1>3, <1>7, <2>2, <2>3, <2>4, GatewayKept, LastStep DEF IInv
  <1>9. CASE i \in Invoices
    <2>1. /\ invoice' \in [Invoices -> [status : InvoiceStatus, paid : 0..Total]]
          /\ invoice'[i].status = st /\ invoice'[i].paid = n
          /\ \A j \in Invoices : j # i => invoice'[j] = invoice[j]
      BY <1>2, <1>3, <1>6, <1>9, PaymentAssumption, InvoiceWritten DEF IInv
    <2>2. TypeOK'
      BY <1>3, <1>4, <1>7, <2>1, IdleRequest DEF TypeOK, IInv, Finish
    <2>. HIDE DEF i
    <2>3. PaidIsCovered'
      BY <1>7, <2>1 DEF IInv, PaidIsCovered
    <2>4. i # None
      BY <1>9, PaymentAssumption
    <2>5. StatusMatchesPaid'
      BY <1>6, <2>1, <2>4 DEF IInv, StatusMatchesPaid
    <2>. QED BY <1>3, <1>7, <2>2, <2>3, <2>5, GatewayKept, LastStep DEF IInv
  <1>. QED BY <1>2, <1>8, <1>9

LEMMA RefundCommitStep ==
  ASSUME IInv, NEW w \in Workers, RefundCommit(w)
  PROVE  IInv'
  <1>1. PICK r \in Request : r = req[w]
    BY DEF IInv, TypeOK
  <1>. DEFINE i == r.invoice
              p == r.payment
              n == Remaining(r)
              st == IF n >= Total THEN "PAID" ELSE "PARTIALLY_PAID"
  <1>2. /\ p \in Payments /\ payment[p].status # "NONE" /\ payment[p].invoice = i
        /\ 0 \notin Refunds => r.amount # 0
    BY <1>1 DEF RefundCommit, IInv, Sound
  <1>3. /\ n \in 0..Total /\ i \in Invoices \cup {None} /\ st \in InvoiceStatus
        /\ st = "PAID" <=> n = Total
        /\ st # "ISSUED"
        /\ 0 \notin Refunds => n # Total
    BY <1>2, PaymentAssumption DEF Request, Remaining, InvoiceStatus
  <1>4. /\ payment' = [payment EXCEPT ![p].status = "REFUNDED"]
        /\ i = None => invoice' = invoice
        /\ i # None => invoice' = [invoice EXCEPT ![i] = [status |-> st, paid |-> n]]
        /\ Finish(w) /\ UNCHANGED <<order, sub, customer, access, extended>>
    BY <1>1 DEF RefundCommit
  <1>5. /\ payment' \in [Payments -> Row \cup {NoRow}]
        /\ payment'[p].status = "REFUNDED" /\ payment'[p].invoice = i
        /\ payment'[p].online = payment[p].online /\ payment'[p].ref = payment[p].ref
        /\ \A q \in Payments : q # p => payment'[q] = payment[q]
    <2>1. payment[p] \in Row
      BY <1>2 DEF IInv, TypeOK, NoRow
    <2>2. [payment[p] EXCEPT !.status = "REFUNDED"] \in Row
      BY <2>1 DEF Row
    <2>. QED BY <1>2, <1>4, <2>1, <2>2 DEF IInv, TypeOK, Row
  <1>. HIDE DEF p, n, st
  <1>6. RowsKept
    BY <1>2, <1>5 DEF RowsKept
  <1>7. \A g \in Gateways : GatewayRows(g)' = GatewayRows(g)
    BY <1>5 DEF GatewayRows
  <1>8. \A j \in Invoices : j # i => SuccessRows(j)' = SuccessRows(j)
    BY <1>2, <1>5 DEF SuccessRows, Rows, NoRow
  <1>9. CASE i = None
    <2>1. invoice' = invoice
      BY <1>4, <1>9
    <2>2. TypeOK'
      BY <1>4, <1>5, <2>1, IdleRequest DEF TypeOK, IInv, Finish
    <2>3. PaidIsCovered'
      BY <1>8, <1>9, <2>1, PaymentAssumption DEF IInv, PaidIsCovered
    <2>4. StatusMatchesPaid'
      BY <2>1 DEF IInv, StatusMatchesPaid
    <2>. QED BY <1>4, <1>6, <1>7, <2>2, <2>3, <2>4, GatewayKept, LastStep DEF IInv
  <1>10. CASE i \in Invoices
    <2>1. /\ invoice' \in [Invoices -> [status : InvoiceStatus, paid : 0..Total]]
          /\ invoice'[i].status = st /\ invoice'[i].paid = n
          /\ \A j \in Invoices : j # i => invoice'[j] = invoice[j]
      <3>1. i # None
        BY <1>10, PaymentAssumption
      <3>. QED BY <1>3, <1>4, <1>10, <3>1, InvoiceWritten DEF IInv
    <2>2. TypeOK'
      BY <1>4, <1>5, <2>1, IdleRequest DEF TypeOK, IInv, Finish
    <2>. HIDE DEF i
    <2>3. PaidIsCovered'
      BY <1>3, <1>8, <2>1 DEF IInv, PaidIsCovered
    <2>4. StatusMatchesPaid'
      BY <1>3, <2>1 DEF IInv, StatusMatchesPaid
    <2>. QED BY <1>4, <1>6, <1>7, <2>2, <2>3, <2>4, GatewayKept, LastStep DEF IInv
  <1>. QED BY <1>3, <1>9, <1>10

LEMMA RenewalCommitStep ==
  ASSUME IInv, NEW w \in Workers, RenewalCommit(w)
  PROVE  IInv'
  <1>1. PICK r \in Request : r = req[w]
    BY DEF IInv, TypeOK
  <1>. DEFINE i == r.invoice
              row == [status |-> "SUCCESS", invoice |-> i, amount |-> Total,
                      ref |-> None, online |-> FALSE]
              end == NewEnd(IF r.renews THEN r.end ELSE sub.end)
  <1>2. i \in Invoices
    BY <1>1 DEF RenewalCommit, IInv, Sound
  <1>3. /\ invoice' = [invoice EXCEPT ![i] = [status |-> "PAID", paid |-> Total]]
        /\ SuccessRows(i) = {} => Insert(row)
        /\ SuccessRows(i) # {} => payment' = payment
        /\ sub' = [status |-> "ACTIVE", end |-> end] /\ end <= MaxEnd
        /\ customer' = "ACTIVE" /\ access' = TRUE
        /\ Finish(w) /\ UNCHANGED <<order, extended>>
    BY <1>1 DEF RenewalCommit
  <1>4. end \in 0..MaxEnd
    BY <1>3, PaymentAssumption
       DEF NewEnd, CalculateEndDate, RenewalAnchor, Request, IInv, TypeOK
  <1>5. row \in Row /\ row.invoice = i /\ row.status = "SUCCESS" /\ ~row.online
    BY <1>2, PaymentAssumption DEF Row
  <1>. HIDE DEF row, end
  <1>6. /\ payment' \in [Payments -> Row \cup {NoRow}]
        /\ RowsKept
        /\ SuccessRows(i)' # {}
        /\ \A j \in Invoices : SuccessRows(j) \subseteq SuccessRows(j)'
        /\ \A g \in Gateways : GatewayRows(g)' = GatewayRows(g)
    <2>1. CASE SuccessRows(i) = {}
      <3>1. PICK p \in Payments :
              /\ payment' \in [Payments -> Row \cup {NoRow}]
              /\ RowsKept
              /\ SuccessRows(i)' # {}
              /\ \A j \in Invoices : SuccessRows(j) \subseteq SuccessRows(j)'
              /\ \A g \in Gateways :
                   GatewayRows(g)' = GatewayRows(g) \cup
                     (IF row.online /\ row.ref = g THEN {p} ELSE {})
        BY <1>2, <1>3, <1>5, <2>1, InsertStep DEF IInv
      <3>. QED BY <1>5, <3>1
    <2>2. CASE SuccessRows(i) # {}
      <3>1. payment' = payment
        BY <1>3, <2>2
      <3>2. \A j \in Invoices : SuccessRows(j)' = SuccessRows(j)
        BY <3>1 DEF SuccessRows, Rows
      <3>3. \A g \in Gateways : GatewayRows(g)' = GatewayRows(g)
        BY <3>1 DEF GatewayRows
      <3>4. SuccessRows(i)' # {}
        BY <1>2, <2>2, <3>2
      <3>. QED BY <3>1, <3>2, <3>3, <3>4 DEF IInv, TypeOK, RowsKept
    <2>. QED BY <2>1, <2>2
  <1>7. /\ invoice' \in [Invoices -> [status : InvoiceStatus, paid : 0..Total]]
        /\ invoice'[i].status = "PAID" /\ invoice'[i].paid = Total
        /\ \A j \in Invoices : j # i => invoice'[j] = invoice[j]
    <2>1. "PAID" \in InvoiceStatus /\ Total \in 0..Total
      BY PaymentAssumption DEF InvoiceStatus
    <2>. QED BY <1>2, <1>3, <2>1, InvoiceWritten DEF IInv
  <1>. HIDE DEF i
  <1>8. TypeOK'
    <2>1. /\ sub' \in [status : Status, end : 0..MaxEnd]
          /\ customer' \in CustomerStatus /\ access' \in BOOLEAN
      BY <1>3, <1>4 DEF Status, CustomerStatus
    <2>. QED BY <1>3, <1>6, <1>7, <2>1, IdleRequest DEF TypeOK, IInv, Finish
  <1>9. PaidIsCovered'
    BY <1>6, <1>7 DEF IInv, PaidIsCovered
  <1>10. StatusMatchesPaid'
    BY <1>7 DEF IInv, StatusMatchesPaid
  <1>. QED BY <1>3, <1>6, <1>8, <1>9, <1>10, GatewayKept, LastStep DEF IInv

LEMMA CancelCommitStep ==
  ASSUME IInv, NEW w \in Workers, CancelCommit(w)
  PROVE  IInv'
  <1>1. PICK i \in Invoices : i = req[w].invoice
    BY DEF CancelCommit, IInv, Sound
  <1>2. /\ invoice' = [invoice EXCEPT ![i].status = "CANCELLED"]
        /\ Finish(w)
        /\ UNCHANGED <<payment, order, sub, customer, access, extended>>
    BY <1>1 DEF CancelCommit
  <1>3. /\ invoice' \in [Invoices -> [status : InvoiceStatus, paid : 0..Total]]
        /\ invoice'[i].status = "CANCELLED" /\ invoice'[i].paid = invoice[i].paid
        /\ \A j \in Invoices : j # i => invoice'[j] = invoice[j]
    BY <1>2 DEF IInv, TypeOK, InvoiceStatus
  <1>4. TypeOK'
    BY <1>2, <1>3, IdleRequest DEF IInv, TypeOK, Finish
  <1>5. /\ RowsKept
        /\ \A g \in Gateways : GatewayRows(g)' = GatewayRows(g)
        /\ \A j \in Invoices : SuccessRows(j)' = SuccessRows(j)
    BY <1>2 DEF RowsKept, GatewayRows, SuccessRows, Rows
  <1>6. PaidIsCovered' /\ StatusMatchesPaid'
    BY <1>3, <1>5 DEF IInv, PaidIsCovered, StatusMatchesPaid
  <1>. QED BY <1>2, <1>4, <1>5, <1>6, GatewayKept, LastStep DEF IInv

LEMMA RollbackStep ==
  ASSUME IInv, NEW w \in Workers, Rollback(w)
  PROVE  IInv'
  <1>1. Idle \in Request /\ Sound(Idle) /\ ~Inserting(Idle)
    BY IdleRequest
  <1>. QED BY <1>1, RequestStep DEF Rollback, Finish
-----------------------------------------------------------------------------
(* The invariant *)

LEMMA CreatePaymentIntentStep ==
  ASSUME IInv, NEW g \in Gateways, CreatePaymentIntent(g)
  PROVE  IInv'
  <1>1. PICK i \in Invoices, amount \in 1..Total :
          order' = [order EXCEPT ![g] = [invoice |-> i, amount |-> amount]]
    BY DEF CreatePaymentIntent
  <1>2. UNCHANGED <<invoice, payment, sub, customer, access, extended, req>>
    BY DEF CreatePaymentIntent
  <1>3. TypeOK'
    BY <1>1, <1>2 DEF IInv, TypeOK
  <1>. QED BY <1>2, <1>3
           DEF IInv, Sound, OneInserting, FirstRow, GatewayRows,
               OnlinePaymentCountsOnce, PaidIsCovered, StatusMatchesPaid,
               SuccessRows, Rows

LEMMA InitInv == Init => IInv
  <1>. SUFFICES ASSUME Init PROVE IInv
    OBVIOUS
  <1>1. TypeOK
    BY IdleRequest, PaymentAssumption
       DEF Init, TypeOK, InvoiceStatus, Status, CustomerStatus
  <1>2. \A w \in Workers : req[w] = Idle
    BY DEF Init
  <1>3. \A w \in Workers : Sound(req[w]) /\ ~Inserting(req[w])
    BY <1>2, IdleRequest
  <1>4. OnlinePaymentCountsOnce
    BY DEF Init, OnlinePaymentCountsOnce, GatewayRows, NoRow
  <1>5. PaidIsCovered /\ StatusMatchesPaid
    BY PaymentAssumption DEF Init, PaidIsCovered, StatusMatchesPaid
  <1>. QED BY <1>1, <1>3, <1>4, <1>5 DEF IInv, OneInserting, FirstRow

LEMMA NextInv == IInv /\ [Next]_vars => IInv'
  <1>. SUFFICES ASSUME IInv, [Next]_vars PROVE IInv'
    OBVIOUS
  <1>1. ASSUME NEW w \in Workers, Handler(w)
        PROVE  IInv'
    BY <1>1, VerifyReadStep, VerifySettleStep, VerifyCommitStep, RecordReadStep,
       RecordCommitStep, RefundReadStep, RefundOpenStep, RefundCommitStep,
       RenewalReadStep, RenewalCommitStep, CancelReadStep, CancelCommitStep,
       RollbackStep DEF Handler
  <1>2. CASE UNCHANGED vars
    BY <1>2 DEF vars, IInv, TypeOK, Sound, OneInserting, FirstRow, GatewayRows,
                OnlinePaymentCountsOnce, PaidIsCovered, StatusMatchesPaid,
                SuccessRows, Rows
  <1>. QED BY <1>1, <1>2, CreatePaymentIntentStep DEF Next

\* The inductive invariant holds in every state.
THEOREM Invariance == Spec => []IInv
  BY InitInv, NextInv, PTL DEF Spec

\* Every table and every request keeps its type, whatever handlers interleave:
\* in particular no handler writes a paid amount above the invoice's total.
THEOREM TypeCorrect == Spec => []TypeOK
  <1>1. IInv => TypeOK
    BY DEF IInv
  <1>. QED BY <1>1, Invariance, PTL

\* Verification, by callback or by webhook and however often, records a gateway
\* payment in one row and extends the subscription for it once.
THEOREM CountsOnce == Spec => []OnlinePaymentCountsOnce
  <1>1. IInv => OnlinePaymentCountsOnce
    BY DEF IInv
  <1>. QED BY <1>1, Invariance, PTL

\* Refunds, cancellations and renewals leave no invoice PAID without a payment
\* that stands.
THEOREM PaidCovered == Spec => []PaidIsCovered
  <1>1. IInv => PaidIsCovered
    BY DEF IInv
  <1>. QED BY <1>1, Invariance, PTL

\* The status of an invoice and its paid amount agree although each handler
\* writes both from an earlier state.
THEOREM StatusAgrees == Spec => []StatusMatchesPaid
  <1>1. IInv => StatusMatchesPaid
    BY DEF IInv
  <1>. QED BY <1>1, Invariance, PTL
-----------------------------------------------------------------------------
(* PaymentSettlement implements GatewayOnce: each step of a handler is a step
   of GatewayOnce or leaves its variables alone. *)

\* What is verified or recorded was asked of the gateway before.
Ordered ==
  /\ \A w \in Workers : req[w].op = "verify" => order[req[w].ref] # NoOrder
  /\ \A g \in Gateways : order[g] = NoOrder => GatewayRows(g) = {}

AbstractStep == [Once!Next]_<<Phase, extended>>
-----------------------------------------------------------------------------
(* Steps that change no payment: a stutter *)

LEMMA Stutter ==
  ASSUME UNCHANGED <<payment, order, extended>>
  PROVE  Phase' = Phase /\ extended' = extended
  BY DEF Phase, PhaseOf, GatewayRows

LEMMA OrderedStep ==
  ASSUME TypeOK, Ordered, NEW w \in Workers, NEW r,
         UNCHANGED <<payment, order>>, req' = [req EXCEPT ![w] = r],
         r.op = "verify" => order[r.ref] # NoOrder
  PROVE  Ordered'
  BY DEF Ordered, TypeOK, GatewayRows

\* The handlers' steps of that kind, all but the commits of payments.
Quiet(w) ==
  \/ VerifyRead(w) \/ VerifySettle(w) \/ RecordRead(w) \/ RefundRead(w)
  \/ RefundOpen(w) \/ RenewalRead(w) \/ CancelRead(w) \/ CancelCommit(w)
  \/ Rollback(w)

LEMMA IdleOp == Idle.op = "none"
  BY DEF Idle

LEMMA QuietStep ==
  ASSUME IInv, Ordered, NEW w \in Workers, Quiet(w)
  PROVE  AbstractStep /\ Ordered'
  <1>1. UNCHANGED <<payment, order, extended>>
    BY DEF Quiet, VerifyRead, VerifySettle, RecordRead, RefundRead, RefundOpen,
           RenewalRead, CancelRead, CancelCommit, Rollback, Accept
  <1>2. AbstractStep
    BY <1>1, Stutter DEF AbstractStep
  <1>3. ASSUME VerifyRead(w) PROVE Ordered'
    <2>. DEFINE R(g) ==
           [Idle EXCEPT !.op = "verify", !.pc = "ready",
                        !.invoice = order[g].invoice,
                        !.paid = invoice[order[g].invoice].paid, !.ref = g,
                        !.amount = Total - invoice[order[g].invoice].paid,
                        !.customer = customer]
    <2>1. PICK g \in Gateways : order[g] # NoOrder /\ Accept(w, R(g))
      BY <1>3 DEF VerifyRead
    <2>. DEFINE i == order[g].invoice
                paid == invoice[i].paid
                amount == Total - paid
                r == R(g)
    <2>2. r = [Idle EXCEPT !.op = "verify", !.pc = "ready", !.invoice = i,
                           !.paid = paid, !.ref = g, !.amount = amount,
                           !.customer = customer]
      OBVIOUS
    <2>3. Accept(w, r)
      BY <2>1, Zenon
    <2>. HIDE DEF i, paid, amount, r
    <2>4. r.ref = g
      BY <2>2, IdleRequest DEF Request
    <2>. QED BY <1>1, <2>1, <2>3, <2>4, OrderedStep DEF Accept, IInv
  <1>4. ASSUME RecordRead(w) PROVE Ordered'
    <2>. DEFINE R(i, amount, ref) ==
           [Idle EXCEPT !.op = "record", !.pc = "ready", !.invoice = i,
                        !.paid = IF i = None THEN 0 ELSE invoice[i].paid,
                        !.amount = amount, !.ref = ref, !.customer = customer]
    <2>1. PICK i \in Invoices \cup {None}, amount \in 1..Total,
               ref \in Gateways \cup {None} : Accept(w, R(i, amount, ref))
      BY <1>4 DEF RecordRead
    <2>. DEFINE paid == IF i = None THEN 0 ELSE invoice[i].paid
                r == R(i, amount, ref)
    <2>2. r = [Idle EXCEPT !.op = "record", !.pc = "ready", !.invoice = i,
                           !.paid = paid, !.amount = amount, !.ref = ref,
                           !.customer = customer]
      OBVIOUS
    <2>3. Accept(w, r)
      BY <2>1, Zenon
    <2>. HIDE DEF paid, r
    <2>4. r.op # "verify"
      BY <2>2, IdleRequest DEF Request
    <2>. QED BY <1>1, <2>3, <2>4, OrderedStep DEF Accept, IInv
  <1>5. ASSUME RefundRead(w) PROVE Ordered'
    <2>. DEFINE R(p, amount) ==
           [Idle EXCEPT !.op = "refund", !.pc = "ready", !.payment = p,
                        !.invoice = payment[p].invoice, !.amount = amount]
    <2>1. PICK p \in Payments : \E n \in Refunds \cup {payment[p].amount} :
            Accept(w, R(p, n))
      BY <1>5 DEF RefundRead
    <2>2. PICK n \in Refunds \cup {payment[p].amount} : Accept(w, R(p, n))
      BY <2>1
    <2>. DEFINE i == payment[p].invoice
                r == R(p, n)
    <2>3. r = [Idle EXCEPT !.op = "refund", !.pc = "ready", !.payment = p,
                           !.invoice = i, !.amount = n]
      OBVIOUS
    <2>4. Accept(w, r)
      BY <2>2, Zenon
    <2>. HIDE DEF i, r
    <2>5. r.op # "verify"
      BY <2>3, IdleRequest DEF Request
    <2>. QED BY <1>1, <2>4, <2>5, OrderedStep DEF Accept, IInv
  <1>6. ASSUME RenewalRead(w) PROVE Ordered'
    <2>. DEFINE R(i) ==
           [Idle EXCEPT !.op = "renewal", !.pc = "ready", !.invoice = i,
                        !.renews = i \in Linked,
                        !.end = IF i \in Linked THEN sub.end ELSE 0]
    <2>1. PICK i \in Invoices : Accept(w, R(i))
      BY <1>6 DEF RenewalRead
    <2>. DEFINE renews == i \in Linked
                end == IF i \in Linked THEN sub.end ELSE 0
                r == R(i)
    <2>2. r = [Idle EXCEPT !.op = "renewal", !.pc = "ready", !.invoice = i,
                           !.renews = renews, !.end = end]
      OBVIOUS
    <2>3. Accept(w, r)
      BY <2>1, Zenon
    <2>. HIDE DEF renews, end, r
    <2>4. r.op # "verify"
      BY <2>2, IdleRequest DEF Request
    <2>. QED BY <1>1, <2>3, <2>4, OrderedStep DEF Accept, IInv
  <1>7. ASSUME CancelRead(w) PROVE Ordered'
    <2>. DEFINE R(i) == [Idle EXCEPT !.op = "cancel", !.pc = "ready", !.invoice = i]
    <2>1. PICK i \in Invoices : Accept(w, R(i))
      BY <1>7 DEF CancelRead
    <2>. DEFINE r == R(i)
    <2>2. r = [Idle EXCEPT !.op = "cancel", !.pc = "ready", !.invoice = i]
      OBVIOUS
    <2>3. Accept(w, r)
      BY <2>1, Zenon
    <2>. HIDE DEF r
    <2>4. r.op # "verify"
      BY <2>2, IdleRequest DEF Request
    <2>. QED BY <1>1, <2>3, <2>4, OrderedStep DEF Accept, IInv
  <1>8. ASSUME VerifySettle(w) PROVE Ordered'
    <2>1. \A v \in Workers : req'[v].op = req[v].op /\ req'[v].ref = req[v].ref
      BY <1>8 DEF VerifySettle, IInv, TypeOK, Request
    <2>. QED BY <1>1, <2>1 DEF Ordered, GatewayRows
  <1>9. ASSUME RefundOpen(w) PROVE Ordered'
    <2>1. \A v \in Workers : req'[v].op = req[v].op /\ req'[v].ref = req[v].ref
      BY <1>9 DEF RefundOpen, IInv, TypeOK, Request
    <2>. QED BY <1>1, <2>1 DEF Ordered, GatewayRows
  <1>10. ASSUME CancelCommit(w) \/ Rollback(w) PROVE Ordered'
    BY <1>1, <1>10, IdleOp, OrderedStep DEF CancelCommit, Rollback, Finish, IInv
  <1>. QED BY <1>2, <1>3, <1>4, <1>5, <1>6, <1>7, <1>8, <1>9, <1>10 DEF Quiet
-----------------------------------------------------------------------------
(* Steps that write payments *)

\* After a commit no request has come to verify anything new.
LEMMA CommitOrdered ==
  ASSUME TypeOK, Ordered, NEW w \in Workers, Finish(w), order' = order,
         \A g \in Gateways : order[g] = NoOrder => GatewayRows(g)' = GatewayRows(g)
  PROVE  Ordered'
  <1>1. \A v \in Workers : req'[v] = IF v = w THEN Idle ELSE req[v]
    BY DEF TypeOK, Finish
  <1>. QED BY <1>1, IdleOp DEF Ordered

\* A row without a gatewayPaymentId changes the phase of no gateway payment.
LEMMA OfflineInsert ==
  ASSUME IInv, NEW row, Insert(row), row.online = FALSE,
         UNCHANGED <<order, extended>>
  PROVE  /\ Phase' = Phase /\ extended' = extended
         /\ \A g \in Gateways : GatewayRows(g)' = GatewayRows(g)
  <1>1. PICK p \in Payments :
          payment[p] = NoRow /\ payment' = [payment EXCEPT ![p] = row]
    BY DEF Insert
  <1>2. \A q \in Payments : payment'[q] = IF q = p THEN row ELSE payment[q]
    BY <1>1 DEF IInv, TypeOK
  <1>3. \A g \in Gateways : GatewayRows(g)' = GatewayRows(g) /\ p \notin GatewayRows(g)
    BY <1>1, <1>2 DEF GatewayRows, NoRow
  <1>4. \A g \in Gateways : \A q \in GatewayRows(g) : payment'[q] = payment[q]
    BY <1>2, <1>3 DEF GatewayRows
  <1>5. \A g \in Gateways : PhaseOf(g)' = PhaseOf(g)
    BY <1>3, <1>4 DEF PhaseOf
  <1>. QED BY <1>3, <1>5 DEF Phase

LEMMA VerifyCommitPhase ==
  ASSUME IInv, Ordered, NEW w \in Workers, VerifyCommit(w)
  PROVE  AbstractStep /\ Ordered'
  <1>0. PICK g \in Gateways : g = req[w].ref
    BY DEF VerifyCommit, IInv, Sound, Inserting
  <1>. DEFINE row == [status |-> "SUCCESS", invoice |-> req[w].invoice,
                      amount |-> req[w].amount, ref |-> g, online |-> TRUE]
  <1>1. /\ Insert(row) /\ Finish(w) /\ order' = order
        /\ Inserting(req[w]) /\ order[g] # NoOrder
    BY <1>0 DEF VerifyCommit, IInv, Sound, Inserting, Ordered
  <1>2. GatewayRows(g) = {}
    BY <1>0, <1>1 DEF IInv, FirstRow
  <1>3. extended[g] = 0 /\ extended \in [Gateways -> Nat]
    <2>1. extended[g] \in Nat /\ extended[g] <= 1 /\ extended[g] # 1
      BY <1>2 DEF IInv, TypeOK, OnlinePaymentCountsOnce
    <2>2. extended \in [Gateways -> Nat]
      BY DEF IInv, TypeOK
    <2>. QED BY <2>1, <2>2
  <1>4. extended' \in {extended, [extended EXCEPT ![g] = 1]}
    <2>1. CASE req[w].renews
      BY <1>0, <1>3, <2>1 DEF VerifyCommit
    <2>2. CASE ~req[w].renews
      BY <2>2 DEF VerifyCommit
    <2>. QED BY <2>1, <2>2
  <1>5. row.status = "SUCCESS" /\ row.online /\ row.ref = g
    OBVIOUS
  <1>. HIDE DEF row
  <1>6. PICK p \in Payments :
          payment[p] = NoRow /\ payment' = [payment EXCEPT ![p] = row]
    BY <1>1 DEF Insert
  <1>7. \A q \in Payments : payment'[q] = IF q = p THEN row ELSE payment[q]
    BY <1>6 DEF IInv, TypeOK
  <1>8. /\ GatewayRows(g)' = {p}
        /\ \A h \in Gateways \ {g} : GatewayRows(h)' = GatewayRows(h) /\ p \notin GatewayRows(h)
    BY <1>2, <1>5, <1>6, <1>7 DEF GatewayRows, NoRow
  <1>9. \A h \in Gateways \ {g} : \A q \in GatewayRows(h) : payment'[q] = payment[q]
    BY <1>7, <1>8 DEF GatewayRows
  <1>10. PhaseOf(g) = "ordered" /\ PhaseOf(g)' = "settled"
    BY <1>1, <1>2, <1>5, <1>7, <1>8 DEF PhaseOf
  <1>11. \A h \in Gateways \ {g} : PhaseOf(h)' = PhaseOf(h)
    BY <1>1, <1>8, <1>9 DEF PhaseOf
  <1>12. Phase[g] = "ordered" /\ Phase' = [Phase EXCEPT ![g] = "settled"]
    BY <1>1, <1>10, <1>11 DEF Phase
  <1>13. Once!Settle(g)
    BY <1>3, <1>4, <1>12 DEF Once!Settle, Once!Move
  <1>14. Ordered'
    BY <1>1, <1>8, CommitOrdered DEF IInv
  <1>. QED BY <1>1, <1>13, <1>14 DEF AbstractStep, Once!Next

LEMMA RecordCommitPhase ==
  ASSUME IInv, Ordered, NEW w \in Workers, RecordCommit(w)
  PROVE  AbstractStep /\ Ordered'
  <1>. DEFINE row == [status |-> "SUCCESS", invoice |-> req[w].invoice,
                      amount |-> req[w].amount, ref |-> req[w].ref, online |-> FALSE]
  <1>1. Insert(row) /\ Finish(w) /\ UNCHANGED <<order, extended>>
    BY DEF RecordCommit
  <1>2. row.online = FALSE
    OBVIOUS
  <1>. HIDE DEF row
  <1>. QED BY <1>1, <1>2, OfflineInsert, CommitOrdered DEF AbstractStep, IInv

LEMMA RenewalCommitPhase ==
  ASSUME IInv, Ordered, NEW w \in Workers, RenewalCommit(w)
  PROVE  AbstractStep /\ Ordered'
  <1>. DEFINE row == [status |-> "SUCCESS", invoice |-> req[w].invoice,
                      amount |-> Total, ref |-> None, online |-> FALSE]
  <1>1. /\ Insert(row) \/ UNCHANGED payment
        /\ Finish(w) /\ UNCHANGED <<order, extended>>
    BY DEF RenewalCommit
  <1>2. row.online = FALSE
    OBVIOUS
  <1>. HIDE DEF row
  <1>3. CASE Insert(row)
    BY <1>1, <1>2, <1>3, OfflineInsert, CommitOrdered DEF AbstractStep, IInv
  <1>4. CASE UNCHANGED payment
    BY <1>1, <1>4, Stutter, CommitOrdered DEF AbstractStep, IInv, GatewayRows
  <1>. QED BY <1>1, <1>3, <1>4

LEMMA RefundCommitPhase ==
  ASSUME IInv, Ordered, NEW w \in Workers, RefundCommit(w)
  PROVE  AbstractStep /\ Ordered'
  <1>. DEFINE p == req[w].payment
  <1>1. /\ p \in Payments /\ payment[p].status # "NONE"
        /\ payment' = [payment EXCEPT ![p].status = "REFUNDED"]
        /\ Finish(w) /\ UNCHANGED <<order, extended>>
    BY DEF RefundCommit, IInv, Sound
  <1>. HIDE DEF p
  <1>2. payment[p] \in Row
    BY <1>1 DEF IInv, TypeOK, NoRow
  <1>3. /\ \A q \in Payments : q # p => payment'[q] = payment[q]
        /\ payment'[p].status = "REFUNDED"
        /\ payment'[p].online = payment[p].online /\ payment'[p].ref = payment[p].ref
    BY <1>1, <1>2 DEF IInv, TypeOK, Row
  <1>4. \A g \in Gateways : GatewayRows(g)' = GatewayRows(g)
    BY <1>3 DEF GatewayRows
  <1>5. \A g \in Gateways : p \notin GatewayRows(g) => PhaseOf(g)' = PhaseOf(g)
    <2>1. ASSUME NEW g \in Gateways, p \notin GatewayRows(g)
          PROVE  \A q \in GatewayRows(g) : payment'[q] = payment[q]
      BY <1>3, <2>1 DEF GatewayRows
    <2>. QED BY <1>1, <1>4, <2>1 DEF PhaseOf
  <1>6. Ordered'
    BY <1>1, <1>4, CommitOrdered DEF IInv
  <1>7. CASE \A g \in Gateways : p \notin GatewayRows(g)
    BY <1>1, <1>5, <1>6, <1>7 DEF AbstractStep, Phase
  <1>8. ASSUME NEW g \in Gateways, p \in GatewayRows(g)
        PROVE  AbstractStep
    <2>1. GatewayRows(g) = {p} /\ order[g] # NoOrder
      BY <1>8 DEF IInv, OnlinePaymentCountsOnce, Ordered
    <2>2. \A h \in Gateways \ {g} : PhaseOf(h)' = PhaseOf(h)
      BY <1>5, <1>8 DEF GatewayRows
    <2>3. PhaseOf(g)' = "refunded"
      BY <1>1, <1>3, <1>4, <2>1 DEF PhaseOf
    <2>4. PhaseOf(g) \in {"settled", "refunded"}
      BY <2>1 DEF PhaseOf
    <2>5. Phase' = [Phase EXCEPT ![g] = "refunded"] /\ Phase[g] = PhaseOf(g)
      BY <2>2, <2>3 DEF Phase
    <2>6. CASE PhaseOf(g) = "settled"
      BY <1>1, <2>5, <2>6 DEF AbstractStep, Once!Next, Once!Refund, Once!Move
    <2>7. CASE PhaseOf(g) = "refunded"
      <3>1. Phase' = Phase
        BY <2>2, <2>3, <2>7 DEF Phase
      <3>. QED BY <1>1, <3>1 DEF AbstractStep
    <2>. QED BY <2>4, <2>6, <2>7
  <1>. QED BY <1>6, <1>7, <1>8

LEMMA IntentPhase ==
  ASSUME IInv, Ordered, NEW g \in Gateways, CreatePaymentIntent(g)
  PROVE  AbstractStep /\ Ordered'
  <1>1. PICK i \in Invoices, amount \in 1..Total :
          /\ order[g] = NoOrder
          /\ order' = [order EXCEPT ![g] = [invoice |-> i, amount |-> amount]]
    BY DEF CreatePaymentIntent
  <1>2. UNCHANGED <<payment, extended, req>>
    BY DEF CreatePaymentIntent
  <1>3. \A h \in Gateways : GatewayRows(h)' = GatewayRows(h)
    BY <1>2 DEF GatewayRows
  <1>4. order'[g] # NoOrder /\ \A h \in Gateways \ {g} : order'[h] = order[h]
    BY <1>1 DEF NoOrder, IInv, TypeOK
  <1>5. PhaseOf(g) = "unknown" /\ PhaseOf(g)' = "ordered"
    BY <1>1, <1>3, <1>4 DEF PhaseOf, Ordered
  <1>6. \A h \in Gateways \ {g} : PhaseOf(h)' = PhaseOf(h)
    BY <1>2, <1>3, <1>4 DEF PhaseOf
  <1>7. Once!Order(g)
    BY <1>2, <1>5, <1>6 DEF Once!Order, Once!Move, Phase
  <1>8. Ordered'
    BY <1>2, <1>3, <1>4 DEF Ordered, IInv, Sound
  <1>. QED BY <1>7, <1>8 DEF AbstractStep, Once!Next
-----------------------------------------------------------------------------
LEMMA InitPhase == Init => Once!Init /\ Ordered
  <1>. SUFFICES ASSUME Init PROVE Once!Init /\ Ordered
    OBVIOUS
  <1>1. \A g \in Gateways : order[g] = NoOrder /\ GatewayRows(g) = {}
    BY DEF Init, GatewayRows, NoRow
  <1>2. Once!Init
    BY <1>1 DEF Init, Once!Init, Phase, PhaseOf
  <1>. QED BY <1>1, <1>2, IdleOp DEF Init, Ordered

LEMMA NextPhase == IInv /\ Ordered /\ [Next]_vars => AbstractStep /\ Ordered'
  <1>. SUFFICES ASSUME IInv, Ordered, [Next]_vars PROVE AbstractStep /\ Ordered'
    OBVIOUS
  <1>1. ASSUME NEW w \in Workers, Handler(w)
        PROVE  AbstractStep /\ Ordered'
    BY <1>1, QuietStep, VerifyCommitPhase, RecordCommitPhase, RefundCommitPhase,
       RenewalCommitPhase DEF Handler, Quiet
  <1>2. CASE UNCHANGED vars
    BY <1>2, Stutter DEF vars, AbstractStep, Ordered, GatewayRows
  <1>. QED BY <1>1, <1>2, IntentPhase DEF Next

\* Whatever handlers interleave, repeat, roll back or die, a gateway payment goes
\* through ordered, settled and refunded once, and extends the subscription in
\* the step that settles it or never: PaymentSettlement implements GatewayOnce.
THEOREM Implements == Spec => SettlesOnce
  <1>1. IInv /\ Ordered /\ [Next]_vars => [Once!Next]_<<Phase, extended>>
    BY NextPhase DEF AbstractStep
  <1>2. IInv /\ Ordered /\ [Next]_vars => Ordered'
    BY NextPhase
  <1>. QED BY <1>1, <1>2, InitPhase, Invariance, PTL DEF Spec, SettlesOnce, Once!Spec
=============================================================================
