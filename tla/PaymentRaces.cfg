SPECIFICATION Spec
CONSTANTS
  i1 = i1
  g1 = g1
  p1 = p1
  p2 = p2
  w1 = w1
  w2 = w2
  None = None
  Invoices = {i1}
  Linked = {i1}
  Gateways = {g1}
  Payments = {p1, p2}
  Workers = {w1, w2}
  Total = 2
  Refunds = {1, 2}
  Today = 0
  Period = 1
  MaxEnd = 2
SYMMETRY Symmetry
INVARIANTS TypeOK OnlinePaymentCountsOnce PaidIsCovered StatusMatchesPaid
PROPERTIES SettlesOnce
CHECK_DEADLOCK FALSE
