SPECIFICATION Spec
CONSTANTS
  s1 = s1
  s2 = s2
  w1 = w1
  p1 = p1
  p2 = p2
  None = None
  Scanner = Scanner
  Subs = {s1, s2}
  Workers = {w1}
  Plans = {p1, p2}
  Duty <- AnyDuty
  Period = 1
  Grace = 0
  MaxTime = 2
  MaxEnd = 2
  Faulty = FALSE
SYMMETRY Symmetry
INVARIANTS ActiveCustomerIsServed SpeedMatchesPlan
PROPERTIES CancelledIsTerminal ExpiredOnlyWhenOverdue
CHECK_DEADLOCK FALSE
