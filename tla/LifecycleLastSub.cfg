SPECIFICATION Spec
CONSTANTS
  s1 = s1
  s2 = s2
  w1 = w1
  w2 = w2
  p1 = p1
  None = None
  Scanner = Scanner
  Subs = {s1, s2}
  Workers = {w1, w2}
  Plans = {p1}
  Duty <- AnyDuty
  Period = 1
  Grace = 0
  MaxTime = 2
  MaxEnd = 2
  Faulty = FALSE
SYMMETRY Symmetry
INVARIANTS ActiveCustomerIsServed
CHECK_DEADLOCK FALSE
