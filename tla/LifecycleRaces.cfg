SPECIFICATION Spec
CONSTANTS
  s1 = s1
  w1 = w1
  w2 = w2
  p1 = p1
  None = None
  Scanner = Scanner
  Subs = {s1}
  Workers = {w1, w2}
  Plans = {p1}
  Duty <- AnyDuty
  Period = 1
  Grace = 1
  MaxTime = 3
  MaxEnd = 4
  Faulty = TRUE
SYMMETRY Symmetry
INVARIANTS TypeOK AccessIsEarned
PROPERTIES RenewalGrantsFullPeriod
CHECK_DEADLOCK FALSE
