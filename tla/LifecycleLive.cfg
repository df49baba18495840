SPECIFICATION LiveSpec
CONSTANTS
  s1 = s1
  w1 = w1
  p1 = p1
  None = None
  Scanner = Scanner
  Subs = {s1}
  Workers = {w1, Scanner}
  Plans = {p1}
  Duty <- DutyWithScanner
  Period = 1
  Grace = 1
  MaxTime = 3
  MaxEnd = 3
  Faulty = FALSE
PROPERTIES OverdueIsEnded DeniedSessionEnds
CHECK_DEADLOCK FALSE
