SPECIFICATION LedgerSpec
CONSTANTS
  w1 = w1
  Writers = {w1}
  Plans = {"p1"}
  Price <- HundredRupees
  Rate <- ReducedRate
  Periods = {1}
  Events <- Renewals
  ManualItems = {}
  Discounts = {}
  Stamps = {1}
  MaxRows = 2
INVARIANT HeaderMatchesItems
CHECK_DEADLOCK FALSE
