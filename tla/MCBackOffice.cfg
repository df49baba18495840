SPECIFICATION MCSpec
CONSTANTS
  w1 = w1
  w2 = w2
  Writers = {w1, w2}
  Plans = {"p1", "p2"}
  Price <- PlanPrice
  Rate <- PlanRate
  Periods = {1}
  Events <- Billable
  ManualItems <- Fees
  Discounts = {1000}
  Stamps = {1}
  MaxRows = 2
  c1 = c1
  c2 = c2
  Customers = {c1, c2}
  Workers = {w1, w2}
  LoginNames = {"ann", "bob"}
  Candidates <- BothForms
  Passwords = {"p1", "p2"}
  Macs = {"m1"}
  Changes <- OneByOne
  r1 = r1
  Routers = {w1, w2, r1}
  PublicHosts = {"h1", "h2"}
  Pool = {"v1", "v2"}
  Secrets = {"s1", "s2"}
  FirstYear = 2023
  MaxMonths = 26
INVARIANTS LedgerTypeOK OneInvoicePerEvent RefusedOnlyBesideAnother HeaderMatchesItems
  AccountsTypeOK LockedOutWhenSuspended OldNameIsDead
  FleetTypeOK SecretsMatchRouters NasServesRouters CalendarTypeOK MonthsAreServed
PROPERTIES OnlyStaleHandlersBreakLogins
SYMMETRY Symmetry
CHECK_DEADLOCK FALSE
