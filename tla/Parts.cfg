\* Two users, two messages in a minute of three readings; two lookups at once of
\* three ISBNs with room for two; a call with up to five seconds; eight months of
\* up to three, with years of two; a history of six opening days.
CONSTANTS
  Users = {u1, u2}
  Limit = 2
  Window = 3
  MaxTime = 7
  None = None
  Requests = {r1, r2}
  Isbns = {i1, i2, i3}
  MaxCached = 2
  CacheSeconds = 2
  Timeout = 1
  MaxLookupTime = 4
  Timeouts = {0, 1, 2, 3, 5}
  Headers <- TheHeaders
  MaxCallTime = 7
  YEAR = 2
  MIN_TESTS = 2
  MIN_MONTHLY_AVERAGE = 1
  MaxMonths = 8
  MaxCount = 3
  Horizons = {1, 2}
  dune = dune
  emma = emma
  Readers = {maya, omar}
  Demo = maya
  Titles = {dune, emma}
  CopiesOf <- TheCopiesOf
  Closed = {4}
  LastDay = 7
  ShelvingDays = 1
  LoanPeriodDays = 2
  MaxActiveLoans = 1
  Late = {1}
  LaterSpans <- TheLaterSpans
  DemoOverdue = 2
SPECIFICATION PartsSpec
SYMMETRY Symmetry
\* A history and a series come to their end.
CHECK_DEADLOCK FALSE
INVARIANTS
  NoMinuteHoldsMore
  RefusedOnlyAtTheLimit
  NoAnswerIsADayOld
  CallsFitTheirDeadline
  ForecastsAreSound
  LoansKeepTheRules
PROPERTIES
  OnlyTheOldestMakeRoom
