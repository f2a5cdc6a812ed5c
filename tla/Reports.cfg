\* A library around the end of February of a leap year, and a year later.
CONSTANTS
  dune = dune
  emma = emma
  fiction = fiction
  herbert = herbert
  austen = austen
  maya = maya
  omar = omar
  None = None
  Books = {dune, emma}
  Members = {maya, omar}
  Copies = {1, 2, 3}
  BookOf <- TheBookOf
  Category <- TheCategory
  Author <- TheAuthor
  Added <- TheAdded
  Joined <- TheJoined
  LoanPeriodDays = 29
  DueDays = {None, 0}
  MaxLoans = 2
  MomentsWith <- TheMomentsWith
  FirstYear = 2021
  LastYear = 2026
  Asked <- TheQueries
  Horizons = {1}
  Histories <- TheHistories
SPECIFICATION Spec
\* The last loan is back at the last moment.
CHECK_DEADLOCK FALSE
INVARIANTS
  MembersSeeOnlyTheirOwn
  AnswersCanBeQuoted
  ViewsAgree
  FiguresAddUp
