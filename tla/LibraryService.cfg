\* Two requests at a time on two titles, every pair of operations interleaved
\* statement by statement; and transactions that begin at one reading of the
\* clock and write at a later one, on one title.
CONSTANTS
  Workers = {w1, w2}
  Books = {b1, b2}
  Loans = {l1, l2}
  Members = {m1}
  Isbns = {i1}
  None = None
  MaxCopies = 2
  MaxBatch = 1
  MaxTime = 3
SPECIFICATION Spec
SYMMETRY Symmetry
CONSTRAINT TimeOrTitles
INVARIANTS
  OneActiveLoanPerCopy
  RemovedTitlesAreHome
  CopiesFollowTheirTitle
  IsbnsAreUnique
  CodesAreHandedOutOnce
  NoDeadlock
  ReturnsFollowBorrows
PROPERTIES
  HistoryOnlyGrows
  ImplementsLibrary
