\* Two loans of one copy, and the times they are stored with.
CONSTANTS
  Workers = {w1, w2}
  Books = {b1}
  Loans = {l1, l2}
  Members = {m1}
  Isbns = {}
  None = None
  MaxCopies = 1
  MaxBatch = 1
  MaxTime = 2
SPECIFICATION Spec
SYMMETRY Symmetry
INVARIANTS
  LoansOfACopyDoNotOverlap
