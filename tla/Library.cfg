\* The promise, one whole request after another.
CONSTANTS
  Books = {b1, b2}
  Loans = {l1, l2, l3}
  Members = {m1}
  Isbns = {i1}
  None = None
  MaxCopies = 3
SPECIFICATION Spec
SYMMETRY Symmetry
\* Every title removed and every code used: the bounded library has come to its end.
CHECK_DEADLOCK FALSE
INVARIANTS
  Promise
