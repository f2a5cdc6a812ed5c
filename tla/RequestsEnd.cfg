\* Every request ends, whatever it waits for: a row, the index entry of a loan,
\* of an ISBN or of a change.
CONSTANTS
  Workers = {w1, w2}
  Books = {b1, b2}
  Loans = {l1}
  Members = {m1}
  Isbns = {i1}
  None = None
  MaxCopies = 2
  MaxBatch = 1
  MaxTime = 0
SPECIFICATION FairSpec
PROPERTIES
  RequestsEnd
