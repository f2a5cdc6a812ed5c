\* A confirm that commits after its proposal was read as expired.
CONSTANTS
  Workers = {w1, w2}
  Proposals = {p1}
  Copies = {c1}
  Loans = {l1, l2}
  None = None
  Lifetime = 1
  Kept = 1
  MaxTime = 2
SPECIFICATION Spec
SYMMETRY Symmetry
INVARIANTS
  ExpiredMeansNothingChanged
