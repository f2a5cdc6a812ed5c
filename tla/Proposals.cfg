\* Two requests at a time on a proposal while the desk lends, takes back and
\* archives; and two proposals, one stored while the other is resolved and pruned.
CONSTANTS
  Workers = {w1, w2}
  Proposals = {p1, p2}
  Copies = {c1}
  Loans = {l1, l2}
  None = None
  Lifetime = 1
  Kept = 1
  MaxTime = 3
SPECIFICATION Spec
SYMMETRY Symmetry
CONSTRAINT TwoOrLent
INVARIANTS
  ChangedIffConfirmed
  ToldOnce
  ResultIsOfTheChange
PROPERTIES
  ResolvedOnce
  PrunedLate
