------------------------------ MODULE MCParts ------------------------------
\* The parts on small instances.
EXTENDS Parts, TLC

CONSTANTS dune, emma

Symmetry == Permutations(Users) \cup Permutations(Requests) \cup Permutations(Isbns)

\* Nothing, a date in the past, a wait of a moment, and waits that fit or do not.
TheHeaders == {None, -1, 0, 2, 3}
TheCopiesOf == (dune :> 2 @@ emma :> 1)
TheLaterSpans == {<<1, 4>>, <<7, 12>>}
============================================================================
