----------------------------- MODULE MCLibrary -----------------------------
\* Library on a small instance.
EXTENDS Library, TLC

Symmetry == Permutations(Books) \cup Permutations(Loans)
============================================================================
