---------------------------- MODULE MCProposals ----------------------------
\* Proposals on a small instance.
EXTENDS Proposals, TLC

Symmetry == Permutations(Workers) \cup Permutations(Proposals) \cup Permutations(Copies)
            \cup Permutations(Loans)

\* Bound: a second proposal only while nothing was lent or archived, and the last
\* reading of the clock only for it.
Stirs(p) == proposal[p].status # "absent" \/ \E w \in Workers : req[w].proposal = p
TwoOrLent ==
  \/ made = {} /\ archived = {}
  \/ clock < MaxTime /\ Cardinality({p \in Proposals : Stirs(p)}) <= 1
=============================================================================
