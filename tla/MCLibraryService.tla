-------------------------- MODULE MCLibraryService --------------------------
(* Small instances of LibraryService for TLC. *)
EXTENDS LibraryService, TLC

\* Ids are interchangeable: nothing in the services compares or orders them.
Symmetry == Permutations(Workers) \cup Permutations(Books) \cup Permutations(Loans)
            \cup Permutations(Isbns) \cup Permutations(Members)

\* Bound: the clock moves only while the library is one title without an ISBN
\* and one copy; at its first reading the whole instance is explored.
Touched(b) == book[b].state # "absent" \/ \E w \in Workers : req[w].book = b
OneTitle ==
  /\ Cardinality({b \in Books : Touched(b)}) <= 1
  /\ seq <= 2
  /\ \A b \in Books : book[b].isbn = None
  /\ \A w \in Workers : req[w].isbn = None
TimeOrTitles == clock = 0 \/ OneTitle
=============================================================================
