------------------------------ MODULE Library ------------------------------
(***************************************************************************)
(* What the library promises, one atomic step per change: no transactions, *)
(* no locks, no waiting, no two requests at once.  Each action carries the *)
(* whole of its business rule in its guard.  LibraryService shows that the *)
(* services, running concurrently and statement by statement on PostgreSQL *)
(* with READ COMMITTED transactions, commit only steps of this module.     *)
(***************************************************************************)
EXTENDS Naturals, FiniteSets

CONSTANTS
  Books,      \* ids of titles, used or not yet
  Loans,      \* ids of loans, made or not yet
  Members,    \* the library's members
  Isbns,      \* the ISBNs a title can have
  None,       \* no ISBN, no book, no loan
  MaxCopies   \* bound: copy codes CP-0001 up to this number

ASSUME MaxCopiesAssumption == MaxCopies \in Nat

Codes == 1..MaxCopies

ASSUME NoneAssumption ==
  /\ None \notin Books \cup Loans \cup Isbns \cup Members
  /\ None \notin [copy: Codes, member: Members]

VARIABLES
  status,     \* [Books -> "unknown", "catalog", "archived" or "deleted"]
  isbn,       \* [Books -> the title's ISBN or None]
  owner,      \* [Codes -> the title the copy belongs to or None]; a deleted
              \*   title keeps its codes, so that no code is used again
  lent,       \* [Loans -> the copy and the member, or None]: never changes
  returned    \* the loans that have ended

vars == <<status, isbn, owner, lent, returned>>

Statuses == {"unknown", "catalog", "archived", "deleted"}
LoanParts == [copy: Codes, member: Members]

TypeOK ==
  /\ status \in [Books -> Statuses]
  /\ isbn \in [Books -> Isbns \cup {None}]
  /\ owner \in [Codes -> Books \cup {None}]
  /\ lent \in [Loans -> LoanParts \cup {None}]
  /\ returned \subseteq Loans

Init ==
  /\ status = [b \in Books |-> "unknown"]
  /\ isbn = [b \in Books |-> None]
  /\ owner = [c \in Codes |-> None]
  /\ lent = [l \in Loans |-> None]
  /\ returned = {}

CopiesOf(b) == {c \in Codes : owner[c] = b}
LoansOf(b) == {l \in Loans : lent[l] # None /\ lent[l].copy \in CopiesOf(b)}
OnLoan(c) == \E l \in Loans \ returned : lent[l] # None /\ lent[l].copy = c

IsbnFreeFor(i, b) ==
  i # None => \A other \in Books \ {b} : ~(status[other] = "catalog" /\ isbn[other] = i)

Borrow(l, c, m) ==
  /\ lent[l] = None
  /\ \E b \in Books : owner[c] = b /\ status[b] = "catalog"
  /\ ~OnLoan(c)
  /\ lent' = [lent EXCEPT ![l] = [copy |-> c, member |-> m]]
  /\ UNCHANGED <<status, isbn, owner, returned>>

Return(l) ==
  /\ lent[l] # None
  /\ l \notin returned
  /\ returned' = returned \cup {l}
  /\ UNCHANGED <<status, isbn, owner, lent>>

\* New copies take codes that no copy ever had, not even one of a deleted title.
Label(b, new) ==
  /\ new # {}
  /\ \A c \in new : owner[c] = None
  /\ owner' = [c \in Codes |-> IF c \in new THEN b ELSE owner[c]]

Create(b, i, new) ==
  /\ status[b] = "unknown"
  /\ IsbnFreeFor(i, b)
  /\ Label(b, new)
  /\ status' = [status EXCEPT ![b] = "catalog"]
  /\ isbn' = [isbn EXCEPT ![b] = i]
  /\ UNCHANGED <<lent, returned>>

AddCopies(b, new) ==
  /\ status[b] = "catalog"
  /\ Label(b, new)
  /\ UNCHANGED <<status, isbn, lent, returned>>

Edit(b, i) ==
  /\ status[b] = "catalog"
  /\ IsbnFreeFor(i, b)
  /\ isbn' = [isbn EXCEPT ![b] = i]
  /\ UNCHANGED <<status, owner, lent, returned>>

\* A title with loan history is archived, one without is deleted, and neither
\* while a copy is out.  RemoveWhileLent is a mutant without the last rule.
RemoveWhileLent(b) ==
  /\ status[b] = "catalog"
  /\ status' = [status EXCEPT ![b] = IF LoansOf(b) = {} THEN "deleted" ELSE "archived"]
  /\ UNCHANGED <<isbn, owner, lent, returned>>

Remove(b) ==
  /\ status[b] = "catalog"
  /\ \A c \in CopiesOf(b) : ~OnLoan(c)
  /\ status' = [status EXCEPT ![b] = IF LoansOf(b) = {} THEN "deleted" ELSE "archived"]
  /\ UNCHANGED <<isbn, owner, lent, returned>>

Next ==
  \/ \E l \in Loans, c \in Codes, m \in Members : Borrow(l, c, m)
  \/ \E l \in Loans : Return(l)
  \/ \E b \in Books, i \in Isbns \cup {None}, new \in SUBSET Codes : Create(b, i, new)
  \/ \E b \in Books, new \in SUBSET Codes : AddCopies(b, new)
  \/ \E b \in Books, i \in Isbns \cup {None} : Edit(b, i)
  \/ \E b \in Books : Remove(b)

Spec == Init /\ [][Next]_vars

-----------------------------------------------------------------------------
\* What follows from the promise.

(* A copy is out to at most one member at a time (product-spec C05, the    *)
(* partial unique index uq_loans_copy_id_active).                          *)
OneActiveLoanPerCopy ==
  \A l, k \in Loans \ returned :
    (lent[l] # None /\ lent[k] # None /\ lent[l].copy = lent[k].copy) => l = k

(* Nothing of a title that left the catalog is still out: archiving and    *)
(* deleting refuse while a copy is on loan, and lending refuses afterwards.*)
RemovedTitlesAreHome ==
  \A l \in Loans \ returned :
    lent[l] # None => \E b \in Books : owner[lent[l].copy] = b /\ status[b] = "catalog"

(* A title with a loan, ended or not, is never deleted: the history stays  *)
(* readable (product-spec E15).                                            *)
HistoryIsKept == \A b \in Books : status[b] = "deleted" => LoansOf(b) = {}

(* Two titles in the catalog never share an ISBN (uq_books_isbn_active).   *)
IsbnsAreUnique ==
  \A b, d \in Books :
    (status[b] = "catalog" /\ status[d] = "catalog" /\ isbn[b] # None /\ isbn[b] = isbn[d])
      => b = d

(* The rules together: no order of whole requests breaks one.             *)
Promise ==
  /\ TypeOK
  /\ OneActiveLoanPerCopy
  /\ RemovedTitlesAreHome
  /\ HistoryIsKept
  /\ IsbnsAreUnique
=============================================================================
