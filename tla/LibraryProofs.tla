--------------------------- MODULE LibraryProofs ---------------------------
(***************************************************************************)
(* The rules of the library follow from its business rules: no order of    *)
(* whole requests breaks one, for any titles, copies, loans and members.   *)
(***************************************************************************)
EXTENDS Library, TLAPS

LEMMA InitPromise == Init => Promise
BY DEF Init, Promise, TypeOK, Statuses, OneActiveLoanPerCopy, RemovedTitlesAreHome, HistoryIsKept,
   IsbnsAreUnique, LoansOf

LEMMA LentParts ==
  ASSUME Promise, NEW l \in Loans, lent[l] # None
  PROVE  lent[l] \in LoanParts /\ lent[l].copy \in Codes
BY DEF Promise, TypeOK, LoanParts

LEMMA Borrows ==
  ASSUME Promise, NEW l \in Loans, NEW c \in Codes, NEW m \in Members, Borrow(l, c, m)
  PROVE  Promise'
<1>1. PICK b \in Books : owner[c] = b /\ status[b] = "catalog"
  BY DEF Borrow
<1>2. /\ lent' = [lent EXCEPT ![l] = [copy |-> c, member |-> m]]
      /\ UNCHANGED <<status, isbn, owner, returned>>
      /\ \A k \in Loans \ returned : lent[k] # None => lent[k].copy # c
  BY DEF Borrow, OnLoan
<1>3. /\ lent' \in [Loans -> LoanParts \cup {None}] /\ lent'[l].copy = c
      /\ \A k \in Loans \ {l} : lent'[k] = lent[k]
  BY <1>2 DEF Promise, TypeOK, LoanParts
<1>4. TypeOK'
  BY <1>2, <1>3 DEF Promise, TypeOK
<1>5. OneActiveLoanPerCopy'
  BY <1>2, <1>3 DEF Promise, OneActiveLoanPerCopy
<1>6. RemovedTitlesAreHome'
  BY <1>1, <1>2, <1>3 DEF Promise, RemovedTitlesAreHome
<1>7. HistoryIsKept'
  BY <1>1, <1>2, <1>3 DEF Promise, HistoryIsKept, LoansOf, CopiesOf
<1>8. IsbnsAreUnique'
  BY <1>2 DEF Promise, IsbnsAreUnique
<1> QED
  BY <1>4, <1>5, <1>6, <1>7, <1>8 DEF Promise

LEMMA Returns ==
  ASSUME Promise, NEW l \in Loans, Return(l)
  PROVE  Promise'
BY DEF Return, Promise, TypeOK, OneActiveLoanPerCopy, RemovedTitlesAreHome, HistoryIsKept,
   IsbnsAreUnique, LoansOf, CopiesOf

\* New codes leave the copies of every other title as they were.
LEMMA Labels ==
  ASSUME Promise, NEW b \in Books, NEW new \in SUBSET Codes, Label(b, new),
         status'[b] = "catalog", status' \in [Books -> Statuses],
         \A d \in Books \ {b} : status'[d] = status[d],
         status[b] \in {"unknown", "catalog"},
         UNCHANGED <<lent, returned>>
  PROVE  /\ owner' \in [Codes -> Books \cup {None}]
         /\ OneActiveLoanPerCopy' /\ RemovedTitlesAreHome' /\ HistoryIsKept'
<1>1. /\ owner' \in [Codes -> Books \cup {None}]
      /\ \A c \in Codes : owner[c] # None => owner'[c] = owner[c]
      /\ \A c \in Codes, d \in Books \ {b} : owner'[c] = d => owner[c] = d
  BY DEF Label, Promise, TypeOK
<1>2. OneActiveLoanPerCopy'
  BY DEF Promise, OneActiveLoanPerCopy
<1>3. RemovedTitlesAreHome'
  <2>1. ASSUME NEW l \in Loans \ returned, lent[l] # None
        PROVE  \E d \in Books : owner'[lent[l].copy] = d /\ status'[d] = "catalog"
    <3>1. PICK d \in Books : owner[lent[l].copy] = d /\ status[d] = "catalog"
      BY <2>1 DEF Promise, RemovedTitlesAreHome
    <3>2. owner'[lent[l].copy] = d
      BY <1>1, <2>1, <3>1, LentParts, NoneAssumption
    <3> QED
      BY <3>1, <3>2
  <2> QED
    BY <2>1 DEF RemovedTitlesAreHome
<1>4. ASSUME NEW d \in Books, status'[d] = "deleted" PROVE LoansOf(d)' = {}
  <2>1. d # b /\ status[d] = "deleted"
    BY <1>4
  <2>2. LoansOf(d) = {}
    BY <2>1 DEF Promise, HistoryIsKept
  <2> QED
    BY <1>1, <2>1, <2>2 DEF LoansOf, CopiesOf
<1> QED
  BY <1>1, <1>2, <1>3, <1>4 DEF HistoryIsKept

LEMMA Creates ==
  ASSUME Promise, NEW b \in Books, NEW i \in Isbns \cup {None}, NEW new \in SUBSET Codes,
         Create(b, i, new)
  PROVE  Promise'
<1>1. /\ status[b] = "unknown" /\ IsbnFreeFor(i, b) /\ Label(b, new)
      /\ status' = [status EXCEPT ![b] = "catalog"] /\ isbn' = [isbn EXCEPT ![b] = i]
      /\ UNCHANGED <<lent, returned>>
  BY DEF Create
<1>2. /\ status' \in [Books -> Statuses] /\ status'[b] = "catalog"
      /\ isbn' \in [Books -> Isbns \cup {None}] /\ isbn'[b] = i
      /\ \A d \in Books \ {b} : status'[d] = status[d] /\ isbn'[d] = isbn[d]
  BY <1>1 DEF Promise, TypeOK, Statuses
<1>3. /\ owner' \in [Codes -> Books \cup {None}]
      /\ OneActiveLoanPerCopy' /\ RemovedTitlesAreHome' /\ HistoryIsKept'
  BY <1>1, <1>2, Labels
<1>4. IsbnsAreUnique'
  BY <1>1, <1>2 DEF Promise, IsbnsAreUnique, IsbnFreeFor
<1>5. TypeOK'
  BY <1>1, <1>2, <1>3 DEF Promise, TypeOK
<1> QED
  BY <1>3, <1>4, <1>5 DEF Promise

LEMMA AddsCopies ==
  ASSUME Promise, NEW b \in Books, NEW new \in SUBSET Codes, AddCopies(b, new)
  PROVE  Promise'
<1>1. status[b] = "catalog" /\ Label(b, new) /\ UNCHANGED <<status, isbn, lent, returned>>
  BY DEF AddCopies
<1>2. status' \in [Books -> Statuses]
  BY <1>1 DEF Promise, TypeOK
<1>3. /\ owner' \in [Codes -> Books \cup {None}]
      /\ OneActiveLoanPerCopy' /\ RemovedTitlesAreHome' /\ HistoryIsKept'
  BY <1>1, <1>2, Labels
<1>4. IsbnsAreUnique' /\ TypeOK'
  BY <1>1, <1>3 DEF Promise, IsbnsAreUnique, TypeOK
<1> QED
  BY <1>3, <1>4 DEF Promise

LEMMA Edits ==
  ASSUME Promise, NEW b \in Books, NEW i \in Isbns \cup {None}, Edit(b, i)
  PROVE  Promise'
<1>1. /\ status[b] = "catalog" /\ IsbnFreeFor(i, b) /\ isbn' = [isbn EXCEPT ![b] = i]
      /\ UNCHANGED <<status, owner, lent, returned>>
  BY DEF Edit
<1>2. /\ isbn' \in [Books -> Isbns \cup {None}] /\ isbn'[b] = i
      /\ \A d \in Books \ {b} : isbn'[d] = isbn[d]
  BY <1>1 DEF Promise, TypeOK
<1>3. IsbnsAreUnique'
  BY <1>1, <1>2 DEF Promise, IsbnsAreUnique, IsbnFreeFor
<1>4. TypeOK' /\ OneActiveLoanPerCopy' /\ RemovedTitlesAreHome' /\ HistoryIsKept'
  BY <1>1, <1>2 DEF Promise, TypeOK, OneActiveLoanPerCopy, RemovedTitlesAreHome, HistoryIsKept,
     LoansOf, CopiesOf
<1> QED
  BY <1>3, <1>4 DEF Promise

LEMMA Removes ==
  ASSUME Promise, NEW b \in Books, Remove(b)
  PROVE  Promise'
<1>1. /\ status' = [status EXCEPT ![b] = IF LoansOf(b) = {} THEN "deleted" ELSE "archived"]
      /\ \A c \in CopiesOf(b) : ~OnLoan(c)
      /\ UNCHANGED <<isbn, owner, lent, returned>>
  BY DEF Remove
<1>2. /\ status' \in [Books -> Statuses]
      /\ status'[b] = "deleted" => LoansOf(b) = {}
      /\ status'[b] \in {"deleted", "archived"}
      /\ \A d \in Books \ {b} : status'[d] = status[d]
  BY <1>1 DEF Promise, TypeOK, Statuses
<1>3. RemovedTitlesAreHome'
  <2>1. ASSUME NEW l \in Loans \ returned, lent[l] # None
        PROVE  \E d \in Books : owner[lent[l].copy] = d /\ status'[d] = "catalog"
    <3>1. PICK d \in Books : owner[lent[l].copy] = d /\ status[d] = "catalog"
      BY <2>1 DEF Promise, RemovedTitlesAreHome
    <3>2. d # b
      BY <1>1, <2>1, <3>1, LentParts DEF OnLoan, CopiesOf
    <3> QED
      BY <1>2, <3>1, <3>2
  <2> QED
    BY <1>1, <2>1 DEF RemovedTitlesAreHome
<1>4. HistoryIsKept'
  BY <1>1, <1>2 DEF Promise, HistoryIsKept, LoansOf, CopiesOf
<1>5. TypeOK' /\ OneActiveLoanPerCopy' /\ IsbnsAreUnique'
  BY <1>1, <1>2 DEF Promise, TypeOK, OneActiveLoanPerCopy, IsbnsAreUnique
<1> QED
  BY <1>3, <1>4, <1>5 DEF Promise

LEMMA NextPromise == Promise /\ [Next]_vars => Promise'
<1>1. ASSUME Promise, UNCHANGED vars PROVE Promise'
  BY <1>1 DEF vars, Promise, TypeOK, OneActiveLoanPerCopy, RemovedTitlesAreHome, HistoryIsKept,
     IsbnsAreUnique, LoansOf, CopiesOf
<1> QED
  BY <1>1, Borrows, Returns, Creates, AddsCopies, Edits, Removes DEF Next

\* The rules of circulation and catalog hold whatever order whole requests come in: the
\* promise is inductive as it stands.
THEOREM PromiseHolds == Spec => []Promise
<1> QED
  BY InitPromise, NextPromise, PTL DEF Spec
=============================================================================
