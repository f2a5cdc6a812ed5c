------------------------ MODULE LibraryServiceProofs ------------------------
(***************************************************************************)
(* IInv of LibraryService is an invariant, and with it types and rules,    *)
(* for any number of workers, titles, copies, loans, members and ISBNs.    *)
(*                                                                         *)
(* IInv has rules about the committed rows and rules about the requests    *)
(* under way.  A step before the commit leaves the rows alone and moves    *)
(* one request on (Moves): it can disturb only the rules about the stage   *)
(* that the request comes to.  A commit changes the rows and ends the      *)
(* request: what the request held makes the rows' rules true again, and    *)
(* the locks and keys of the other requests keep theirs.                   *)
(*                                                                         *)
(* From it follows that the services implement Library: a step before a    *)
(* commit leaves the rows alone, and a commit is one step of Library whose *)
(* guard IInv makes true at that moment.  Then what the services never do  *)
(* to the history, the order of its times, and why requests never all wait *)
(* for each other.                                                         *)
(***************************************************************************)
EXTENDS LibraryService, TLAPS

-----------------------------------------------------------------------------
\* Types

(* Types alone are not inductive: a delete's commit writes the outcome it  *)
(* decided, and a step looks up the row its request names.                 *)
TypeInv == TypeOK /\ NamedIds /\ DeletesDecide

LEMMA InitTypeInv == Init => TypeInv
<1> SUFFICES ASSUME Init PROVE TypeInv
  OBVIOUS
<1>1. TypeOK
  <2>1. handed \in HandedNumbers
    BY DEF Init, HandedNumbers
  <2> QED
    BY <2>1, BoundsAssumption DEF Init, TypeOK, BookRow, CopyRow, LoanRow, RowStates, LoanStates,
       Codes, NoCode, Idle, Request, Operations, Stages
<1>2. NamedIds /\ DeletesDecide
  BY DEF Init, NamedIds, DeletesDecide, Idle
<1> QED
  BY <1>1, <1>2 DEF TypeInv

LEMMA DecidedRequest ==
  ASSUME NEW r \in Request, NEW o \in {"deleted", "archived"}
  PROVE  [r EXCEPT !.at = "decided", !.outcome = o] \in Request
  BY Zenon DEF Request, Stages

USE DEF RowStates, LoanStates, Operations, Stages, NoCode

LEMMA CirculationTypes ==
  ASSUME TypeInv, NEW w \in Workers, CirculationStep(w)
  PROVE  TypeInv'
<1> USE DEF TypeInv, TypeOK, NamedIds, DeletesDecide, At, Advance, End, rows, Request, Idle
<1>1. CASE BorrowFind(w)
  BY <1>1, SMTT(30) DEF BorrowFind, CopyRow
<1>2. CASE BorrowLock(w)
  BY <1>2 DEF BorrowLock
<1>3. CASE BorrowCheck(w)
  BY <1>3 DEF BorrowCheck
<1>4. CASE BorrowInsert(w)
  BY <1>4 DEF BorrowInsert
<1>5. CASE BorrowCommit(w)
  BY <1>5 DEF BorrowCommit, BorrowedLoan, LoanRow
<1>6. CASE ReturnUpdate(w)
  BY <1>6 DEF ReturnUpdate
<1>7. CASE ReturnCommit(w)
  <2>1. loan' \in [Loans -> LoanRow]
    BY <1>7 DEF ReturnCommit, LoanRow
  <2> QED
    BY <1>7, <2>1 DEF ReturnCommit
<1> QED
  BY <1>1, <1>2, <1>3, <1>4, <1>5, <1>6, <1>7 DEF CirculationStep

LEMMA CatalogTypes ==
  ASSUME TypeInv, NEW w \in Workers, CatalogStep(w)
  PROVE  TypeInv'
<1> USE DEF TypeInv, TypeOK, NamedIds, DeletesDecide, At, Advance, End, rows, Request, Idle
<1>1. CASE CreateCheck(w)
  BY <1>1 DEF CreateCheck
<1>2. CASE CreateInsert(w)
  BY <1>2 DEF CreateInsert, WriteIsbn
<1>3. CASE CreateCommit(w)
  BY <1>3 DEF CreateCommit, CopiesWith, BookRow, CopyRow
<1>4. CASE EditLock(w)
  BY <1>4 DEF EditLock, Lock
<1>5. CASE EditCheck(w)
  BY <1>5, SMTT(30) DEF EditCheck
<1>6. CASE EditFlush(w)
  BY <1>6 DEF EditFlush, WriteIsbn
<1>7. CASE EditCommit(w)
  BY <1>7 DEF EditCommit, BookRow
<1>8. CASE DeleteLock(w)
  BY <1>8 DEF DeleteLock, Lock
<1>9. CASE DeleteCheckOnLoan(w)
  <2>1. CASE End(w) /\ UNCHANGED <<rows, seq, handed, clock>>
    BY <2>1
  <2>2. CASE req' = [req EXCEPT ![w].at = "checked"] /\ UNCHANGED <<rows, seq, handed, clock>>
    BY <1>9, <2>2 DEF DeleteCheckOnLoan
  <2> QED
    BY <1>9, <2>1, <2>2 DEF DeleteCheckOnLoan
<1>10. CASE DeleteDecide(w)
  <2> DEFINE Decides(o) == /\ req[w].op = "delete"
                           /\ req' = [req EXCEPT ![w].at = "decided", ![w].outcome = o]
                           /\ UNCHANGED <<rows, seq, handed, clock>>
  <2>1. Decides("deleted") \/ Decides("archived")
    BY <1>10 DEF DeleteDecide
  <2>2. ASSUME NEW o \in {"deleted", "archived"}, Decides(o) PROVE TypeInv'
    <3>1. [req[w] EXCEPT !.at = "decided", !.outcome = o] \in Request
      <4>1. req[w] \in Request
        OBVIOUS
      <4> HIDE DEF Request, TypeInv
      <4> QED
        BY <4>1, <2>2, DecidedRequest
    <3>2. req' = [req EXCEPT ![w] = [req[w] EXCEPT !.at = "decided", !.outcome = o]]
      BY <2>2
    <3>3. req' \in [Workers -> Request]
      BY <3>1, <3>2
    <3> QED
      BY <2>2, <3>3
  <2> QED
    BY <2>1, <2>2
<1>11. CASE DeleteFlush(w)
  BY <1>11 DEF DeleteFlush
<1>12. CASE DeleteCommit(w)
  BY <1>12 DEF DeleteCommit, BookRow, CopyRow
<1>13. CASE AddLock(w)
  BY <1>13 DEF AddLock, Lock
<1>14. CASE AddCommit(w)
  BY <1>14 DEF AddCommit, CopiesWith, CopyRow
<1>15. CASE AllocateCode(w)
  <2> USE DEF AllocateCode, Takes
  <2>1. seq \in Codes /\ seq' \in 1..(MaxCopies + 1)
    BY <1>15, BoundsAssumption DEF Codes, Nextval
  <2>2. req[w].count - 1 \in Nat
    BY <1>15
  <2>3. req' \in [Workers -> Request]
    BY <1>15, <2>1, <2>2
  <2>4. handed' \in HandedNumbers
    BY <1>15, <2>1 DEF Nextval, HandedNumbers
  <2> QED
    BY <1>15, <2>1, <2>3, <2>4
<1> QED
  BY <1>1, <1>2, <1>3, <1>4, <1>5, <1>6, <1>7, <1>8, <1>9, <1>10, <1>11, <1>12, <1>13, <1>14,
     <1>15 DEF CatalogStep

LEMMA NextTypeInv == TypeInv /\ [Next]_vars => TypeInv'
<1> SUFFICES ASSUME TypeInv, [Next]_vars PROVE TypeInv'
  OBVIOUS
<1> USE DEF TypeInv, TypeOK, NamedIds, DeletesDecide
<1>1. ASSUME NEW w \in Workers, BeginCirculation(w) PROVE TypeInv'
  <2> USE DEF rows, Begin, Request, Idle
  <2>1. ASSUME NEW c \in Codes, NEW m \in Members \cup {None}, NEW l \in Loans,
               BeginBorrow(w, c, m, l)
        PROVE  TypeInv'
    BY <2>1 DEF BeginBorrow
  <2>2. ASSUME NEW l \in Loans, BeginReturn(w, l) PROVE TypeInv'
    BY <2>2 DEF BeginReturn
  <2> QED
    BY <1>1, <2>1, <2>2 DEF BeginCirculation
<1>2. ASSUME NEW w \in Workers, BeginCatalog(w) PROVE TypeInv'
  <2> USE DEF rows, Begin, Request, Idle
  <2>1. ASSUME NEW b \in Books, NEW i \in Isbns \cup {None}, NEW n \in 1..MaxBatch,
               BeginCreate(w, b, i, n)
        PROVE  TypeInv'
    <3>1. n \in Nat
      BY BoundsAssumption
    <3>2. /\ req' = [req EXCEPT ![w] =
                      [Idle EXCEPT !.op = "create", !.at = "begun", !.began = clock,
                                   !.book = b, !.isbn = i, !.count = n]]
          /\ UNCHANGED <<book, copy, loan, seq, handed, clock>>
      BY <2>1 DEF BeginCreate
    <3> QED
      BY <3>1, <3>2
  <2>2. ASSUME NEW b \in Books, NEW op \in {"edit", "delete", "add"},
               NEW i \in Isbns \cup {None}, NEW n \in Nat, BeginChange(w, op, b, i, n)
        PROVE  TypeInv'
    BY <2>2 DEF BeginChange
  <2> QED
    <3>1. \A n \in 1..MaxBatch : n \in Nat
      BY BoundsAssumption
    <3>2. None \in Isbns \cup {None} /\ 0 \in Nat
      OBVIOUS
    <3> HIDE DEF TypeInv, Begin, Idle, Request, rows
    <3>3. CASE \E b \in Books, i \in Isbns \cup {None}, n \in 1..MaxBatch : BeginCreate(w, b, i, n)
      BY <3>3, <2>1
    <3>4. CASE \E b \in Books, i \in Isbns \cup {None} : BeginChange(w, "edit", b, i, 0)
      BY <3>4, <3>2, <2>2
    <3>5. CASE \E b \in Books : BeginChange(w, "delete", b, None, 0)
      BY <3>5, <3>2, <2>2
    <3>6. CASE \E b \in Books, n \in 1..MaxBatch : NumbersLeft(n) /\ BeginChange(w, "add", b, None, n)
      BY <3>6, <3>1, <3>2, <2>2
    <3> QED
      BY <1>2, <3>3, <3>4, <3>5, <3>6 DEF BeginCatalog
<1>3. ASSUME NEW w \in Workers, Abort(w) PROVE TypeInv'
  BY <1>3 DEF Abort, End, rows, Request, Idle
<1>4. CASE Tick
  BY <1>4 DEF Tick, rows
<1>5. CASE UNCHANGED vars
  BY <1>5 DEF vars, At
<1> QED
  BY <1>1, <1>2, <1>3, <1>4, <1>5, CirculationTypes, CatalogTypes DEF Next

THEOREM TypeInvariance == Spec => []TypeInv
<1>1. TypeInv /\ [Next]_vars => TypeInv'
  BY NextTypeInv
<1> QED
  BY InitTypeInv, <1>1, PTL DEF Spec

(* Every reachable state is well typed.                                    *)
THEOREM TypeCorrect == Spec => []TypeOK
<1>1. TypeInv => TypeOK
  BY DEF TypeInv
<1> QED
  BY TypeInvariance, <1>1, PTL

-----------------------------------------------------------------------------
\* Rows and requests

RowRules ==
  /\ References
  /\ CopiesFollowTheirTitle
  /\ NumbersAreUsedUp
  /\ OneActiveLoanPerCopy
  /\ RemovedTitlesAreHome
  /\ HistoryIsKept
  /\ IsbnsAreUnique

RequestRules ==
  /\ LocksExclude
  /\ FreshIds
  /\ NamedRows
  /\ BorrowsHold
  /\ ReturnsHold
  /\ ChangesHold
  /\ IsbnsHold
  /\ CodesHold

LEMMA IInvParts == IInv <=> TypeInv /\ RowRules /\ RequestRules /\ HandedInOrder
  BY DEF IInv, TypeInv, RowRules, RequestRules

\* The rows' rules speak of nothing but the rows and the sequence.
LEMMA RowsStand ==
  ASSUME RowRules, UNCHANGED <<book, copy, loan, seq>>
  PROVE  RowRules'
  BY DEF RowRules, References, CopiesFollowTheirTitle, NumbersAreUsedUp, OneActiveLoanPerCopy,
     RemovedTitlesAreHome, HistoryIsKept, IsbnsAreUnique, HasIsbn

-----------------------------------------------------------------------------
\* Steps before the commit

OthersStand(w) == \A v \in Workers : v # w => req'[v] = req[v]

\* The request of w, and no other, goes from one stage to another as it is.
Moves(w, op, from, to) ==
  /\ req[w].op = op /\ req[w].at = from
  /\ req'[w].op = op /\ req'[w].at = to
  /\ req'[w].book = req[w].book
  /\ req'[w].copy = req[w].copy
  /\ req'[w].loan = req[w].loan
  /\ req'[w].member = req[w].member
  /\ req'[w].isbn = req[w].isbn
  /\ req'[w].codes = req[w].codes
  /\ req'[w].outcome = req[w].outcome
  /\ OthersStand(w)
  /\ UNCHANGED <<book, copy, loan, seq>>

LEMMA Moving ==
  ASSUME TypeOK, NEW w \in Workers, NEW op, NEW from, NEW to \in Stages,
         At(w, op, from), Advance(w, to), UNCHANGED <<rows, seq, handed, clock>>
  PROVE  Moves(w, op, from, to)
<1>1. req[w] \in Request
  BY DEF TypeOK
<1>2. req'[w] = [req[w] EXCEPT !.at = to] /\ OthersStand(w)
  BY DEF TypeOK, Advance, OthersStand
<1> QED
  BY <1>1, <1>2 DEF Moves, At, Request, rows

\* A request that ends without a commit takes nothing from the others.
LEMMA Ending ==
  ASSUME TypeOK, NEW w \in Workers, End(w)
  PROVE  req'[w] = Idle /\ OthersStand(w)
  BY DEF TypeOK, End, OthersStand

USE DEF ShareLocks, UpdateLocks, PendingBorrow, PendingReturn, PendingIsbn, At

LEMMA EndKeeps ==
  ASSUME RequestRules, TypeOK, NEW w \in Workers, End(w), UNCHANGED <<book, copy, loan, seq>>
  PROVE  RequestRules'
<1> DEFINE Ends == /\ req'[w] = Idle
                   /\ OthersStand(w)
                   /\ UNCHANGED <<book, copy, loan, seq>>
<1>1. Ends
  BY Ending
<1>2. LocksExclude' /\ FreshIds' /\ NamedRows'
  BY <1>1 DEF RequestRules, LocksExclude, FreshIds, NamedRows, OthersStand, Idle
<1>3. BorrowsHold' /\ ReturnsHold'
  BY <1>1 DEF RequestRules, BorrowsHold, ReturnsHold, ActiveOn, OthersStand, Idle
<1>4. ChangesHold'
  BY <1>1 DEF RequestRules, ChangesHold, ActiveOn, CopiesOf, LoansOf, OthersStand, Idle
<1>5. IsbnsHold' /\ CodesHold'
  BY <1>1 DEF RequestRules, IsbnsHold, IsbnFreeFor, HasIsbn, CodesHold, OthersStand, Idle
<1> QED
  BY <1>2, <1>3, <1>4, <1>5 DEF RequestRules

LEMMA BorrowLockKeeps ==
  ASSUME TypeInv, RowRules, RequestRules, NEW w \in Workers, BorrowLock(w), ~End(w)
  PROVE  RequestRules'
<1>1. Moves(w, "borrow", "found", "locked")
  <2>1. At(w, "borrow", "found") /\ Advance(w, "locked") /\ UNCHANGED <<rows, seq, handed, clock>>
    BY DEF BorrowLock, CanShare
  <2> QED
    BY <2>1, Moving DEF TypeInv, Stages
<1>2. CanShare(w, req[w].book) /\ book[req[w].book].state = "catalog"
  BY DEF BorrowLock
<1>3. req[w].book \in Books
  BY <1>1 DEF
     RowRules, References, RequestRules, BorrowsHold, NamedRows, TypeInv, NamedIds, Moves
<1>4. LocksExclude'
  BY <1>1, <1>2 DEF RequestRules, Moves, OthersStand, LocksExclude, CanShare
<1>5. BorrowsHold'
  BY <1>1, <1>2, <1>3 DEF RequestRules, Moves, OthersStand, BorrowsHold, ActiveOn
<1>6. FreshIds' /\ NamedRows' /\ ReturnsHold'
  BY <1>1 DEF RequestRules, Moves, OthersStand, FreshIds, NamedRows, ReturnsHold
<1>7. ChangesHold'
  BY <1>1 DEF RequestRules, Moves, OthersStand, ChangesHold, ActiveOn, CopiesOf, LoansOf
<1>8. IsbnsHold' /\ CodesHold'
  BY <1>1 DEF
     RequestRules, Moves, OthersStand, IsbnsHold, IsbnFreeFor, HasIsbn, CodesHold
<1> QED
  BY <1>4, <1>5, <1>6, <1>7, <1>8 DEF RequestRules

LEMMA BorrowCheckKeeps ==
  ASSUME TypeInv, RowRules, RequestRules, NEW w \in Workers, BorrowCheck(w), ~End(w)
  PROVE  RequestRules'
<1>1. Moves(w, "borrow", "locked", "checked")
  <2>1. At(w, "borrow", "locked") /\ Advance(w, "checked") /\ UNCHANGED <<rows, seq, handed, clock>>
    BY DEF BorrowCheck
  <2> QED
    BY <2>1, Moving DEF TypeInv, Stages
<1>2. req[w].member \in Members
  BY DEF BorrowCheck, TypeInv, TypeOK, Request
<1>3. BorrowsHold'
  BY <1>1, <1>2 DEF RequestRules, Moves, OthersStand, BorrowsHold, ActiveOn
<1>4. LocksExclude' /\ FreshIds' /\ NamedRows' /\ ReturnsHold'
  BY <1>1 DEF RequestRules, Moves, OthersStand, LocksExclude, FreshIds, NamedRows, ReturnsHold
<1>5. ChangesHold'
  BY <1>1 DEF RequestRules, Moves, OthersStand, ChangesHold, ActiveOn, CopiesOf, LoansOf
<1>6. IsbnsHold' /\ CodesHold'
  BY <1>1 DEF
     RequestRules, Moves, OthersStand, IsbnsHold, IsbnFreeFor, HasIsbn, CodesHold
<1> QED
  BY <1>3, <1>4, <1>5, <1>6 DEF RequestRules

LEMMA BorrowInsertKeeps ==
  ASSUME TypeInv, RowRules, RequestRules, NEW w \in Workers, BorrowInsert(w), ~End(w)
  PROVE  RequestRules'
<1>1. Moves(w, "borrow", "checked", "written")
  <2>1. At(w, "borrow", "checked") /\ Advance(w, "written") /\ UNCHANGED <<rows, seq, handed, clock>>
    BY DEF BorrowInsert
  <2> QED
    BY <2>1, Moving DEF TypeInv, Stages
<1>2. ActiveOn(req[w].copy) = {} /\ ~LoanUndecided(w, req[w].copy)
  BY DEF BorrowInsert
<1>3. BorrowsHold'
  BY <1>1, <1>2 DEF RequestRules, Moves, OthersStand, BorrowsHold, ActiveOn, LoanUndecided
<1>4. LocksExclude' /\ FreshIds' /\ NamedRows' /\ ReturnsHold'
  BY <1>1 DEF RequestRules, Moves, OthersStand, LocksExclude, FreshIds, NamedRows, ReturnsHold
<1>5. ChangesHold'
  BY <1>1 DEF RequestRules, Moves, OthersStand, ChangesHold, ActiveOn, CopiesOf, LoansOf
<1>6. IsbnsHold' /\ CodesHold'
  BY <1>1 DEF
     RequestRules, Moves, OthersStand, IsbnsHold, IsbnFreeFor, HasIsbn, CodesHold
<1> QED
  BY <1>3, <1>4, <1>5, <1>6 DEF RequestRules

LEMMA ReturnUpdateKeeps ==
  ASSUME TypeInv, RowRules, RequestRules, NEW w \in Workers, ReturnUpdate(w), ~End(w)
  PROVE  RequestRules'
<1>1. Moves(w, "return", "begun", "written")
  <2>1. At(w, "return", "begun") /\ Advance(w, "written") /\ UNCHANGED <<rows, seq, handed, clock>>
    BY DEF ReturnUpdate
  <2> QED
    BY <2>1, Moving DEF TypeInv, Stages
<1>2. /\ loan[req[w].loan].state = "active"
      /\ \A v \in Workers \ {w} : ~PendingReturn(v, req[w].loan)
  BY DEF ReturnUpdate
<1>3. ReturnsHold'
  BY <1>1, <1>2 DEF RequestRules, Moves, OthersStand, ReturnsHold
<1>4. LocksExclude' /\ FreshIds' /\ NamedRows'
  BY <1>1 DEF RequestRules, Moves, OthersStand, LocksExclude, FreshIds, NamedRows
<1>5. BorrowsHold' /\ ChangesHold'
  BY <1>1 DEF
     RequestRules, Moves, OthersStand, BorrowsHold, ActiveOn, ChangesHold, CopiesOf, LoansOf
<1>6. IsbnsHold' /\ CodesHold'
  BY <1>1 DEF
     RequestRules, Moves, OthersStand, IsbnsHold, IsbnFreeFor, HasIsbn, CodesHold
<1> QED
  BY <1>3, <1>4, <1>5, <1>6 DEF RequestRules

LEMMA CreateCheckKeeps ==
  ASSUME TypeInv, RowRules, RequestRules, NEW w \in Workers, CreateCheck(w), ~End(w)
  PROVE  RequestRules'
<1>1. Moves(w, "create", "begun", "checked")
  <2>1. At(w, "create", "begun") /\ Advance(w, "checked") /\ UNCHANGED <<rows, seq, handed, clock>>
    BY DEF CreateCheck
  <2> QED
    BY <2>1, Moving DEF TypeInv, Stages
<1>2. LocksExclude' /\ FreshIds' /\ NamedRows' /\ ReturnsHold'
  BY <1>1 DEF RequestRules, Moves, OthersStand, LocksExclude, FreshIds, NamedRows, ReturnsHold
<1>3. BorrowsHold' /\ ChangesHold'
  BY <1>1 DEF
     RequestRules, Moves, OthersStand, BorrowsHold, ActiveOn, ChangesHold, CopiesOf, LoansOf
<1>4. IsbnsHold' /\ CodesHold'
  BY <1>1 DEF
     RequestRules, Moves, OthersStand, IsbnsHold, IsbnFreeFor, HasIsbn, CodesHold
<1> QED
  BY <1>2, <1>3, <1>4 DEF RequestRules

LEMMA CreateInsertKeeps ==
  ASSUME TypeInv, RowRules, RequestRules, NEW w \in Workers, CreateInsert(w), ~End(w)
  PROVE  RequestRules'
<1>1. Moves(w, "create", "checked", "written")
  <2>1. At(w, "create", "checked") /\ Advance(w, "written") /\ UNCHANGED <<rows, seq, handed, clock>>
    BY DEF CreateInsert, WriteIsbn
  <2> QED
    BY <2>1, Moving DEF TypeInv, Stages
<1>2. ~IsbnUndecided(w, req[w].isbn, req[w].book) /\ IsbnFreeFor(req[w].isbn, req[w].book)
  BY DEF CreateInsert, WriteIsbn
<1>3. IsbnsHold'
  BY <1>1, <1>2, NoneAssumption DEF
     RequestRules, Moves, OthersStand, IsbnsHold, IsbnFreeFor, HasIsbn, IsbnUndecided
<1>4. LocksExclude' /\ FreshIds' /\ NamedRows' /\ ReturnsHold'
  BY <1>1 DEF RequestRules, Moves, OthersStand, LocksExclude, FreshIds, NamedRows, ReturnsHold
<1>5. BorrowsHold' /\ ChangesHold'
  BY <1>1 DEF
     RequestRules, Moves, OthersStand, BorrowsHold, ActiveOn, ChangesHold, CopiesOf, LoansOf
<1>6. CodesHold'
  BY <1>1 DEF RequestRules, Moves, OthersStand, CodesHold
<1> QED
  BY <1>3, <1>4, <1>5, <1>6 DEF RequestRules

LEMMA EditLockKeeps ==
  ASSUME TypeInv, RowRules, RequestRules, NEW w \in Workers, EditLock(w), ~End(w)
  PROVE  RequestRules'
<1>1. Moves(w, "edit", "begun", "locked")
  <2>1. At(w, "edit", "begun") /\ Advance(w, "locked") /\ UNCHANGED <<rows, seq, handed, clock>>
    BY DEF EditLock, Lock
  <2> QED
    BY <2>1, Moving DEF TypeInv, Stages
<1>2. CanUpdate(w, req[w].book) /\ book[req[w].book].state = "catalog"
  BY DEF EditLock, Lock
<1>3. LocksExclude'
  BY <1>1, <1>2 DEF RequestRules, Moves, OthersStand, LocksExclude, CanUpdate
<1>4. ChangesHold'
  BY <1>1, <1>2 DEF RequestRules, Moves, OthersStand, ChangesHold, ActiveOn, CopiesOf, LoansOf
<1>5. FreshIds' /\ NamedRows' /\ ReturnsHold'
  BY <1>1 DEF RequestRules, Moves, OthersStand, FreshIds, NamedRows, ReturnsHold
<1>6. BorrowsHold'
  BY <1>1 DEF RequestRules, Moves, OthersStand, BorrowsHold, ActiveOn
<1>7. IsbnsHold' /\ CodesHold'
  BY <1>1 DEF
     RequestRules, Moves, OthersStand, IsbnsHold, IsbnFreeFor, HasIsbn, CodesHold
<1> QED
  BY <1>3, <1>4, <1>5, <1>6, <1>7 DEF RequestRules

LEMMA EditCheckKeeps ==
  ASSUME TypeInv, RowRules, RequestRules, NEW w \in Workers, EditCheck(w), ~End(w)
  PROVE  RequestRules'
<1>1. Moves(w, "edit", "locked", "checked")
  <2>1. At(w, "edit", "locked") /\ Advance(w, "checked") /\ UNCHANGED <<rows, seq, handed, clock>>
    BY DEF EditCheck
  <2> QED
    BY <2>1, Moving DEF TypeInv, Stages
<1>2. LocksExclude' /\ FreshIds' /\ NamedRows' /\ ReturnsHold'
  BY <1>1 DEF RequestRules, Moves, OthersStand, LocksExclude, FreshIds, NamedRows, ReturnsHold
<1>3. BorrowsHold' /\ ChangesHold'
  BY <1>1 DEF
     RequestRules, Moves, OthersStand, BorrowsHold, ActiveOn, ChangesHold, CopiesOf, LoansOf
<1>4. IsbnsHold' /\ CodesHold'
  BY <1>1 DEF
     RequestRules, Moves, OthersStand, IsbnsHold, IsbnFreeFor, HasIsbn, CodesHold
<1> QED
  BY <1>2, <1>3, <1>4 DEF RequestRules

LEMMA EditFlushKeeps ==
  ASSUME TypeInv, RowRules, RequestRules, NEW w \in Workers, EditFlush(w), ~End(w)
  PROVE  RequestRules'
<1>1. Moves(w, "edit", "checked", "written")
  <2>1. At(w, "edit", "checked") /\ Advance(w, "written") /\ UNCHANGED <<rows, seq, handed, clock>>
    BY DEF EditFlush, WriteIsbn
  <2> QED
    BY <2>1, Moving DEF TypeInv, Stages
<1>2. ~IsbnUndecided(w, req[w].isbn, req[w].book) /\ IsbnFreeFor(req[w].isbn, req[w].book)
  BY DEF EditFlush, WriteIsbn
<1>3. IsbnsHold'
  BY <1>1, <1>2, NoneAssumption DEF
     RequestRules, Moves, OthersStand, IsbnsHold, IsbnFreeFor, HasIsbn, IsbnUndecided
<1>4. LocksExclude' /\ FreshIds' /\ NamedRows' /\ ReturnsHold'
  BY <1>1 DEF RequestRules, Moves, OthersStand, LocksExclude, FreshIds, NamedRows, ReturnsHold
<1>5. BorrowsHold' /\ ChangesHold'
  BY <1>1 DEF
     RequestRules, Moves, OthersStand, BorrowsHold, ActiveOn, ChangesHold, CopiesOf, LoansOf
<1>6. CodesHold'
  BY <1>1 DEF RequestRules, Moves, OthersStand, CodesHold
<1> QED
  BY <1>3, <1>4, <1>5, <1>6 DEF RequestRules

LEMMA DeleteLockKeeps ==
  ASSUME TypeInv, RowRules, RequestRules, NEW w \in Workers, DeleteLock(w), ~End(w)
  PROVE  RequestRules'
<1>1. Moves(w, "delete", "begun", "locked")
  <2>1. At(w, "delete", "begun") /\ Advance(w, "locked") /\ UNCHANGED <<rows, seq, handed, clock>>
    BY DEF DeleteLock, Lock
  <2> QED
    BY <2>1, Moving DEF TypeInv, Stages
<1>2. CanUpdate(w, req[w].book) /\ book[req[w].book].state = "catalog"
  BY DEF DeleteLock, Lock
<1>3. LocksExclude'
  BY <1>1, <1>2 DEF RequestRules, Moves, OthersStand, LocksExclude, CanUpdate
<1>4. ChangesHold'
  BY <1>1, <1>2 DEF RequestRules, Moves, OthersStand, ChangesHold, ActiveOn, CopiesOf, LoansOf
<1>5. FreshIds' /\ NamedRows' /\ ReturnsHold'
  BY <1>1 DEF RequestRules, Moves, OthersStand, FreshIds, NamedRows, ReturnsHold
<1>6. BorrowsHold'
  BY <1>1 DEF RequestRules, Moves, OthersStand, BorrowsHold, ActiveOn
<1>7. IsbnsHold' /\ CodesHold'
  BY <1>1 DEF
     RequestRules, Moves, OthersStand, IsbnsHold, IsbnFreeFor, HasIsbn, CodesHold
<1> QED
  BY <1>3, <1>4, <1>5, <1>6, <1>7 DEF RequestRules

LEMMA DeleteCheckOnLoanKeeps ==
  ASSUME TypeInv, RowRules, RequestRules, NEW w \in Workers, DeleteCheckOnLoan(w), ~End(w)
  PROVE  RequestRules'
<1>1. Moves(w, "delete", "locked", "checked")
  <2>1. At(w, "delete", "locked") /\ Advance(w, "checked") /\ UNCHANGED <<rows, seq, handed, clock>>
    BY DEF DeleteCheckOnLoan
  <2> QED
    BY <2>1, Moving DEF TypeInv, Stages
<1>2. \A c \in CopiesOf(req[w].book) : ActiveOn(c) = {}
  BY DEF DeleteCheckOnLoan
<1>3. ChangesHold'
  BY <1>1, <1>2 DEF RequestRules, Moves, OthersStand, ChangesHold, ActiveOn, CopiesOf, LoansOf
<1>4. LocksExclude' /\ FreshIds' /\ NamedRows' /\ ReturnsHold'
  BY <1>1 DEF RequestRules, Moves, OthersStand, LocksExclude, FreshIds, NamedRows, ReturnsHold
<1>5. BorrowsHold'
  BY <1>1 DEF RequestRules, Moves, OthersStand, BorrowsHold, ActiveOn
<1>6. IsbnsHold' /\ CodesHold'
  BY <1>1 DEF
     RequestRules, Moves, OthersStand, IsbnsHold, IsbnFreeFor, HasIsbn, CodesHold
<1> QED
  BY <1>3, <1>4, <1>5, <1>6 DEF RequestRules

LEMMA DeleteFlushKeeps ==
  ASSUME TypeInv, RowRules, RequestRules, NEW w \in Workers, DeleteFlush(w), ~End(w)
  PROVE  RequestRules'
<1>1. Moves(w, "delete", "decided", "written")
  <2>1. At(w, "delete", "decided") /\ Advance(w, "written") /\ UNCHANGED <<rows, seq, handed, clock>>
    BY DEF DeleteFlush
  <2> QED
    BY <2>1, Moving DEF TypeInv, Stages
<1>2. LocksExclude' /\ FreshIds' /\ NamedRows' /\ ReturnsHold'
  BY <1>1 DEF RequestRules, Moves, OthersStand, LocksExclude, FreshIds, NamedRows, ReturnsHold
<1>3. BorrowsHold' /\ ChangesHold'
  BY <1>1 DEF
     RequestRules, Moves, OthersStand, BorrowsHold, ActiveOn, ChangesHold, CopiesOf, LoansOf
<1>4. IsbnsHold' /\ CodesHold'
  BY <1>1 DEF
     RequestRules, Moves, OthersStand, IsbnsHold, IsbnFreeFor, HasIsbn, CodesHold
<1> QED
  BY <1>2, <1>3, <1>4 DEF RequestRules

LEMMA AddLockKeeps ==
  ASSUME TypeInv, RowRules, RequestRules, NEW w \in Workers, AddLock(w), ~End(w)
  PROVE  RequestRules'
<1>1. Moves(w, "add", "begun", "written")
  <2>1. At(w, "add", "begun") /\ Advance(w, "written") /\ UNCHANGED <<rows, seq, handed, clock>>
    BY DEF AddLock, Lock
  <2> QED
    BY <2>1, Moving DEF TypeInv, Stages
<1>2. CanUpdate(w, req[w].book) /\ book[req[w].book].state = "catalog"
  BY DEF AddLock, Lock
<1>3. LocksExclude'
  BY <1>1, <1>2 DEF RequestRules, Moves, OthersStand, LocksExclude, CanUpdate
<1>4. ChangesHold'
  BY <1>1, <1>2 DEF RequestRules, Moves, OthersStand, ChangesHold, ActiveOn, CopiesOf, LoansOf
<1>5. FreshIds' /\ NamedRows' /\ ReturnsHold'
  BY <1>1 DEF RequestRules, Moves, OthersStand, FreshIds, NamedRows, ReturnsHold
<1>6. BorrowsHold'
  BY <1>1 DEF RequestRules, Moves, OthersStand, BorrowsHold, ActiveOn
<1>7. IsbnsHold' /\ CodesHold'
  BY <1>1 DEF
     RequestRules, Moves, OthersStand, IsbnsHold, IsbnFreeFor, HasIsbn, CodesHold
<1> QED
  BY <1>3, <1>4, <1>5, <1>6, <1>7 DEF RequestRules

\* The read of a borrow notes the title; the next stage depends on it.
LEMMA BorrowFindKeeps ==
  ASSUME TypeInv, RowRules, RequestRules, NEW w \in Workers, BorrowFind(w), ~End(w)
  PROVE  RequestRules'
<1>1. /\ req[w].op = "borrow" /\ req[w].at = "begun"
      /\ req'[w].op = "borrow" /\ req'[w].at = "found"
      /\ req'[w].book = copy[req[w].copy].book
      /\ req'[w].copy = req[w].copy
      /\ req'[w].loan = req[w].loan
      /\ req'[w].codes = req[w].codes
      /\ OthersStand(w)
      /\ UNCHANGED <<book, copy, loan, seq>>
  BY DEF BorrowFind, TypeInv, TypeOK, Request, rows, OthersStand
<1>2. LocksExclude' /\ FreshIds' /\ NamedRows' /\ ReturnsHold'
  BY <1>1 DEF RequestRules, OthersStand, LocksExclude, FreshIds, NamedRows, ReturnsHold
<1>3. BorrowsHold' /\ ChangesHold'
  BY <1>1 DEF RequestRules, OthersStand, BorrowsHold, ActiveOn, ChangesHold, CopiesOf, LoansOf
<1>4. IsbnsHold' /\ CodesHold'
  BY <1>1 DEF RequestRules, OthersStand, IsbnsHold, IsbnFreeFor, HasIsbn, CodesHold
<1> QED
  BY <1>2, <1>3, <1>4 DEF RequestRules

\* What a delete decides is what its history says, and stays so under its lock.
LEMMA DeleteDecideKeeps ==
  ASSUME TypeInv, RowRules, RequestRules, NEW w \in Workers, DeleteDecide(w)
  PROVE  RequestRules'
<1>1. /\ req[w].op = "delete" /\ req[w].at = "checked"
      /\ req'[w].op = "delete" /\ req'[w].at = "decided"
      /\ req'[w].outcome = IF LoansOf(req[w].book) = {} THEN "deleted" ELSE "archived"
      /\ req'[w].book = req[w].book
      /\ req'[w].copy = req[w].copy
      /\ req'[w].loan = req[w].loan
      /\ req'[w].codes = req[w].codes
      /\ OthersStand(w)
      /\ UNCHANGED <<book, copy, loan, seq>>
  BY DEF DeleteDecide, TypeInv, TypeOK, Request, rows, OthersStand
<1>2. LocksExclude' /\ FreshIds' /\ NamedRows' /\ ReturnsHold'
  BY <1>1 DEF RequestRules, OthersStand, LocksExclude, FreshIds, NamedRows, ReturnsHold
<1>3. ChangesHold'
  BY <1>1 DEF RequestRules, OthersStand, ChangesHold, ActiveOn, CopiesOf, LoansOf
<1>4. BorrowsHold'
  BY <1>1 DEF RequestRules, OthersStand, BorrowsHold, ActiveOn
<1>5. IsbnsHold' /\ CodesHold'
  BY <1>1 DEF RequestRules, OthersStand, IsbnsHold, IsbnFreeFor, HasIsbn, CodesHold
<1> QED
  BY <1>2, <1>3, <1>4, <1>5 DEF RequestRules

\* A number from the sequence is past every copy's and every request's.
LEMMA AllocateCodeKeeps ==
  ASSUME TypeInv, RowRules, RequestRules, NEW w \in Workers, AllocateCode(w)
  PROVE  RowRules' /\ RequestRules'
<1>1. /\ req'[w].op = req[w].op /\ req'[w].at = req[w].at
      /\ req'[w].book = req[w].book
      /\ req'[w].copy = req[w].copy
      /\ req'[w].loan = req[w].loan
      /\ req'[w].isbn = req[w].isbn
      /\ req'[w].outcome = req[w].outcome
      /\ req'[w].codes = req[w].codes \cup {seq}
      /\ req[w].op \in {"create", "add"}
      /\ OthersStand(w)
      /\ UNCHANGED <<book, copy, loan>>
  BY DEF AllocateCode, Takes, TypeInv, TypeOK, Request, rows, OthersStand
<1>2. seq \in Codes /\ seq' = seq + 1
  BY BoundsAssumption DEF AllocateCode, Takes, Nextval, TypeInv, TypeOK, Codes
<1>3. \A c \in Codes : copy[c].state # "absent" => c < seq
  BY DEF RowRules, NumbersAreUsedUp
<1>4. seq \in Int /\ \A c \in Codes : c \in Int
  BY BoundsAssumption, <1>2 DEF Codes
<1>5. CodesHold'
  <2>1. \A v, u \in Workers : v # u => req'[v].codes \cap req'[u].codes = {}
    <3>1. \A v \in Workers : seq \notin req[v].codes
      BY <1>4 DEF RequestRules, CodesHold
    <3> QED
      BY <1>1, <3>1 DEF RequestRules, CodesHold, OthersStand
  <2>2. ASSUME NEW v \in Workers, NEW c \in req'[v].codes
        PROVE  copy'[c].state = "absent" /\ c < seq'
    <3>1. CASE c \in req[v].codes
      <4>1. copy[c].state = "absent" /\ c < seq
        BY <3>1 DEF RequestRules, CodesHold
      <4>2. c \in Int
        BY <1>4, <3>1 DEF TypeInv, TypeOK, Request
      <4> QED
        BY <1>1, <1>2, <1>4, <4>1, <4>2
    <3>2. CASE c \notin req[v].codes
      <4>1. c = seq
        BY <1>1, <2>2, <3>2 DEF OthersStand
      <4>2. copy[seq].state = "absent"
        BY <1>2, <1>3, <1>4
      <4> QED
        BY <1>1, <1>2, <1>4, <4>1, <4>2
    <3> QED
      BY <3>1, <3>2
  <2> QED
    BY <2>1, <2>2 DEF CodesHold
<1>6. NumbersAreUsedUp'
  BY <1>1, <1>2, <1>3, <1>4 DEF NumbersAreUsedUp
<1>7. RowRules'
  BY <1>1, <1>6 DEF RowRules, References, CopiesFollowTheirTitle, OneActiveLoanPerCopy,
     RemovedTitlesAreHome, HistoryIsKept, IsbnsAreUnique, HasIsbn
<1>8. LocksExclude' /\ FreshIds' /\ NamedRows' /\ ReturnsHold'
  BY <1>1 DEF RequestRules, OthersStand, LocksExclude, FreshIds, NamedRows, ReturnsHold
<1>9. BorrowsHold'
  BY <1>1 DEF RequestRules, OthersStand, BorrowsHold, ActiveOn
<1>10. ChangesHold'
  BY <1>1 DEF RequestRules, OthersStand, ChangesHold, ActiveOn, CopiesOf, LoansOf
<1>11. IsbnsHold'
  BY <1>1 DEF RequestRules, OthersStand, IsbnsHold, IsbnFreeFor, HasIsbn
<1> QED
  BY <1>5, <1>7, <1>8, <1>9, <1>10, <1>11 DEF RequestRules

-----------------------------------------------------------------------------
\* New requests

\* A request that has begun holds nothing yet.
LEMMA BeginKeeps ==
  ASSUME TypeInv, RequestRules, NEW w \in Workers, NEW r,
         Begin(w, r), r.at = "begun", r.codes = {},
         r.op = "borrow" => copy[r.copy].state # "absent" /\ loan[r.loan].state = "absent"
                            /\ \A v \in Workers : ~(req[v].op = "borrow" /\ req[v].loan = r.loan),
         r.op = "return" => loan[r.loan].state # "absent",
         r.op = "create" => book[r.book].state = "absent"
                            /\ \A v \in Workers : ~(req[v].op = "create" /\ req[v].book = r.book)
  PROVE  RequestRules'
<1>1. /\ req'[w] = r
      /\ OthersStand(w)
      /\ UNCHANGED <<book, copy, loan, seq>>
  BY DEF Begin, rows, TypeInv, TypeOK, OthersStand
<1>2. LocksExclude' /\ NamedRows' /\ ReturnsHold'
  BY <1>1 DEF RequestRules, OthersStand, LocksExclude, NamedRows, ReturnsHold
<1>3. FreshIds'
  BY <1>1 DEF RequestRules, OthersStand, FreshIds
<1>4. BorrowsHold'
  BY <1>1 DEF RequestRules, OthersStand, BorrowsHold, ActiveOn
<1>5. ChangesHold'
  BY <1>1 DEF RequestRules, OthersStand, ChangesHold, ActiveOn, CopiesOf, LoansOf
<1>6. IsbnsHold' /\ CodesHold'
  BY <1>1 DEF RequestRules, OthersStand, IsbnsHold, IsbnFreeFor, HasIsbn, CodesHold
<1> QED
  BY <1>2, <1>3, <1>4, <1>5, <1>6 DEF RequestRules

LEMMA BeginCirculationKeeps ==
  ASSUME TypeInv, RequestRules, NEW w \in Workers, BeginCirculation(w)
  PROVE  RequestRules' /\ UNCHANGED <<book, copy, loan, seq>>
<1>1. ASSUME NEW c \in Codes, NEW m \in Members \cup {None}, NEW l \in Loans,
             BeginBorrow(w, c, m, l)
      PROVE  RequestRules' /\ UNCHANGED <<book, copy, loan, seq>>
  <2> DEFINE r == [Idle EXCEPT !.op = "borrow", !.at = "begun", !.began = clock,
                               !.copy = c, !.member = m, !.loan = l]
  <2>1. /\ r.op = "borrow" /\ r.at = "begun" /\ r.codes = {} /\ r.copy = c /\ r.loan = l
        /\ copy[c].state # "absent" /\ FreshLoan(l) /\ Begin(w, r)
    BY <1>1 DEF BeginBorrow, Idle
  <2> HIDE DEF r
  <2> QED
    BY <2>1, BeginKeeps DEF FreshLoan, Begin, rows
<1>2. ASSUME NEW l \in Loans, BeginReturn(w, l)
      PROVE  RequestRules' /\ UNCHANGED <<book, copy, loan, seq>>
  <2> DEFINE r == [Idle EXCEPT !.op = "return", !.at = "begun", !.began = clock, !.loan = l]
  <2>1. /\ r.op = "return" /\ r.at = "begun" /\ r.codes = {} /\ r.loan = l
        /\ loan[l].state # "absent" /\ Begin(w, r)
    BY <1>2 DEF BeginReturn, Idle
  <2> HIDE DEF r
  <2> QED
    BY <2>1, BeginKeeps DEF Begin, rows
<1> QED
  BY <1>1, <1>2 DEF BeginCirculation

LEMMA BeginCatalogKeeps ==
  ASSUME TypeInv, RequestRules, NEW w \in Workers, BeginCatalog(w)
  PROVE  RequestRules' /\ UNCHANGED <<book, copy, loan, seq>>
<1>1. ASSUME NEW b \in Books, NEW i, NEW n, BeginCreate(w, b, i, n)
      PROVE  RequestRules' /\ UNCHANGED <<book, copy, loan, seq>>
  <2> DEFINE r == [Idle EXCEPT !.op = "create", !.at = "begun", !.began = clock,
                               !.book = b, !.isbn = i, !.count = n]
  <2>1. /\ r.op = "create" /\ r.at = "begun" /\ r.codes = {} /\ r.book = b
        /\ FreshBook(b) /\ Begin(w, r)
    BY <1>1 DEF BeginCreate, Idle
  <2> HIDE DEF r
  <2> QED
    BY <2>1, BeginKeeps DEF FreshBook, Begin, rows
<1>2. ASSUME NEW b \in Books, NEW op \in {"edit", "delete", "add"}, NEW i, NEW n,
             BeginChange(w, op, b, i, n)
      PROVE  RequestRules' /\ UNCHANGED <<book, copy, loan, seq>>
  <2> DEFINE r == [Idle EXCEPT !.op = op, !.at = "begun", !.began = clock,
                               !.book = b, !.isbn = i, !.count = n]
  <2>1. r.op \in {"edit", "delete", "add"} /\ r.at = "begun" /\ r.codes = {} /\ Begin(w, r)
    BY <1>2 DEF BeginChange, Idle
  <2> HIDE DEF r
  <2> QED
    BY <2>1, BeginKeeps DEF Begin, rows
<1> QED
  BY <1>1, <1>2 DEF BeginCatalog

-----------------------------------------------------------------------------
\* Commits

LEMMA BorrowCommitKeeps ==
  ASSUME TypeInv, RowRules, RequestRules, NEW w \in Workers, BorrowCommit(w)
  PROVE  RowRules' /\ RequestRules'
<1> DEFINE new == req[w].loan
           c == req[w].copy
           b == req[w].book
<1>1. /\ req[w].op = "borrow" /\ req[w].at = "written"
      /\ new \in Loans /\ c \in Codes /\ b \in Books /\ req[w].member \in Members
  BY DEF BorrowCommit, TypeInv, NamedIds, RequestRules, BorrowsHold
<1>2. /\ req'[w] = Idle
      /\ OthersStand(w)
      /\ loan'[new].state = "active" /\ loan'[new].copy = c /\ loan'[new].member = req[w].member
      /\ \A l \in Loans : l # new => loan'[l] = loan[l]
      /\ UNCHANGED <<book, copy, seq>>
  <2>1. loan'[new] = BorrowedLoan(w) /\ \A l \in Loans : l # new => loan'[l] = loan[l]
    BY <1>1 DEF BorrowCommit, TypeInv, TypeOK
  <2> QED
    BY <1>1, <2>1, Ending DEF BorrowCommit, BorrowedLoan, TypeInv
<1>3. /\ loan[new].state = "absent"
      /\ \A l \in Loans : loan[l].state = "active" => loan[l].copy # c
  BY <1>1 DEF RequestRules, FreshIds, BorrowsHold, ActiveOn
<1>4. copy[c].book = b /\ copy[c].state = "catalog" /\ book[b].state = "catalog"
  BY <1>1 DEF RequestRules, BorrowsHold, NamedRows, RowRules, CopiesFollowTheirTitle
<1>5. \A v \in Workers : v # w => ~UpdateLocks(v, b)
  BY <1>1 DEF RequestRules, LocksExclude
<1> HIDE DEF new, c, b
<1>6. References'
  BY <1>1, <1>2, <1>4 DEF RowRules, References
<1>7. OneActiveLoanPerCopy'
  BY <1>2, <1>3 DEF RowRules, OneActiveLoanPerCopy
<1>8. RemovedTitlesAreHome' /\ HistoryIsKept'
  BY <1>2, <1>4 DEF RowRules, RemovedTitlesAreHome, HistoryIsKept
<1>9. RowRules'
  BY <1>2, <1>6, <1>7, <1>8 DEF RowRules, CopiesFollowTheirTitle, NumbersAreUsedUp, IsbnsAreUnique,
     HasIsbn
<1>10. LocksExclude'
  BY <1>2 DEF RequestRules, OthersStand, LocksExclude, Idle
<1>11. FreshIds' /\ NamedRows'
  BY <1>1, <1>2, <1>3 DEF RequestRules, OthersStand, FreshIds, NamedRows, TypeInv, NamedIds, Idle, new
<1>12. BorrowsHold'
  <2> SUFFICES ASSUME NEW v \in Workers, v # w, req[v].op = "borrow", req[v].at = "written",
                      ActiveOn(req[v].copy) = {}
               PROVE  ActiveOn(req[v].copy)' = {}
    BY <1>2 DEF RequestRules, OthersStand, BorrowsHold, Idle
  <2>1. req[v].copy # c
    BY <1>1 DEF RequestRules, BorrowsHold, c
  <2> QED
    BY <1>2, <2>1 DEF ActiveOn, OthersStand
<1>13. ReturnsHold'
  BY <1>2, <1>3 DEF RequestRules, OthersStand, ReturnsHold, TypeInv, NamedIds, Idle
<1>14. ChangesHold'
  <2>1. ASSUME NEW v \in Workers, v # w, UpdateLocks(v, req[v].book)
        PROVE  /\ CopiesOf(req[v].book)' = CopiesOf(req[v].book)
               /\ c \notin CopiesOf(req[v].book)
    BY <1>2, <1>4, <1>5, <2>1 DEF CopiesOf, OthersStand
  <2>2. ASSUME NEW v \in Workers, v # w, UpdateLocks(v, req[v].book), NEW k \in CopiesOf(req[v].book)
        PROVE  ActiveOn(k)' = ActiveOn(k)
    BY <1>2, <1>3, <2>1, <2>2 DEF ActiveOn
  <2>3. ASSUME NEW v \in Workers, v # w, UpdateLocks(v, req[v].book)
        PROVE  LoansOf(req[v].book)' = LoansOf(req[v].book)
    BY <1>2, <1>3, <2>1, <2>3 DEF LoansOf
  <2> QED
    BY <1>2, <2>1, <2>2, <2>3, SMTT(30) DEF RequestRules, OthersStand, ChangesHold, Idle
<1>15. IsbnsHold' /\ CodesHold'
  BY <1>2 DEF RequestRules, OthersStand, IsbnsHold, IsbnFreeFor, HasIsbn, CodesHold, Idle
<1> QED
  BY <1>9, <1>10, <1>11, <1>12, <1>13, <1>14, <1>15 DEF RequestRules

LEMMA ReturnCommitKeeps ==
  ASSUME TypeInv, RowRules, RequestRules, NEW w \in Workers, ReturnCommit(w)
  PROVE  RowRules' /\ RequestRules'
<1> DEFINE old == req[w].loan
<1>1. /\ req[w].op = "return" /\ req[w].at = "written"
      /\ old \in Loans
      /\ loan[old].state = "active"
      /\ \A v \in Workers : PendingReturn(v, old) => v = w
  BY DEF ReturnCommit, TypeInv, NamedIds, RequestRules, ReturnsHold
<1>2. /\ req'[w] = Idle
      /\ OthersStand(w)
      /\ loan'[old].state = "returned"
      /\ loan'[old].copy = loan[old].copy /\ loan'[old].member = loan[old].member
      /\ \A l \in Loans : l # old => loan'[l] = loan[l]
      /\ UNCHANGED <<book, copy, seq>>
  <2>1. loan[old] \in LoanRow /\ loan' = [loan EXCEPT ![old].state = "returned",
                                                      ![old].returnedAt = req[w].began]
    BY <1>1 DEF ReturnCommit, TypeInv, TypeOK
  <2>2. /\ loan'[old].state = "returned"
        /\ loan'[old].copy = loan[old].copy /\ loan'[old].member = loan[old].member
        /\ \A l \in Loans : l # old => loan'[l] = loan[l]
    BY <1>1, <2>1 DEF LoanRow, TypeInv, TypeOK
  <2> QED
    BY <2>2, Ending DEF ReturnCommit, TypeInv
<1> HIDE DEF old
<1>3. \A l \in Loans : /\ loan'[l].copy = loan[l].copy /\ loan'[l].member = loan[l].member
                       /\ loan'[l].state = "absent" <=> loan[l].state = "absent"
                       /\ loan'[l].state = "active" <=> loan[l].state = "active" /\ l # old
  BY <1>1, <1>2
<1>4. RowRules'
  BY <1>2, <1>3 DEF RowRules, References, CopiesFollowTheirTitle, NumbersAreUsedUp, OneActiveLoanPerCopy,
     RemovedTitlesAreHome, HistoryIsKept, IsbnsAreUnique, HasIsbn
<1>5. \A k : ActiveOn(k)' \subseteq ActiveOn(k)
  BY <1>3 DEF ActiveOn
<1>6. \A b \in Books : CopiesOf(b)' = CopiesOf(b) /\ LoansOf(b)' = LoansOf(b)
  BY <1>2, <1>3 DEF CopiesOf, LoansOf
<1>7. LocksExclude' /\ FreshIds' /\ NamedRows'
  BY <1>2, <1>3 DEF RequestRules, OthersStand, LocksExclude, FreshIds, NamedRows, TypeInv, NamedIds, Idle
<1>8. BorrowsHold'
  BY <1>2, <1>5 DEF RequestRules, OthersStand, BorrowsHold, Idle
<1>9. ReturnsHold'
  BY <1>1, <1>2 DEF RequestRules, OthersStand, ReturnsHold, TypeInv, NamedIds, Idle
<1>10. ChangesHold'
  BY <1>2, <1>5, <1>6 DEF RequestRules, OthersStand, ChangesHold, TypeInv, NamedIds, Idle
<1>11. IsbnsHold' /\ CodesHold'
  BY <1>2 DEF RequestRules, OthersStand, IsbnsHold, IsbnFreeFor, HasIsbn, CodesHold, Idle
<1> QED
  BY <1>4, <1>7, <1>8, <1>9, <1>10, <1>11 DEF RequestRules

\* A commit that leaves the loans and the other changes' titles alone.
LEMMA ChangesStand ==
  ASSUME ChangesHold, NEW w \in Workers, req'[w] = Idle, OthersStand(w), loan' = loan,
         \A v \in Workers \ {w} : UpdateLocks(v, req[v].book) =>
           /\ book'[req[v].book] = book[req[v].book]
           /\ CopiesOf(req[v].book)' = CopiesOf(req[v].book)
           /\ LoansOf(req[v].book)' = LoansOf(req[v].book)
  PROVE  ChangesHold'
<1>1. \A k : ActiveOn(k)' = ActiveOn(k)
  BY DEF ActiveOn
<1>2. ASSUME NEW v \in Workers \ {w}, UpdateLocks(v, req[v].book)
      PROVE  /\ book'[req'[v].book].state = "catalog"
             /\ (req'[v].op = "delete" /\ req'[v].at \in {"checked", "decided", "written"}) =>
                  \A k \in CopiesOf(req[v].book)' : ActiveOn(k)' = {}
             /\ (req'[v].op = "delete" /\ req'[v].at \in {"decided", "written"}) =>
                  req'[v].outcome = IF LoansOf(req[v].book)' = {} THEN "deleted" ELSE "archived"
  <2>1. req'[v] = req[v]
    BY DEF OthersStand
  <2>2. book[req[v].book].state = "catalog"
    BY <1>2 DEF ChangesHold
  <2>3. (req[v].op = "delete" /\ req[v].at \in {"checked", "decided", "written"}) =>
           \A k \in CopiesOf(req[v].book) : ActiveOn(k) = {}
    BY DEF ChangesHold
  <2>4. (req[v].op = "delete" /\ req[v].at \in {"decided", "written"}) =>
           req[v].outcome = IF LoansOf(req[v].book) = {} THEN "deleted" ELSE "archived"
    BY DEF ChangesHold
  <2> HIDE DEF UpdateLocks
  <2>5. (req'[v].op = "delete" /\ req'[v].at \in {"checked", "decided", "written"}) =>
           \A k \in CopiesOf(req[v].book)' : ActiveOn(k)' = {}
    BY <1>1, <1>2, <2>1, <2>3
  <2>6. (req'[v].op = "delete" /\ req'[v].at \in {"decided", "written"}) =>
           req'[v].outcome = IF LoansOf(req[v].book)' = {} THEN "deleted" ELSE "archived"
    BY <1>2, <2>1, <2>4
  <2> QED
    BY <1>2, <2>1, <2>2, <2>5, <2>6
<1>3. \A v \in Workers \ {w} : UpdateLocks(v, req[v].book)' <=> UpdateLocks(v, req[v].book)
  BY DEF OthersStand
<1>4. req'[w].op = "none"
  BY DEF Idle
<1> QED
  BY <1>2, <1>3, <1>4 DEF ChangesHold

\* New copies of a title that nobody else is changing: shared by the commits of
\* a new title and of added copies.
Labels(w, b) ==
  /\ \A k \in Codes : k \in req[w].codes => copy'[k] = [state |-> "catalog", book |-> b]
  /\ \A k \in Codes : k \notin req[w].codes => copy'[k] = copy[k]

LEMMA CopiesWithLabels ==
  ASSUME NEW w \in Workers, NEW b, copy' = CopiesWith(req[w].codes, b)
  PROVE  Labels(w, b)
  BY DEF CopiesWith, Labels

LEMMA LabelsKeep ==
  ASSUME TypeInv, RowRules, RequestRules, NEW w \in Workers, NEW b \in Books, Labels(w, b),
         req'[w] = Idle, OthersStand(w), UNCHANGED <<loan, seq>>,
         book'[b].state = "catalog",
         \A d \in Books \ {b} : book'[d] = book[d],
         \A k \in Codes : copy[k].state # "absent" /\ copy[k].book = b => book[b].state = "catalog",
         \A v \in Workers \ {w} : ~UpdateLocks(v, b)
  PROVE  /\ References' /\ CopiesFollowTheirTitle' /\ NumbersAreUsedUp' /\ OneActiveLoanPerCopy'
         /\ RemovedTitlesAreHome' /\ HistoryIsKept'
         /\ LocksExclude' /\ NamedRows' /\ BorrowsHold' /\ ReturnsHold' /\ ChangesHold'
         /\ CodesHold'
<1>1. \A k \in req[w].codes : k \in Codes /\ copy[k].state = "absent" /\ k < seq
  BY DEF RequestRules, CodesHold, TypeInv, TypeOK, Request
<1>2. \A k \in Codes : copy[k].state # "absent" => copy'[k] = copy[k]
  BY <1>1 DEF Labels
<1>3. \A k \in Codes : copy'[k].state # "absent" =>
        (copy'[k] = copy[k] \/ (copy'[k] = [state |-> "catalog", book |-> b] /\ k < seq))
  BY <1>1 DEF Labels
<1>4. References'
  <2>1. \A k \in Codes : IF copy'[k].state = "absent" THEN copy'[k].book = None
                         ELSE copy'[k].book \in Books /\ book'[copy'[k].book].state # "absent"
    BY <1>3 DEF RowRules, References, Labels
  <2> QED
    BY <1>2, <2>1 DEF RowRules, References
<1>5. CopiesFollowTheirTitle'
  <2> SUFFICES ASSUME NEW k \in Codes, copy'[k].state # "absent"
               PROVE  copy'[k].state = book'[copy'[k].book].state
    BY DEF CopiesFollowTheirTitle
  <2>1. CASE copy'[k] = [state |-> "catalog", book |-> b]
    BY <2>1
  <2>2. CASE copy'[k] = copy[k]
    BY <2>2 DEF RowRules, CopiesFollowTheirTitle, References
  <2> QED
    BY <1>3, <2>1, <2>2
<1>6. NumbersAreUsedUp'
  BY <1>3 DEF RowRules, NumbersAreUsedUp
<1>7. OneActiveLoanPerCopy' /\ RemovedTitlesAreHome' /\ HistoryIsKept'
  BY <1>2 DEF RowRules, References, OneActiveLoanPerCopy, RemovedTitlesAreHome, HistoryIsKept
<1>8. LocksExclude' /\ NamedRows' /\ ReturnsHold'
  BY <1>2 DEF RequestRules, OthersStand, LocksExclude, NamedRows, ReturnsHold, TypeInv, NamedIds, Idle
<1>9. BorrowsHold'
  BY <1>2 DEF RequestRules, OthersStand, BorrowsHold, NamedRows, ActiveOn, TypeInv, NamedIds, Idle
<1>10. ChangesHold'
  <2>1. ASSUME NEW v \in Workers, v # w, UpdateLocks(v, req[v].book)
        PROVE  /\ req[v].book \in Books \ {b}
               /\ CopiesOf(req[v].book)' = CopiesOf(req[v].book)
               /\ LoansOf(req[v].book)' = LoansOf(req[v].book)
    <3>1. req[v].book \in Books \ {b}
      BY <2>1 DEF TypeInv, NamedIds
    <3>2. CopiesOf(req[v].book)' = CopiesOf(req[v].book)
      BY <1>2, <1>3, <2>1, <3>1 DEF CopiesOf, OthersStand
    <3> QED
      BY <3>1, <3>2 DEF LoansOf
  <2> QED
    BY <2>1, ChangesStand DEF RequestRules
<1>11. CodesHold'
  <2>1. \A v \in Workers \ {w} : \A k \in req[v].codes : copy'[k] = copy[k]
    BY DEF RequestRules, CodesHold, Labels, TypeInv, TypeOK, Request
  <2> QED
    BY <2>1 DEF RequestRules, OthersStand, CodesHold, Idle
<1> QED
  BY <1>4, <1>5, <1>6, <1>7, <1>8, <1>9, <1>10, <1>11

LEMMA CreateCommitKeeps ==
  ASSUME TypeInv, RowRules, RequestRules, NEW w \in Workers, CreateCommit(w)
  PROVE  RowRules' /\ RequestRules'
<1> DEFINE b == req[w].book
           i == req[w].isbn
<1>1. /\ req[w].op = "create" /\ req[w].at = "written"
      /\ b \in Books
      /\ book[b].state = "absent"
      /\ \A v \in Workers : (req[v].op = "create" /\ req[v].book = b) => v = w
  BY DEF CreateCommit, TypeInv, NamedIds, RequestRules, FreshIds
<1>2. /\ req'[w] = Idle
      /\ OthersStand(w)
      /\ Labels(w, b)
      /\ book'[b].state = "catalog" /\ book'[b].isbn = i
      /\ \A d \in Books \ {b} : book'[d] = book[d]
      /\ UNCHANGED <<loan, seq>>
  BY <1>1, Ending, CopiesWithLabels DEF CreateCommit, TypeInv, TypeOK
<1>3. \A k \in Codes : copy[k].state # "absent" => copy[k].book # b
  BY <1>1 DEF RowRules, References
<1>4. \A v \in Workers \ {w} : ~UpdateLocks(v, b)
  BY <1>1 DEF RequestRules, ChangesHold
<1>5. \A j \in Isbns : j = i => /\ IsbnFreeFor(j, b)
                                /\ \A v \in Workers : PendingIsbn(v, j) => v = w
  BY <1>1 DEF RequestRules, IsbnsHold
<1> HIDE DEF b, i
<1>6. /\ References' /\ CopiesFollowTheirTitle' /\ NumbersAreUsedUp' /\ OneActiveLoanPerCopy'
      /\ RemovedTitlesAreHome' /\ HistoryIsKept'
      /\ LocksExclude' /\ NamedRows' /\ BorrowsHold' /\ ReturnsHold' /\ ChangesHold'
      /\ CodesHold'
  BY <1>1, <1>2, <1>3, <1>4, LabelsKeep
<1>7. \A d \in Books, j \in Isbns : HasIsbn(d, j)' => HasIsbn(d, j) \/ (d = b /\ j = i)
  BY <1>2 DEF HasIsbn
<1>8. IsbnsAreUnique'
  BY <1>1, <1>5, <1>7, NoneAssumption DEF RowRules, IsbnsAreUnique, IsbnFreeFor
<1>9. IsbnsHold'
  <2> SUFFICES ASSUME NEW v \in Workers, NEW j \in Isbns, v # w, PendingIsbn(v, j)
               PROVE  IsbnFreeFor(j, req[v].book)'
    BY <1>2 DEF RequestRules, OthersStand, IsbnsHold, Idle
  <2>1. j # i
    BY <1>5
  <2>2. IsbnFreeFor(j, req[v].book)
    BY DEF RequestRules, IsbnsHold
  <2>3. req'[v].book = req[v].book
    BY <1>2 DEF OthersStand
  <2>4. \A d \in Books \ {req[v].book} : ~HasIsbn(d, j)'
    BY <1>7, <2>1, <2>2, NoneAssumption DEF IsbnFreeFor
  <2> QED
    BY <2>3, <2>4 DEF IsbnFreeFor
<1>10. FreshIds'
  BY <1>1, <1>2 DEF RequestRules, OthersStand, FreshIds, TypeInv, NamedIds, Idle
<1> QED
  BY <1>6, <1>8, <1>9, <1>10 DEF RowRules, RequestRules

LEMMA AddCommitKeeps ==
  ASSUME TypeInv, RowRules, RequestRules, NEW w \in Workers, AddCommit(w)
  PROVE  RowRules' /\ RequestRules'
<1> DEFINE b == req[w].book
<1>1. /\ UpdateLocks(w, b)
      /\ b \in Books
      /\ book[b].state = "catalog"
      /\ \A v \in Workers \ {w} : ~UpdateLocks(v, b)
  BY DEF AddCommit, TypeInv, NamedIds, RequestRules, LocksExclude, ChangesHold
<1>2. /\ req'[w] = Idle
      /\ OthersStand(w)
      /\ Labels(w, b)
      /\ UNCHANGED <<book, loan, seq>>
  BY Ending, CopiesWithLabels DEF AddCommit, TypeInv
<1> HIDE DEF b
<1>3. /\ References' /\ CopiesFollowTheirTitle' /\ NumbersAreUsedUp' /\ OneActiveLoanPerCopy'
      /\ RemovedTitlesAreHome' /\ HistoryIsKept'
      /\ LocksExclude' /\ NamedRows' /\ BorrowsHold' /\ ReturnsHold' /\ ChangesHold'
      /\ CodesHold'
  BY <1>1, <1>2, LabelsKeep
<1>4. IsbnsAreUnique' /\ IsbnsHold' /\ FreshIds'
  BY <1>2 DEF RowRules, RequestRules, OthersStand, IsbnsAreUnique, IsbnsHold, FreshIds, IsbnFreeFor,
     HasIsbn, Idle
<1> QED
  BY <1>3, <1>4 DEF RowRules, RequestRules

LEMMA EditCommitKeeps ==
  ASSUME TypeInv, RowRules, RequestRules, NEW w \in Workers, EditCommit(w)
  PROVE  RowRules' /\ RequestRules'
<1> DEFINE b == req[w].book
           i == req[w].isbn
<1>1. /\ req[w].op = "edit" /\ req[w].at = "written"
      /\ b \in Books
      /\ book[b].state = "catalog"
  BY DEF EditCommit, TypeInv, NamedIds, RequestRules, ChangesHold
<1>2. /\ req'[w] = Idle
      /\ OthersStand(w)
      /\ \A d \in Books : book'[d].state = book[d].state
      /\ book'[b].isbn = i
      /\ \A d \in Books \ {b} : book'[d] = book[d]
      /\ UNCHANGED <<copy, loan, seq>>
  <2>1. book' = [book EXCEPT ![b].isbn = i] /\ book \in [Books -> BookRow]
    BY DEF EditCommit, TypeInv, TypeOK
  <2>2. /\ \A d \in Books : book'[d].state = book[d].state
        /\ book'[b].isbn = i
        /\ \A d \in Books \ {b} : book'[d] = book[d]
    BY <1>1, <2>1 DEF BookRow
  <2> QED
    BY <2>2, Ending DEF EditCommit, TypeInv
<1>3. \A j \in Isbns : j = i => /\ IsbnFreeFor(j, b)
                                /\ \A v \in Workers : PendingIsbn(v, j) => v = w
  BY <1>1 DEF RequestRules, IsbnsHold
<1> HIDE DEF b, i
<1>4. \A d \in Books, j \in Isbns : HasIsbn(d, j)' => HasIsbn(d, j) \/ (d = b /\ j = i)
  BY <1>2 DEF HasIsbn
<1>5. IsbnsAreUnique'
  BY <1>1, <1>3, <1>4, NoneAssumption DEF RowRules, IsbnsAreUnique, IsbnFreeFor
<1>6. References' /\ CopiesFollowTheirTitle'
  BY <1>2 DEF RowRules, References, CopiesFollowTheirTitle
<1>7. NumbersAreUsedUp' /\ OneActiveLoanPerCopy' /\ RemovedTitlesAreHome' /\ HistoryIsKept'
  BY <1>2 DEF RowRules, NumbersAreUsedUp, OneActiveLoanPerCopy, RemovedTitlesAreHome, HistoryIsKept
<1>8. IsbnsHold'
  <2> SUFFICES ASSUME NEW v \in Workers, NEW j \in Isbns, v # w, PendingIsbn(v, j)
               PROVE  IsbnFreeFor(j, req[v].book)'
    BY <1>2 DEF RequestRules, OthersStand, IsbnsHold, Idle
  <2>1. j # i
    BY <1>3
  <2>2. IsbnFreeFor(j, req[v].book)
    BY DEF RequestRules, IsbnsHold
  <2>3. req'[v].book = req[v].book
    BY <1>2 DEF OthersStand
  <2>4. \A d \in Books \ {req[v].book} : ~HasIsbn(d, j)'
    BY <1>4, <2>1, <2>2, NoneAssumption DEF IsbnFreeFor
  <2> QED
    BY <2>3, <2>4 DEF IsbnFreeFor
<1>9. LocksExclude' /\ FreshIds' /\ NamedRows' /\ ReturnsHold'
  BY <1>2 DEF RequestRules, OthersStand, LocksExclude, FreshIds, NamedRows, ReturnsHold, TypeInv,
     NamedIds, Idle
<1>10. BorrowsHold' /\ CodesHold'
  BY <1>2 DEF RequestRules, OthersStand, BorrowsHold, CodesHold, ActiveOn, Idle
<1>11. ChangesHold'
  BY <1>2 DEF RequestRules, OthersStand, ChangesHold, ActiveOn, CopiesOf, LoansOf, TypeInv, NamedIds,
     Idle
<1> QED
  BY <1>5, <1>6, <1>7, <1>8, <1>9, <1>10, <1>11 DEF RowRules, RequestRules

LEMMA DeleteCommitKeeps ==
  ASSUME TypeInv, RowRules, RequestRules, NEW w \in Workers, DeleteCommit(w)
  PROVE  RowRules' /\ RequestRules'
<1> DEFINE b == req[w].book
           out == req[w].outcome
<1>1. /\ req[w].op = "delete" /\ req[w].at = "written"
      /\ b \in Books
      /\ UpdateLocks(w, b)
      /\ book[b].state = "catalog"
      /\ \A k \in CopiesOf(b) : ActiveOn(k) = {}
      /\ out = IF LoansOf(b) = {} THEN "deleted" ELSE "archived"
  BY DEF DeleteCommit, TypeInv, NamedIds, RequestRules, ChangesHold
<1>2. \A v \in Workers : v # w => ~UpdateLocks(v, b) /\ ~ShareLocks(v, b)
  BY <1>1 DEF RequestRules, LocksExclude
<1>3. \A k \in Codes : k \in CopiesOf(b) <=> copy[k].state # "absent" /\ copy[k].book = b
  BY <1>1 DEF CopiesOf, RowRules, CopiesFollowTheirTitle
<1>4. /\ req'[w] = Idle
      /\ OthersStand(w)
      /\ book'[b].state = out /\ book'[b].isbn = book[b].isbn
      /\ \A d \in Books \ {b} : book'[d] = book[d]
      /\ \A k \in Codes : copy'[k].book = copy[k].book
      /\ \A k \in CopiesOf(b) : copy'[k].state = out
      /\ \A k \in Codes : k \notin CopiesOf(b) => copy'[k] = copy[k]
      /\ UNCHANGED <<loan, seq>>
  <2>1. /\ book' = [book EXCEPT ![b].state = out]
        /\ copy' = [k \in Codes |-> IF k \in CopiesOf(b) THEN [copy[k] EXCEPT !.state = out] ELSE copy[k]]
        /\ book \in [Books -> BookRow] /\ copy \in [Codes -> CopyRow]
    BY DEF DeleteCommit, TypeInv, TypeOK
  <2>2. /\ book'[b].state = out /\ book'[b].isbn = book[b].isbn
        /\ \A d \in Books \ {b} : book'[d] = book[d]
    BY <1>1, <2>1 DEF BookRow
  <2>3. /\ \A k \in Codes : copy'[k].book = copy[k].book
        /\ \A k \in CopiesOf(b) : copy'[k].state = out
        /\ \A k \in Codes : k \notin CopiesOf(b) => copy'[k] = copy[k]
    BY <2>1 DEF CopyRow, CopiesOf
  <2> QED
    BY <2>2, <2>3, Ending DEF DeleteCommit, TypeInv
<1>5. out \in {"archived", "deleted"}
  BY <1>1
<1> HIDE DEF b, out
<1>6. \A k \in Codes : copy'[k].state = "absent" <=> copy[k].state = "absent"
  BY <1>3, <1>4, <1>5
<1>7. \A d \in Books : book'[d].state = "absent" <=> book[d].state = "absent"
  BY <1>1, <1>4, <1>5
<1>8. References'
  BY <1>4, <1>6, <1>7 DEF RowRules, References
<1>9. CopiesFollowTheirTitle'
  BY <1>3, <1>4, <1>6 DEF RowRules, References, CopiesFollowTheirTitle
<1>10. \A l \in Loans : loan[l].state = "active" => loan[l].copy \notin CopiesOf(b)
  BY <1>1 DEF ActiveOn
<1>11. RemovedTitlesAreHome'
  BY <1>4, <1>10 DEF RowRules, References, RemovedTitlesAreHome
<1>12. HistoryIsKept'
  BY <1>1, <1>4 DEF RowRules, References, HistoryIsKept, LoansOf
<1>13. NumbersAreUsedUp' /\ OneActiveLoanPerCopy'
  BY <1>4, <1>6 DEF RowRules, NumbersAreUsedUp, OneActiveLoanPerCopy
<1>14. \A d \in Books, j \in Isbns : HasIsbn(d, j)' => HasIsbn(d, j)
  BY <1>1, <1>4, <1>5 DEF HasIsbn
<1>15. IsbnsAreUnique'
  BY <1>14 DEF RowRules, IsbnsAreUnique
<1>16. IsbnsHold'
  BY <1>4, <1>14 DEF RequestRules, OthersStand, IsbnsHold, IsbnFreeFor, Idle
<1>17. LocksExclude' /\ FreshIds' /\ NamedRows' /\ ReturnsHold'
  BY <1>4, <1>6, <1>7 DEF RequestRules, OthersStand, LocksExclude, FreshIds, NamedRows, ReturnsHold,
     TypeInv, NamedIds, Idle
<1>18. BorrowsHold'
  <2>1. \A v \in Workers \ {w} :
          (req[v].op = "borrow" /\ req[v].at \in {"locked", "checked", "written"}) => req[v].book # b
    BY <1>2
  <2> QED
    BY <1>4, <2>1 DEF RequestRules, OthersStand, BorrowsHold, ActiveOn, TypeInv, NamedIds, Idle
<1>19. ChangesHold'
  <2>1. ASSUME NEW v \in Workers, v # w, UpdateLocks(v, req[v].book)
        PROVE  /\ req[v].book \in Books \ {b}
               /\ CopiesOf(req[v].book)' = CopiesOf(req[v].book)
               /\ LoansOf(req[v].book)' = LoansOf(req[v].book)
    <3>1. req[v].book \in Books \ {b}
      BY <1>2, <2>1 DEF TypeInv, NamedIds
    <3>2. CopiesOf(req[v].book)' = CopiesOf(req[v].book)
      BY <1>3, <1>4, <2>1, <3>1 DEF CopiesOf, OthersStand
    <3> QED
      BY <1>4, <3>1, <3>2 DEF LoansOf
  <2> QED
    BY <1>4, <2>1, ChangesStand DEF RequestRules
<1>20. CodesHold'
  BY <1>4, <1>6 DEF RequestRules, OthersStand, CodesHold, TypeInv, TypeOK, Request, Idle
<1> QED
  BY <1>8, <1>9, <1>11, <1>12, <1>13, <1>15, <1>16, <1>17, <1>18, <1>19, <1>20 DEF RowRules, RequestRules

-----------------------------------------------------------------------------
\* All steps together

\* A step that moves a request on, or ends it, without touching the rows.
RowsUnchanged == UNCHANGED <<book, copy, loan, seq>>

LEMMA CirculationKeeps ==
  ASSUME TypeInv, RowRules, RequestRules, NEW w \in Workers, CirculationStep(w)
  PROVE  RowRules' /\ RequestRules'
<1>1. CASE BorrowFind(w)
  <2>1. RowsUnchanged
    BY <1>1 DEF BorrowFind, RowsUnchanged, rows
  <2> QED
    BY <1>1, <2>1, BorrowFindKeeps, EndKeeps, RowsStand DEF RowsUnchanged, TypeInv
<1>2. CASE BorrowLock(w)
  <2>1. RowsUnchanged
    BY <1>2 DEF BorrowLock, RowsUnchanged, rows
  <2> QED
    BY <1>2, <2>1, BorrowLockKeeps, EndKeeps, RowsStand DEF RowsUnchanged, TypeInv
<1>3. CASE BorrowCheck(w)
  <2>1. RowsUnchanged
    BY <1>3 DEF BorrowCheck, RowsUnchanged, rows
  <2> QED
    BY <1>3, <2>1, BorrowCheckKeeps, EndKeeps, RowsStand DEF RowsUnchanged, TypeInv
<1>4. CASE BorrowInsert(w)
  <2>1. RowsUnchanged
    BY <1>4 DEF BorrowInsert, RowsUnchanged, rows
  <2> QED
    BY <1>4, <2>1, BorrowInsertKeeps, EndKeeps, RowsStand DEF RowsUnchanged, TypeInv
<1>5. CASE ReturnUpdate(w)
  <2>1. RowsUnchanged
    BY <1>5 DEF ReturnUpdate, RowsUnchanged, rows
  <2> QED
    BY <1>5, <2>1, ReturnUpdateKeeps, EndKeeps, RowsStand DEF RowsUnchanged, TypeInv
<1> QED
  BY <1>1, <1>2, <1>3, <1>4, <1>5, BorrowCommitKeeps, ReturnCommitKeeps DEF CirculationStep

LEMMA CatalogKeeps ==
  ASSUME TypeInv, RowRules, RequestRules, NEW w \in Workers, CatalogStep(w)
  PROVE  RowRules' /\ RequestRules'
<1>1. CASE CreateCheck(w)
  <2>1. RowsUnchanged
    BY <1>1 DEF CreateCheck, RowsUnchanged, rows
  <2> QED
    BY <1>1, <2>1, CreateCheckKeeps, EndKeeps, RowsStand DEF RowsUnchanged, TypeInv
<1>2. CASE CreateInsert(w)
  <2>1. RowsUnchanged
    BY <1>2 DEF CreateInsert, WriteIsbn, RowsUnchanged, rows
  <2> QED
    BY <1>2, <2>1, CreateInsertKeeps, EndKeeps, RowsStand DEF RowsUnchanged, TypeInv
<1>3. CASE EditLock(w)
  <2>1. RowsUnchanged
    BY <1>3 DEF EditLock, Lock, RowsUnchanged, rows
  <2> QED
    BY <1>3, <2>1, EditLockKeeps, EndKeeps, RowsStand DEF RowsUnchanged, TypeInv
<1>4. CASE EditCheck(w)
  <2>1. RowsUnchanged
    BY <1>4 DEF EditCheck, RowsUnchanged, rows
  <2> QED
    BY <1>4, <2>1, EditCheckKeeps, EndKeeps, RowsStand DEF RowsUnchanged, TypeInv
<1>5. CASE EditFlush(w)
  <2>1. RowsUnchanged
    BY <1>5 DEF EditFlush, WriteIsbn, RowsUnchanged, rows
  <2> QED
    BY <1>5, <2>1, EditFlushKeeps, EndKeeps, RowsStand DEF RowsUnchanged, TypeInv
<1>6. CASE DeleteLock(w)
  <2>1. RowsUnchanged
    BY <1>6 DEF DeleteLock, Lock, RowsUnchanged, rows
  <2> QED
    BY <1>6, <2>1, DeleteLockKeeps, EndKeeps, RowsStand DEF RowsUnchanged, TypeInv
<1>7. CASE DeleteCheckOnLoan(w)
  <2>1. RowsUnchanged
    BY <1>7 DEF DeleteCheckOnLoan, RowsUnchanged, rows
  <2> QED
    BY <1>7, <2>1, DeleteCheckOnLoanKeeps, EndKeeps, RowsStand DEF RowsUnchanged, TypeInv
<1>8. CASE DeleteDecide(w)
  <2>1. RowsUnchanged
    BY <1>8 DEF DeleteDecide, RowsUnchanged, rows
  <2> QED
    BY <1>8, <2>1, DeleteDecideKeeps, RowsStand DEF RowsUnchanged, TypeInv
<1>9. CASE DeleteFlush(w)
  <2>1. RowsUnchanged
    BY <1>9 DEF DeleteFlush, RowsUnchanged, rows
  <2> QED
    BY <1>9, <2>1, DeleteFlushKeeps, EndKeeps, RowsStand DEF RowsUnchanged, TypeInv
<1>10. CASE AddLock(w)
  <2>1. RowsUnchanged
    BY <1>10 DEF AddLock, Lock, RowsUnchanged, rows
  <2> QED
    BY <1>10, <2>1, AddLockKeeps, EndKeeps, RowsStand DEF RowsUnchanged, TypeInv
<1> QED
  BY <1>1, <1>2, <1>3, <1>4, <1>5, <1>6, <1>7, <1>8, <1>9, <1>10, CreateCommitKeeps, EditCommitKeeps, DeleteCommitKeeps,
     AddCommitKeeps, AllocateCodeKeeps DEF CatalogStep

\* A step hands out the next number of the sequence, or none and leaves the
\* sequence where it is: nothing ever sets it back.
LEMMA HandedKeeps ==
  ASSUME TypeInv, HandedInOrder, [Next]_vars
  PROVE  HandedInOrder'
<1> DEFINE Stands == UNCHANGED <<seq, handed>>
<1>1. ASSUME NEW w \in Workers, CirculationStep(w) PROVE Stands
  BY <1>1 DEF CirculationStep, BorrowFind, BorrowLock, BorrowCheck, BorrowInsert, BorrowCommit,
     ReturnUpdate, ReturnCommit
<1>2. ASSUME NEW w \in Workers, CatalogStep(w) PROVE AllocateCode(w) \/ Stands
  BY <1>2 DEF CatalogStep, CreateCheck, CreateInsert, CreateCommit, EditLock, EditCheck, EditFlush,
     EditCommit, DeleteLock, DeleteCheckOnLoan, DeleteDecide, DeleteFlush, DeleteCommit, AddLock,
     AddCommit, Lock, WriteIsbn
<1>3. ASSUME NEW w \in Workers, BeginCirculation(w) \/ BeginCatalog(w) PROVE Stands
  BY <1>3 DEF BeginCirculation, BeginBorrow, BeginReturn, BeginCatalog, BeginCreate, BeginChange, Begin
<1>4. ASSUME NEW w \in Workers, Abort(w) PROVE Stands
  BY <1>4 DEF Abort
<1>5. Tick \/ UNCHANGED vars => Stands
  BY DEF Tick, vars
<1>6. CASE Stands
  BY <1>6 DEF HandedInOrder
<1>7. ASSUME NEW w \in Workers, AllocateCode(w) PROVE HandedInOrder'
  <2>1. seq \in Nat /\ seq' = seq + 1 /\ handed' = Append(handed, seq) /\ handed \in Seq(Codes)
    BY <1>7, BoundsAssumption DEF AllocateCode, Takes, Nextval, TypeInv, TypeOK, Codes, HandedNumbers
  <2>2. Len(handed) = seq - 1 /\ \A i \in 1..(seq - 1) : handed[i] = i
    BY DEF HandedInOrder
  <2>3. Len(handed') = seq' - 1
    BY <2>1, <2>2
  <2>4. \A i \in 1..(seq' - 1) : handed'[i] = i
    BY <2>1, <2>2
  <2> QED
    BY <2>3, <2>4 DEF HandedInOrder
<1> QED
  BY <1>1, <1>2, <1>3, <1>4, <1>5, <1>6, <1>7 DEF Next

LEMMA NextKeeps == IInv /\ [Next]_vars => IInv'
<1> SUFFICES ASSUME IInv, [Next]_vars PROVE IInv'
  OBVIOUS
<1>1. TypeInv /\ RowRules /\ RequestRules /\ HandedInOrder
  BY IInvParts
<1>2. TypeInv'
  BY <1>1, NextTypeInv
<1>3. RowRules' /\ RequestRules'
  <2>1. ASSUME NEW w \in Workers, BeginCirculation(w) PROVE RowRules' /\ RequestRules'
    BY <1>1, <2>1, BeginCirculationKeeps, RowsStand
  <2>2. ASSUME NEW w \in Workers, BeginCatalog(w) PROVE RowRules' /\ RequestRules'
    BY <1>1, <2>2, BeginCatalogKeeps, RowsStand
  <2>3. ASSUME NEW w \in Workers, Abort(w) PROVE RowRules' /\ RequestRules'
    <3>1. End(w) /\ UNCHANGED <<book, copy, loan, seq>>
      BY <2>3 DEF Abort, rows
    <3> QED
      BY <1>1, <3>1, EndKeeps, RowsStand DEF TypeInv
  <2>4. CASE UNCHANGED <<book, copy, loan, seq, req>>
    <3>1. RowRules'
      BY <1>1, <2>4, RowsStand
    <3>2. RequestRules'
      BY <1>1, <2>4 DEF RequestRules, LocksExclude, FreshIds, NamedRows, BorrowsHold, ReturnsHold,
         ChangesHold, IsbnsHold, CodesHold, IsbnFreeFor, HasIsbn, ActiveOn, CopiesOf,
         LoansOf
    <3> QED
      BY <3>1, <3>2
  <2>5. Tick \/ UNCHANGED vars => UNCHANGED <<book, copy, loan, seq, req>>
    BY DEF Tick, vars, rows
  <2> QED
    BY <1>1, <2>1, <2>2, <2>3, <2>4, <2>5, CirculationKeeps, CatalogKeeps DEF Next
<1>4. HandedInOrder'
  BY <1>1, HandedKeeps
<1>5. (TypeInv /\ RowRules /\ RequestRules /\ HandedInOrder)'
  BY <1>2, <1>3, <1>4
<1> QED
  BY <1>5, IInvParts, PTL

LEMMA InitIInv == Init => IInv
<1> SUFFICES ASSUME Init PROVE IInv
  OBVIOUS
<1>1. TypeInv
  BY InitTypeInv
<1>2. RowRules
  BY DEF Init, RowRules, References, CopiesFollowTheirTitle, NumbersAreUsedUp, OneActiveLoanPerCopy,
     RemovedTitlesAreHome, HistoryIsKept, IsbnsAreUnique, HasIsbn
<1>3. \A w \in Workers : req[w].op = "none" /\ req[w].codes = {}
  BY DEF Init, Idle
<1>4. RequestRules
  BY <1>3 DEF RequestRules, LocksExclude, FreshIds, NamedRows, BorrowsHold, ReturnsHold,
     ChangesHold, IsbnsHold, CodesHold
<1>5. HandedInOrder
  BY DEF Init, HandedInOrder
<1> QED
  BY <1>1, <1>2, <1>4, <1>5, IInvParts

-----------------------------------------------------------------------------
\* The theorems

(* The rules about rows and requests hold together in every reachable      *)
(* state: each part of IInv is what another part's step needs.             *)
THEOREM Invariance == Spec => []IInv
  BY InitIInv, NextKeeps, PTL DEF Spec

(* Two borrows of one copy never both commit, however many requests race:  *)
(* the title's share lock admits them together, the unique index only one. *)
THEOREM OneLoanAtATime == Spec => []OneActiveLoanPerCopy
<1>1. IInv => OneActiveLoanPerCopy
  BY DEF IInv
<1> QED
  BY Invariance, <1>1, PTL

(* Archiving or deleting a title and lending its copies exclude each other *)
(* through the lock on the title's row (get_book_for_change, borrow).      *)
THEOREM RemovedIsHome == Spec => []RemovedTitlesAreHome
<1>1. IInv => RemovedTitlesAreHome
  BY DEF IInv
<1> QED
  BY Invariance, <1>1, PTL

(* A copy with a loan in its history is never deleted (delete_book).       *)
THEOREM HistoryStays == Spec => []HistoryIsKept
<1>1. IInv => HistoryIsKept
  BY DEF IInv
<1> QED
  BY Invariance, <1>1, PTL

(* No copy of a title in the catalog is archived or gone, and no copy of a *)
(* removed title is left in it, added copies included.                     *)
THEOREM CopiesFollow == Spec => []CopiesFollowTheirTitle
<1>1. IInv => CopiesFollowTheirTitle
  BY DEF IInv
<1> QED
  BY Invariance, <1>1, PTL

(* Titles created and edited at once never end with one ISBN.              *)
THEOREM UniqueIsbns == Spec => []IsbnsAreUnique
<1>1. IInv => IsbnsAreUnique
  BY DEF IInv
<1> QED
  BY Invariance, <1>1, PTL

(* No number of the sequence is handed out twice, over all the numbers     *)
(* ever handed out, those of rolled back requests and of deleted copies    *)
(* with them (allocate_copy_codes).                                        *)
THEOREM CodesAreNew == Spec => []CodesAreHandedOutOnce
<1>1. IInv => CodesAreHandedOutOnce
  <2> SUFFICES ASSUME IInv PROVE CodesAreHandedOutOnce
    OBVIOUS
  <2>1. /\ DOMAIN handed = 1..(seq - 1)
        /\ \A i \in 1..(seq - 1) : handed[i] = i
    BY DEF IInv, TypeOK, HandedNumbers, HandedInOrder
  <2>2. ASSUME NEW c \in Codes, c < seq PROVE \E i \in DOMAIN handed : handed[i] = c
    <3>1. c \in 1..(seq - 1)
      BY <2>2, BoundsAssumption DEF IInv, TypeOK, Codes
    <3> QED
      BY <2>1, <3>1
  <2>3. ASSUME NEW w \in Workers, NEW c \in req[w].codes PROVE c \in Codes /\ c < seq
    BY DEF IInv, TypeOK, Request, CodesHold
  <2>4. ASSUME NEW c \in Codes, copy[c].state # "absent" PROVE c < seq
    BY <2>4 DEF IInv, NumbersAreUsedUp
  <2> QED
    BY <2>1, <2>2, <2>3, <2>4 DEF CodesAreHandedOutOnce
<1> QED
  BY Invariance, <1>1, PTL

(* A delete that found no history never meets the foreign key of a loan:   *)
(* "A loan that started in the meantime" cannot have (delete_book).        *)
THEOREM DeleteIsNeverRefused == Spec => []DeleteMeetsNoLoan
<1>1. IInv => DeleteMeetsNoLoan
  <2> SUFFICES ASSUME IInv, NEW w \in Workers, req[w].op = "delete",
                      req[w].at \in {"decided", "written"}, req[w].outcome = "deleted"
               PROVE  LoansOf(req[w].book) = {} /\ ~RemovalUndecided(w, req[w].book)
    BY DEF DeleteMeetsNoLoan
  <2>1. LoansOf(req[w].book) = {}
    BY DEF IInv, ChangesHold
  <2>2. ASSUME NEW v \in Workers, NEW c \in CopiesOf(req[w].book), PendingBorrow(v, c)
        PROVE  FALSE
    <3>1. req[w].book \in Books /\ UpdateLocks(w, req[w].book)
      BY DEF IInv, NamedIds
    <3>2. ShareLocks(v, req[w].book)
      BY <2>2 DEF IInv, BorrowsHold, CopiesOf
    <3> QED
      BY <3>1, <3>2 DEF IInv, LocksExclude
  <2> QED
    BY <2>1, <2>2 DEF RemovalUndecided
<1> QED
  BY Invariance, <1>1, PTL

-----------------------------------------------------------------------------
\* What follows from the invariant


LEMMA OnlyCommitsWrite ==
  ASSUME [Next]_vars, ~UNCHANGED rows
  PROVE  \E w \in Workers :
           \/ BorrowCommit(w) \/ ReturnCommit(w) \/ CreateCommit(w) \/ EditCommit(w)
           \/ DeleteCommit(w) \/ AddCommit(w)
<1>1. ASSUME NEW w \in Workers, BeginCirculation(w) PROVE UNCHANGED rows
  BY <1>1 DEF BeginCirculation, BeginBorrow, BeginReturn, Begin
<1>2. ASSUME NEW w \in Workers, BeginCatalog(w) PROVE UNCHANGED rows
  BY <1>2 DEF BeginCatalog, BeginCreate, BeginChange, Begin
<1>3. ASSUME NEW w \in Workers, CirculationStep(w), ~BorrowCommit(w), ~ReturnCommit(w)
      PROVE  UNCHANGED rows
  BY <1>3 DEF CirculationStep, BorrowFind, BorrowLock, BorrowCheck, BorrowInsert, ReturnUpdate
<1>4. ASSUME NEW w \in Workers, CatalogStep(w), ~CreateCommit(w), ~EditCommit(w), ~DeleteCommit(w),
             ~AddCommit(w)
      PROVE  UNCHANGED rows
  BY <1>4 DEF CatalogStep, CreateCheck, CreateInsert, WriteIsbn, EditLock, EditCheck, EditFlush,
     DeleteLock, DeleteCheckOnLoan, DeleteDecide, DeleteFlush, AddLock, AllocateCode, Takes, Lock
<1>5. ASSUME Tick \/ UNCHANGED vars \/ \E w \in Workers : Abort(w) PROVE UNCHANGED rows
  BY <1>5 DEF Tick, vars, rows, Abort
<1> QED
  BY <1>1, <1>2, <1>3, <1>4, <1>5 DEF Next

-----------------------------------------------------------------------------
\* A request for new copies has numbers to take until it has some.

TakesLabels ==
  \A w \in Workers : req[w].op \in {"create", "add"} => req[w].count > 0 \/ req[w].codes # {}

LEMMA NextTakesLabels ==
  ASSUME TypeOK, TakesLabels, [Next]_vars
  PROVE  TakesLabels'
<1> USE DEF TypeOK, TakesLabels, Idle, At, Advance, End, Begin, Request
<1>1. ASSUME NEW w \in Workers, BeginCirculation(w) PROVE TakesLabels'
  <2>1. ASSUME NEW r, Begin(w, r), r.op \notin {"create", "add"} PROVE TakesLabels'
    BY <2>1
  <2> HIDE DEF TakesLabels, Begin
  <2>2. ASSUME NEW c \in Codes, NEW m, NEW l \in Loans, BeginBorrow(w, c, m, l) PROVE TakesLabels'
    BY <2>1, <2>2 DEF BeginBorrow
  <2>3. ASSUME NEW l \in Loans, BeginReturn(w, l) PROVE TakesLabels'
    BY <2>1, <2>3 DEF BeginReturn
  <2> QED
    BY <1>1, <2>2, <2>3 DEF BeginCirculation
<1>2. ASSUME NEW w \in Workers, BeginCatalog(w) PROVE TakesLabels'
  <2>1. ASSUME NEW r, Begin(w, r), r.op \in {"create", "add"} => r.count > 0 PROVE TakesLabels'
    BY <2>1
  <2>2. \A n \in 1..MaxBatch : n > 0
    BY BoundsAssumption
  <2> HIDE DEF TakesLabels, Begin
  <2>3. ASSUME NEW b \in Books, NEW i \in Isbns \cup {None}, NEW n \in 1..MaxBatch,
               BeginCreate(w, b, i, n)
        PROVE  TakesLabels'
    BY <2>1, <2>2, <2>3 DEF BeginCreate
  <2>4. ASSUME NEW b \in Books, NEW op \in {"edit", "delete"}, NEW i, BeginChange(w, op, b, i, 0)
        PROVE  TakesLabels'
    BY <2>1, <2>4 DEF BeginChange
  <2>5. ASSUME NEW b \in Books, NEW n \in 1..MaxBatch, BeginChange(w, "add", b, None, n)
        PROVE  TakesLabels'
    BY <2>1, <2>2, <2>5 DEF BeginChange
  <2> QED
    BY <1>2, <2>3, <2>4, <2>5 DEF BeginCatalog
<1>3. ASSUME NEW w \in Workers, CirculationStep(w) PROVE TakesLabels'
  BY <1>3, SMTT(30) DEF CirculationStep, BorrowFind, BorrowLock, BorrowCheck, BorrowInsert, BorrowCommit,
     ReturnUpdate, ReturnCommit
<1>4. ASSUME NEW w \in Workers, CatalogStep(w) PROVE TakesLabels'
  <2>1. ASSUME CreateCheck(w) \/ CreateInsert(w) \/ CreateCommit(w) PROVE TakesLabels'
    BY <2>1 DEF CreateCheck, CreateInsert, CreateCommit, WriteIsbn
  <2>2. ASSUME EditLock(w) \/ EditCheck(w) \/ EditFlush(w) \/ EditCommit(w) PROVE TakesLabels'
    BY <2>2 DEF EditLock, EditCheck, EditFlush, EditCommit, WriteIsbn, Lock
  <2>3. ASSUME DeleteLock(w) \/ DeleteCheckOnLoan(w) \/ DeleteDecide(w) PROVE TakesLabels'
    BY <2>3 DEF DeleteLock, DeleteCheckOnLoan, DeleteDecide, Lock
  <2>4. ASSUME DeleteFlush(w) \/ DeleteCommit(w) PROVE TakesLabels'
    BY <2>4 DEF DeleteFlush, DeleteCommit
  <2>5. ASSUME AddLock(w) \/ AddCommit(w) PROVE TakesLabels'
    BY <2>5 DEF AddLock, AddCommit, Lock
  <2>6. ASSUME AllocateCode(w) PROVE TakesLabels'
    BY <2>6 DEF AllocateCode, Takes
  <2> QED
    BY <1>4, <2>1, <2>2, <2>3, <2>4, <2>5, <2>6 DEF CatalogStep
<1>5. ASSUME Tick \/ UNCHANGED vars \/ \E w \in Workers : Abort(w) PROVE TakesLabels'
  BY <1>5 DEF Tick, vars, rows, Abort
<1> QED
  BY <1>1, <1>2, <1>3, <1>4, <1>5 DEF Next

LEMMA LabelsAreTaken == Spec => []TakesLabels
<1>1. Init => TakesLabels
  BY DEF Init, TakesLabels, Idle
<1>2. TypeOK /\ TakesLabels /\ [Next]_vars => TakesLabels'
  BY NextTakesLabels
<1> QED
  BY <1>1, <1>2, TypeCorrect, PTL DEF Spec

-----------------------------------------------------------------------------
\* The mapped rows, member by member

LEMMA MappedRows ==
  /\ \A b \in Books : StatusOf[b] = IF book[b].state = "absent" THEN "unknown" ELSE book[b].state
  /\ \A b \in Books : IsbnOf[b] = book[b].isbn
  /\ \A c \in Codes : OwnerOf[c] = copy[c].book
  /\ \A l \in Loans : LentAs[l] = IF loan[l].state = "absent" THEN None
                                  ELSE [copy |-> loan[l].copy, member |-> loan[l].member]
  /\ \A l \in Loans : l \in Returned <=> loan[l].state = "returned"
  BY DEF StatusOf, IsbnOf, OwnerOf, LentAs, Returned

\* A loan on record maps to its parts, which are not None.
LEMMA LentParts ==
  ASSUME References, NEW l \in Loans
  PROVE  /\ LentAs[l] = None <=> loan[l].state = "absent"
         /\ loan[l].state # "absent" => LentAs[l].copy = loan[l].copy
<1>1. CASE loan[l].state # "absent"
  <2>1. [copy |-> loan[l].copy, member |-> loan[l].member] \in [copy: Codes, member: Members]
    BY <1>1 DEF References
  <2>2. LentAs[l] = [copy |-> loan[l].copy, member |-> loan[l].member]
    BY <1>1, MappedRows
  <2>3. LentAs[l] # None
    BY <2>1, <2>2, NoneAssumption
  <2> QED
    BY <1>1, <2>2, <2>3
<1>2. CASE loan[l].state = "absent"
  BY <1>2, MappedRows
<1> QED
  BY <1>1, <1>2

\* The rule of Library about ISBNs is the services' own.
LEMMA SameIsbnRule ==
  ASSUME TypeOK, NEW b \in Books, NEW i, IsbnFreeFor(i, b)
  PROVE  Promised!IsbnFreeFor(i, b)
  BY MappedRows DEF Promised!IsbnFreeFor, IsbnFreeFor, HasIsbn

LEMMA RowsMap ==
  ASSUME UNCHANGED rows
  PROVE  UNCHANGED Promised!vars
  BY DEF Promised!vars, rows, StatusOf, IsbnOf, OwnerOf, LentAs, Returned

-----------------------------------------------------------------------------
\* Commits

LEMMA BorrowCommitMaps ==
  ASSUME IInv, NEW w \in Workers, BorrowCommit(w)
  PROVE  \E l \in Loans, c \in Codes, m \in Members : Promised!Borrow(l, c, m)
<1> DEFINE l == req[w].loan
           c == req[w].copy
           m == req[w].member
<1>1. /\ TypeOK /\ References
      /\ l \in Loans /\ c \in Codes /\ m \in Members
      /\ loan[l].state = "absent"
      /\ copy[c].book \in Books /\ book[copy[c].book].state = "catalog"
      /\ ActiveOn(c) = {}
  BY DEF IInv, BorrowCommit, NamedIds, NamedRows, FreshIds, BorrowsHold, References,
     CopiesFollowTheirTitle, At
<1>2. /\ loan'[l] = [state |-> "active", copy |-> c, member |-> m, borrowedAt |-> req[w].began,
                     returnedAt |-> 0]
      /\ \A k \in Loans : k # l => loan'[k] = loan[k]
      /\ UNCHANGED <<book, copy>>
  BY <1>1 DEF BorrowCommit, BorrowedLoan, TypeOK
<1> HIDE DEF l, c, m
<1>3. LentAs' = [LentAs EXCEPT ![l] = [copy |-> c, member |-> m]]
  <2>1. \A k \in Loans : (IF loan'[k].state = "absent" THEN None
                         ELSE [copy |-> loan'[k].copy, member |-> loan'[k].member])
                        = IF k = l THEN [copy |-> c, member |-> m] ELSE LentAs[k]
    BY <1>1, <1>2, MappedRows
  <2> QED
    BY <2>1 DEF LentAs
<1>4. Returned' = Returned
  BY <1>1, <1>2 DEF Returned
<1>5. StatusOf' = StatusOf /\ IsbnOf' = IsbnOf /\ OwnerOf' = OwnerOf
  BY <1>2 DEF StatusOf, IsbnOf, OwnerOf
<1>6. LentAs[l] = None
  BY <1>1, MappedRows
<1>7. OwnerOf[c] = copy[c].book /\ StatusOf[copy[c].book] = "catalog"
  BY <1>1, MappedRows
<1>8. ~Promised!OnLoan(c)
  <2> SUFFICES ASSUME NEW k \in Loans \ Returned, LentAs[k] # None, LentAs[k].copy = c
               PROVE  FALSE
    BY DEF Promised!OnLoan
  <2>1. loan[k].state = "active" /\ loan[k].copy = c
    BY <1>1, LentParts, MappedRows DEF TypeOK, LoanRow, LoanStates
  <2> QED
    BY <1>1, <2>1 DEF ActiveOn
<1>9. Promised!Borrow(l, c, m)
  BY <1>1, <1>3, <1>4, <1>5, <1>6, <1>7, <1>8 DEF Promised!Borrow
<1> QED
  BY <1>1, <1>9

LEMMA ReturnCommitMaps ==
  ASSUME IInv, NEW w \in Workers, ReturnCommit(w)
  PROVE  \E l \in Loans : Promised!Return(l)
<1> DEFINE l == req[w].loan
<1>1. /\ TypeOK /\ References
      /\ l \in Loans
      /\ loan[l].state = "active"
  BY DEF IInv, ReturnCommit, NamedIds, ReturnsHold, At
<1>2. /\ loan'[l].state = "returned"
      /\ loan'[l].copy = loan[l].copy /\ loan'[l].member = loan[l].member
      /\ \A k \in Loans : k # l => loan'[k] = loan[k]
      /\ UNCHANGED <<book, copy>>
  <2>1. loan[l] \in LoanRow /\ loan' = [loan EXCEPT ![l].state = "returned",
                                                    ![l].returnedAt = req[w].began]
    BY <1>1 DEF ReturnCommit, TypeOK
  <2>2. UNCHANGED <<book, copy>>
    BY DEF ReturnCommit
  <2> QED
    BY <1>1, <2>1, <2>2 DEF LoanRow, TypeOK
<1> HIDE DEF l
<1>3. LentAs' = LentAs
  BY <1>1, <1>2 DEF LentAs
<1>4. Returned' = Returned \cup {l}
  BY <1>1, <1>2 DEF Returned
<1>5. StatusOf' = StatusOf /\ IsbnOf' = IsbnOf /\ OwnerOf' = OwnerOf
  BY <1>2 DEF StatusOf, IsbnOf, OwnerOf
<1>6. LentAs[l] # None /\ l \notin Returned
  BY <1>1, LentParts, MappedRows
<1> QED
  BY <1>1, <1>3, <1>4, <1>5, <1>6 DEF Promised!Return

\* New copies of a title: the labels are new and there is one at least.
LEMMA LabelMaps ==
  ASSUME IInv, TakesLabels, NEW w \in Workers, req[w].op \in {"create", "add"}, req[w].count = 0,
         req[w].book \in Books, copy' = CopiesWith(req[w].codes, req[w].book)
  PROVE  req[w].codes \in SUBSET Codes /\ Promised!Label(req[w].book, req[w].codes)
<1>1. req[w].codes \in SUBSET Codes /\ req[w].codes # {}
  BY DEF IInv, TypeOK, Request, TakesLabels
<1>2. \A c \in req[w].codes : OwnerOf[c] = None
  BY <1>1, MappedRows DEF IInv, CodesHold, References
<1>3. OwnerOf' = [c \in Codes |-> IF c \in req[w].codes THEN req[w].book ELSE OwnerOf[c]]
  <2>1. \A c \in Codes : copy'[c].book = IF c \in req[w].codes THEN req[w].book ELSE OwnerOf[c]
    BY MappedRows DEF CopiesWith
  <2> QED
    BY <2>1 DEF OwnerOf
<1> QED
  BY <1>1, <1>2, <1>3 DEF Promised!Label, Promised!Codes, Codes

LEMMA CreateCommitMaps ==
  ASSUME IInv, TakesLabels, NEW w \in Workers, CreateCommit(w)
  PROVE  \E b \in Books, i \in Isbns \cup {None}, new \in SUBSET Codes : Promised!Create(b, i, new)
<1> DEFINE b == req[w].book
           i == req[w].isbn
           new == req[w].codes
<1>1. /\ TypeOK
      /\ b \in Books /\ i \in Isbns \cup {None}
      /\ book[b].state = "absent"
      /\ IsbnFreeFor(i, b)
      /\ req[w].op = "create" /\ req[w].count = 0
  BY DEF IInv, CreateCommit, NamedIds, FreshIds, IsbnsHold, PendingIsbn, IsbnFreeFor, At, TypeOK,
     Request
<1>2. /\ book' = [book EXCEPT ![b] = [state |-> "catalog", isbn |-> i]]
      /\ copy' = CopiesWith(new, b)
      /\ UNCHANGED loan
  BY DEF CreateCommit
<1>3. new \in SUBSET Codes /\ Promised!Label(b, new)
  BY <1>1, <1>2, LabelMaps
<1> HIDE DEF b, i, new
<1>4. StatusOf' = [StatusOf EXCEPT ![b] = "catalog"] /\ IsbnOf' = [IsbnOf EXCEPT ![b] = i]
  <2>1. \A d \in Books : /\ book'[d].state = IF d = b THEN "catalog" ELSE book[d].state
                         /\ book'[d].isbn = IF d = b THEN i ELSE book[d].isbn
    BY <1>1, <1>2 DEF TypeOK
  <2> QED
    BY <2>1 DEF StatusOf, IsbnOf
<1>5. LentAs' = LentAs /\ Returned' = Returned
  BY <1>2 DEF LentAs, Returned
<1>6. StatusOf[b] = "unknown" /\ Promised!IsbnFreeFor(i, b)
  BY <1>1, MappedRows, SameIsbnRule
<1>7. Promised!Create(b, i, new)
  BY <1>3, <1>4, <1>5, <1>6 DEF Promised!Create
<1> QED
  BY <1>1, <1>3, <1>7

LEMMA AddCommitMaps ==
  ASSUME IInv, TakesLabels, NEW w \in Workers, AddCommit(w)
  PROVE  \E b \in Books, new \in SUBSET Codes : Promised!AddCopies(b, new)
<1>1. /\ req[w].book \in Books
      /\ book[req[w].book].state = "catalog"
      /\ req[w].op = "add" /\ req[w].count = 0
      /\ copy' = CopiesWith(req[w].codes, req[w].book)
      /\ UNCHANGED <<book, loan>>
  BY DEF IInv, AddCommit, NamedIds, ChangesHold, UpdateLocks, At
<1>2. req[w].codes \in SUBSET Codes /\ Promised!Label(req[w].book, req[w].codes)
  BY <1>1, LabelMaps
<1>3. StatusOf' = StatusOf /\ IsbnOf' = IsbnOf /\ LentAs' = LentAs /\ Returned' = Returned
  BY <1>1 DEF StatusOf, IsbnOf, LentAs, Returned
<1>4. StatusOf[req[w].book] = "catalog"
  BY <1>1, MappedRows
<1>5. Promised!AddCopies(req[w].book, req[w].codes)
  BY <1>2, <1>3, <1>4 DEF Promised!AddCopies
<1> QED
  BY <1>1, <1>2, <1>5

LEMMA EditCommitMaps ==
  ASSUME IInv, NEW w \in Workers, EditCommit(w)
  PROVE  \E b \in Books, i \in Isbns \cup {None} : Promised!Edit(b, i)
<1> DEFINE b == req[w].book
           i == req[w].isbn
<1>1. /\ TypeOK
      /\ b \in Books /\ i \in Isbns \cup {None}
      /\ book[b].state = "catalog"
      /\ IsbnFreeFor(i, b)
  BY DEF IInv, EditCommit, NamedIds, ChangesHold, UpdateLocks, IsbnsHold, PendingIsbn, IsbnFreeFor,
     At, TypeOK, Request
<1>2. /\ \A d \in Books : /\ book'[d].state = book[d].state
                          /\ book'[d].isbn = IF d = b THEN i ELSE book[d].isbn
      /\ UNCHANGED <<copy, loan>>
  <2>1. book' = [book EXCEPT ![b].isbn = i] /\ UNCHANGED <<copy, loan>>
    BY DEF EditCommit
  <2> QED
    BY <1>1, <2>1 DEF TypeOK, BookRow
<1> HIDE DEF b, i
<1>3. StatusOf' = StatusOf /\ IsbnOf' = [IsbnOf EXCEPT ![b] = i]
  BY <1>2 DEF StatusOf, IsbnOf
<1>4. OwnerOf' = OwnerOf /\ LentAs' = LentAs /\ Returned' = Returned
  BY <1>2 DEF OwnerOf, LentAs, Returned
<1>5. StatusOf[b] = "catalog" /\ Promised!IsbnFreeFor(i, b)
  BY <1>1, MappedRows, SameIsbnRule
<1>6. Promised!Edit(b, i)
  BY <1>3, <1>4, <1>5 DEF Promised!Edit
<1> QED
  BY <1>1, <1>6

LEMMA DeleteCommitMaps ==
  ASSUME IInv, NEW w \in Workers, DeleteCommit(w)
  PROVE  \E b \in Books : Promised!Remove(b)
<1> DEFINE b == req[w].book
           out == req[w].outcome
<1>1. /\ TypeOK /\ References
      /\ b \in Books
      /\ book[b].state = "catalog"
      /\ \A c \in CopiesOf(b) : ActiveOn(c) = {}
      /\ out = IF LoansOf(b) = {} THEN "deleted" ELSE "archived"
  BY DEF IInv, DeleteCommit, NamedIds, ChangesHold, UpdateLocks, At
<1>2. /\ \A d \in Books : /\ book'[d].state = IF d = b THEN out ELSE book[d].state
                          /\ book'[d].isbn = book[d].isbn
      /\ \A c \in Codes : copy'[c].book = copy[c].book
      /\ UNCHANGED loan
  <2>1. /\ book' = [book EXCEPT ![b].state = out]
        /\ copy' = [c \in Codes |-> IF c \in CopiesOf(b) THEN [copy[c] EXCEPT !.state = out]
                                    ELSE copy[c]]
        /\ UNCHANGED loan
    BY DEF DeleteCommit
  <2> QED
    BY <1>1, <2>1 DEF TypeOK, BookRow, CopyRow
<1>3. Promised!CopiesOf(b) = CopiesOf(b)
  <2>1. \A c \in Codes : copy[c].book = b => copy[c].state \in {"catalog", "archived"}
    BY <1>1, NoneAssumption DEF IInv, References, CopiesFollowTheirTitle
  <2> QED
    BY <2>1, MappedRows DEF Promised!CopiesOf, CopiesOf, Promised!Codes, Codes
<1> HIDE DEF b, out
<1>4. Promised!LoansOf(b) = LoansOf(b)
  BY <1>1, <1>3, LentParts DEF Promised!LoansOf, LoansOf
<1>5. \A c \in CopiesOf(b) : ~Promised!OnLoan(c)
  <2> SUFFICES ASSUME NEW c \in CopiesOf(b), NEW k \in Loans \ Returned, LentAs[k] # None,
                      LentAs[k].copy = c
               PROVE  FALSE
    BY DEF Promised!OnLoan
  <2>1. loan[k].state = "active" /\ loan[k].copy = c
    BY <1>1, LentParts, MappedRows DEF TypeOK, LoanRow, LoanStates
  <2> QED
    BY <1>1, <2>1 DEF ActiveOn
<1>6. StatusOf' = [StatusOf EXCEPT ![b] = out] /\ IsbnOf' = IsbnOf
  <2>1. out # "absent"
    BY <1>1
  <2> QED
    BY <1>2, <2>1 DEF StatusOf, IsbnOf
<1>7. OwnerOf' = OwnerOf /\ LentAs' = LentAs /\ Returned' = Returned
  BY <1>2 DEF OwnerOf, LentAs, Returned
<1>8. StatusOf[b] = "catalog"
  BY <1>1, MappedRows
<1>9. Promised!Remove(b)
  BY <1>1, <1>3, <1>4, <1>5, <1>6, <1>7, <1>8 DEF Promised!Remove
<1> QED
  BY <1>1, <1>9

-----------------------------------------------------------------------------
\* The theorem

LEMMA InitMaps == Init => Promised!Init
<1> SUFFICES ASSUME Init PROVE Promised!Init
  OBVIOUS
<1>1. StatusOf = [b \in Books |-> "unknown"] /\ IsbnOf = [b \in Books |-> None]
  BY DEF Init, StatusOf, IsbnOf
<1>2. OwnerOf = [c \in Promised!Codes |-> None] /\ LentAs = [l \in Loans |-> None]
  BY DEF Init, OwnerOf, LentAs, Codes, Promised!Codes
<1>3. Returned = {}
  BY DEF Init, Returned
<1> QED
  BY <1>1, <1>2, <1>3 DEF Promised!Init

LEMMA StepMaps ==
  ASSUME IInv, TakesLabels, [Next]_vars
  PROVE  [Promised!Next]_(Promised!vars)
<1>1. CASE UNCHANGED rows
  BY <1>1, RowsMap
<1>2. CASE ~UNCHANGED rows
  <2>1. PICK w \in Workers : \/ BorrowCommit(w) \/ ReturnCommit(w) \/ CreateCommit(w)
                             \/ EditCommit(w) \/ DeleteCommit(w) \/ AddCommit(w)
    BY <1>2, OnlyCommitsWrite
  <2>2. Codes = Promised!Codes
    BY DEF Codes, Promised!Codes
  <2>3. Promised!Next
    BY <2>1, <2>2, BorrowCommitMaps, ReturnCommitMaps, CreateCommitMaps, EditCommitMaps,
       DeleteCommitMaps, AddCommitMaps DEF Promised!Next
  <2> QED
    BY <2>3
<1> QED
  BY <1>1, <1>2

(* Requests of any number, crossing at any statement, have no effect that  *)
(* whole requests one after the other could not have: every commit of a    *)
(* service is the atomic change that Library promises.                     *)
THEOREM Refinement == Spec => ImplementsLibrary
<1>1. IInv /\ TakesLabels /\ [Next]_vars => [Promised!Next]_(Promised!vars)
  BY StepMaps
<1> QED
  BY InitMaps, Invariance, LabelsAreTaken, <1>1, PTL DEF Spec, ImplementsLibrary, Promised!Spec

-----------------------------------------------------------------------------
\* The history


\* A loan on record as a step may leave it.
LoanGrows(l) ==
  /\ loan'[l].copy = loan[l].copy
  /\ loan'[l].member = loan[l].member
  /\ loan'[l].borrowedAt = loan[l].borrowedAt
  /\ loan[l].state = "returned" => loan'[l] = loan[l]
  /\ loan'[l].state # "absent"

LEMMA LoansGrow ==
  ASSUME IInv, [Next]_vars, NEW l \in Loans, loan[l].state # "absent"
  PROVE  LoanGrows(l)
<1>1. CASE loan' = loan
  BY <1>1 DEF LoanGrows
<1>2. ASSUME NEW w \in Workers, BorrowCommit(w) PROVE LoanGrows(l)
  <2>1. req[w].loan # l
    BY <1>2 DEF BorrowCommit, At, IInv, FreshIds
  <2>2. loan'[l] = loan[l]
    BY <1>2, <2>1 DEF BorrowCommit, IInv, TypeOK
  <2> QED
    BY <2>2 DEF LoanGrows
<1>3. ASSUME NEW w \in Workers, ReturnCommit(w) PROVE LoanGrows(l)
  <2>1. /\ loan[l] \in LoanRow
        /\ req[w].loan \in Loans /\ loan[req[w].loan].state = "active"
    BY <1>3 DEF ReturnCommit, At, IInv, NamedIds, ReturnsHold, TypeOK
  <2>2. loan' = [loan EXCEPT ![req[w].loan].state = "returned",
                             ![req[w].loan].returnedAt = req[w].began]
    BY <1>3 DEF ReturnCommit
  <2> QED
    BY <2>1, <2>2 DEF LoanGrows, LoanRow, IInv, TypeOK
<1>4. CASE loan' # loan
  <2>1. ~UNCHANGED rows
    BY <1>4 DEF rows
  <2>2. PICK w \in Workers : \/ BorrowCommit(w) \/ ReturnCommit(w) \/ CreateCommit(w)
                             \/ EditCommit(w) \/ DeleteCommit(w) \/ AddCommit(w)
    BY <2>1, OnlyCommitsWrite
  <2>3. BorrowCommit(w) \/ ReturnCommit(w)
    BY <1>4, <2>2 DEF CreateCommit, EditCommit, DeleteCommit, AddCommit
  <2> QED
    BY <2>3, <1>2, <1>3
<1> QED
  BY <1>1, <1>4

(* A loan on record is never forgotten, moved to another copy or member,   *)
(* reopened or ended twice (borrow and return_copy, circulation.py).       *)
THEOREM HistoryGrows == Spec => HistoryOnlyGrows
<1>1. IInv /\ [Next]_vars => [\A l \in Loans :
       loan[l].state # "absent" =>
         /\ loan'[l].copy = loan[l].copy
         /\ loan'[l].member = loan[l].member
         /\ loan'[l].borrowedAt = loan[l].borrowedAt
         /\ loan[l].state = "returned" => loan'[l] = loan[l]
         /\ loan'[l].state # "absent"]_vars
  BY LoansGrow DEF LoanGrows
<1> QED
  BY Invariance, <1>1, PTL DEF Spec, HistoryOnlyGrows

-----------------------------------------------------------------------------
\* A removed title

Removed(b) == book[b].state \in {"archived", "deleted"}

LEMMA RemovedStays ==
  ASSUME IInv, [Next]_vars, NEW b \in Books, Removed(b)
  PROVE  book'[b] = book[b] /\ \A c \in Codes : copy'[c].book = b => copy[c].book = b
<1>1. CASE UNCHANGED rows
  BY <1>1 DEF rows
<1>2. CASE ~UNCHANGED rows
  <2>1. PICK w \in Workers : \/ BorrowCommit(w) \/ ReturnCommit(w) \/ CreateCommit(w)
                             \/ EditCommit(w) \/ DeleteCommit(w) \/ AddCommit(w)
    BY <1>2, OnlyCommitsWrite
  <2>2. CASE BorrowCommit(w) \/ ReturnCommit(w)
    BY <2>2 DEF BorrowCommit, ReturnCommit
  <2>3. CASE CreateCommit(w) \/ AddCommit(w)
    <3>1. req[w].book # b
      BY <2>3 DEF CreateCommit, AddCommit, At, IInv, FreshIds, ChangesHold, UpdateLocks, Removed
    <3>2. book'[b] = book[b]
      BY <2>3, <3>1 DEF CreateCommit, AddCommit, IInv, TypeOK
    <3>3. \A c \in Codes : copy'[c] = copy[c] \/ copy'[c].book = req[w].book
      BY <2>3 DEF CreateCommit, AddCommit, CopiesWith
    <3> QED
      BY <3>1, <3>2, <3>3
  <2>4. CASE EditCommit(w)
    <3>1. req[w].book # b
      BY <2>4 DEF EditCommit, At, IInv, ChangesHold, UpdateLocks, Removed
    <3> QED
      BY <2>4, <3>1 DEF EditCommit, IInv, TypeOK
  <2>5. CASE DeleteCommit(w)
    <3>1. req[w].book # b
      BY <2>5 DEF DeleteCommit, At, IInv, ChangesHold, UpdateLocks, Removed
    <3>2. book'[b] = book[b]
      BY <2>5, <3>1 DEF DeleteCommit, IInv, TypeOK
    <3>3. \A c \in Codes : copy'[c].book = copy[c].book
      BY <2>5 DEF DeleteCommit, IInv, TypeOK, CopyRow
    <3> QED
      BY <3>2, <3>3
  <2> QED
    BY <2>1, <2>2, <2>3, <2>4, <2>5
<1> QED
  BY <1>1, <1>2

(* A change that waited for the removal of its title changes nothing: the  *)
(* title keeps its row and gets no new copies (_get_book_for_change).      *)
THEOREM RemovedForGood == Spec => RemovalIsFinal
<1>1. IInv /\ [Next]_vars => [\A b \in Books :
       book[b].state \in {"archived", "deleted"} =>
         book'[b] = book[b] /\ \A c \in Codes : copy'[c].book = b => copy[c].book = b]_vars
  BY RemovedStays DEF Removed
<1> QED
  BY Invariance, <1>1, PTL DEF Spec, RemovalIsFinal

-----------------------------------------------------------------------------
\* Times.  A transaction's start is in the past, and so is a loan's.

StartedBefore == \A w \in Workers : req[w].began <= clock
LentBefore == \A l \in Loans : loan[l].borrowedAt <= clock

TimesInv == StartedBefore /\ LentBefore /\ ReturnsFollowBorrows

\* A request keeps its start and its loan, ends, or starts now; one that
\* returns a loan starts when the loan is on record.
KeepsItsStart(w) ==
  \/ req'[w].op = req[w].op /\ req'[w].began = req[w].began /\ req'[w].loan = req[w].loan
  \/ req'[w] = Idle
  \/ /\ req'[w].began = clock
     /\ req'[w].op = "return" => req'[w].loan \in Loans /\ loan[req'[w].loan].state # "absent"

LEMMA Starts ==
  ASSUME TypeOK, [Next]_vars, NEW v \in Workers
  PROVE  KeepsItsStart(v)
<1> USE DEF TypeOK, KeepsItsStart, At, Advance, End, Request
<1>1. ASSUME NEW w \in Workers, NEW r, Begin(w, r), r.began = clock,
             r.op = "return" => r.loan \in Loans /\ loan[r.loan].state # "absent"
      PROVE  KeepsItsStart(v)
  BY <1>1 DEF Begin
<1>2. ASSUME NEW w \in Workers, BeginCirculation(w) PROVE KeepsItsStart(v)
  <2> HIDE DEF KeepsItsStart
  <2>1. ASSUME NEW c \in Codes, NEW m, NEW l \in Loans, BeginBorrow(w, c, m, l)
        PROVE  KeepsItsStart(v)
    BY <1>1, <2>1 DEF BeginBorrow, Idle
  <2>2. ASSUME NEW l \in Loans, BeginReturn(w, l) PROVE KeepsItsStart(v)
    BY <1>1, <2>2 DEF BeginReturn, Idle
  <2> QED
    BY <1>2, <2>1, <2>2 DEF BeginCirculation
<1>3. ASSUME NEW w \in Workers, BeginCatalog(w) PROVE KeepsItsStart(v)
  <2> HIDE DEF KeepsItsStart
  <2>1. ASSUME NEW b \in Books, NEW i, NEW n, BeginCreate(w, b, i, n) PROVE KeepsItsStart(v)
    BY <1>1, <2>1 DEF BeginCreate, Idle
  <2>2. ASSUME NEW b \in Books, NEW op \in {"edit", "delete", "add"}, NEW i, NEW n,
               BeginChange(w, op, b, i, n)
        PROVE  KeepsItsStart(v)
    BY <1>1, <2>2 DEF BeginChange, Idle
  <2> QED
    BY <1>3, <2>1, <2>2 DEF BeginCatalog
<1>4. ASSUME NEW w \in Workers, CirculationStep(w) PROVE KeepsItsStart(v)
  BY <1>4 DEF CirculationStep, BorrowFind, BorrowLock, BorrowCheck, BorrowInsert, BorrowCommit,
     ReturnUpdate, ReturnCommit
<1>5. ASSUME NEW w \in Workers, CatalogStep(w) PROVE KeepsItsStart(v)
  BY <1>5 DEF CatalogStep, CreateCheck, CreateInsert, CreateCommit, WriteIsbn, EditLock, EditCheck,
     EditFlush, EditCommit, DeleteLock, DeleteCheckOnLoan, DeleteDecide, DeleteFlush, DeleteCommit,
     AddLock, AddCommit, AllocateCode, Takes, Lock
<1>6. ASSUME Tick \/ UNCHANGED vars \/ \E w \in Workers : Abort(w) PROVE KeepsItsStart(v)
  BY <1>6 DEF Tick, vars, rows, Abort
<1> QED
  BY <1>2, <1>3, <1>4, <1>5, <1>6 DEF Next

LEMMA ClockRuns ==
  ASSUME TypeOK, [Next]_vars
  PROVE  clock' \in Nat /\ clock \in Nat /\ clock <= clock'
<1>1. ASSUME NEW w \in Workers, BeginCirculation(w) PROVE clock' = clock
  BY <1>1 DEF BeginCirculation, BeginBorrow, BeginReturn, Begin
<1>2. ASSUME NEW w \in Workers, BeginCatalog(w) PROVE clock' = clock
  BY <1>2 DEF BeginCatalog, BeginCreate, BeginChange, Begin
<1>3. ASSUME NEW w \in Workers, CirculationStep(w) PROVE clock' = clock
  BY <1>3 DEF CirculationStep, BorrowFind, BorrowLock, BorrowCheck, BorrowInsert, BorrowCommit,
     ReturnUpdate, ReturnCommit
<1>4. ASSUME NEW w \in Workers, CatalogStep(w) PROVE clock' = clock
  BY <1>4 DEF CatalogStep, CreateCheck, CreateInsert, CreateCommit, WriteIsbn, EditLock, EditCheck,
     EditFlush, EditCommit, DeleteLock, DeleteCheckOnLoan, DeleteDecide, DeleteFlush, DeleteCommit,
     AddLock, AddCommit, AllocateCode, Takes, Lock
<1>5. ASSUME UNCHANGED vars \/ \E w \in Workers : Abort(w) PROVE clock' = clock
  BY <1>5 DEF vars, Abort
<1>6. clock' = clock \/ Tick
  BY <1>1, <1>2, <1>3, <1>4, <1>5 DEF Next
<1> QED
  BY <1>6 DEF TypeOK, Tick

\* A borrow's start becomes the loan's, and a return's start its end.
LEMMA LoanTimes ==
  ASSUME IInv, [Next]_vars, NEW l \in Loans
  PROVE  \/ loan'[l] = loan[l]
         \/ /\ loan'[l].state = "active"
            /\ \E w \in Workers : loan'[l].borrowedAt = req[w].began
         \/ /\ loan'[l].state = "returned"
            /\ loan'[l].borrowedAt = loan[l].borrowedAt
            /\ \E w \in Workers : /\ req[w].op = "return" /\ req[w].loan = l
                                  /\ loan'[l].returnedAt = req[w].began
<1>1. CASE UNCHANGED rows
  BY <1>1 DEF rows
<1>2. CASE ~UNCHANGED rows
  <2>1. PICK w \in Workers : \/ BorrowCommit(w) \/ ReturnCommit(w) \/ CreateCommit(w)
                             \/ EditCommit(w) \/ DeleteCommit(w) \/ AddCommit(w)
    BY <1>2, OnlyCommitsWrite
  <2>2. CASE BorrowCommit(w)
    BY <2>2 DEF BorrowCommit, BorrowedLoan, IInv, TypeOK
  <2>3. CASE ReturnCommit(w)
    <3>1. loan[l] \in LoanRow /\ req[w].op = "return"
      BY <2>3 DEF ReturnCommit, At, IInv, TypeOK
    <3>2. loan' = [loan EXCEPT ![req[w].loan].state = "returned",
                               ![req[w].loan].returnedAt = req[w].began]
      BY <2>3 DEF ReturnCommit
    <3> QED
      BY <3>1, <3>2 DEF LoanRow, IInv, TypeOK
  <2>4. CASE CreateCommit(w) \/ EditCommit(w) \/ DeleteCommit(w) \/ AddCommit(w)
    BY <2>4 DEF CreateCommit, EditCommit, DeleteCommit, AddCommit
  <2> QED
    BY <2>1, <2>2, <2>3, <2>4
<1> QED
  BY <1>1, <1>2

LEMMA NextTimesInv ==
  ASSUME IInv, TimesInv, [Next]_vars
  PROVE  TimesInv'
<1>1. clock \in Nat /\ clock' \in Nat /\ clock <= clock'
  BY ClockRuns DEF IInv
<1>2. \A w \in Workers : req[w].began \in Nat /\ req'[w].began \in Nat
  <2>1. TypeOK'
    BY NextTypeInv DEF IInv, TypeInv
  <2> QED
    BY <2>1 DEF IInv, TypeOK, Request
<1>3. \A l \in Loans : loan[l].borrowedAt \in Nat /\ loan'[l].borrowedAt \in Nat
  <2>1. TypeOK'
    BY NextTypeInv DEF IInv, TypeInv
  <2> QED
    BY <2>1 DEF IInv, TypeOK, LoanRow
<1>4. StartedBefore'
  <2> SUFFICES ASSUME NEW w \in Workers PROVE req'[w].began <= clock'
    BY DEF StartedBefore
  <2>1. req'[w].began = req[w].began \/ req'[w].began = 0 \/ req'[w].began = clock
    BY Starts DEF KeepsItsStart, Idle, IInv
  <2> QED
    BY <1>1, <1>2, <2>1 DEF TimesInv, StartedBefore
<1>5. LentBefore'
  <2> SUFFICES ASSUME NEW l \in Loans PROVE loan'[l].borrowedAt <= clock'
    BY DEF LentBefore
  <2>1. \/ loan'[l].borrowedAt = loan[l].borrowedAt
        \/ \E w \in Workers : loan'[l].borrowedAt = req[w].began
    BY LoanTimes
  <2> QED
    BY <1>1, <1>2, <1>3, <2>1 DEF TimesInv, StartedBefore, LentBefore
<1>6. ASSUME NEW l \in Loans, loan'[l].state = "returned"
      PROVE  loan'[l].returnedAt >= loan'[l].borrowedAt
  <2>1. CASE loan'[l] = loan[l]
    BY <1>6, <2>1 DEF TimesInv, ReturnsFollowBorrows
  <2>2. CASE /\ loan'[l].borrowedAt = loan[l].borrowedAt
             /\ \E w \in Workers : /\ req[w].op = "return" /\ req[w].loan = l
                                   /\ loan'[l].returnedAt = req[w].began
    BY <2>2 DEF TimesInv, ReturnsFollowBorrows
  <2> QED
    BY <1>6, <2>1, <2>2, LoanTimes
<1>7. ASSUME NEW w \in Workers, req'[w].op = "return"
      PROVE  req'[w].began >= loan'[req'[w].loan].borrowedAt
  <2>1. CASE req'[w].op = req[w].op /\ req'[w].began = req[w].began /\ req'[w].loan = req[w].loan
    <3>1. req[w].loan \in Loans /\ loan[req[w].loan].state # "absent"
      BY <1>7, <2>1 DEF IInv, NamedIds, NamedRows
    <3>2. loan'[req[w].loan].borrowedAt = loan[req[w].loan].borrowedAt
      BY <3>1, LoansGrow DEF LoanGrows
    <3> QED
      BY <1>7, <2>1, <3>2 DEF TimesInv, ReturnsFollowBorrows
  <2>2. CASE /\ req'[w].began = clock
             /\ req'[w].loan \in Loans /\ loan[req'[w].loan].state # "absent"
    <3>1. loan'[req'[w].loan].borrowedAt = loan[req'[w].loan].borrowedAt
      BY <2>2, LoansGrow DEF LoanGrows
    <3> QED
      BY <1>1, <1>3, <2>2, <3>1 DEF TimesInv, LentBefore
  <2>3. req'[w] # Idle
    BY <1>7 DEF Idle
  <2> QED
    BY <1>7, <2>1, <2>2, <2>3, Starts DEF KeepsItsStart, IInv
<1> QED
  BY <1>4, <1>5, <1>6, <1>7 DEF TimesInv, ReturnsFollowBorrows

(* The table's CHECK (returned_at >= borrowed_at) never refuses a return.  *)
THEOREM ReturnsComeLater == Spec => []ReturnsFollowBorrows
<1>1. Init => TimesInv
  BY DEF Init, TimesInv, StartedBefore, LentBefore, ReturnsFollowBorrows, Idle
<1>2. IInv /\ TimesInv /\ [Next]_vars => TimesInv'
  BY NextTimesInv
<1>3. TimesInv => ReturnsFollowBorrows
  BY DEF TimesInv
<1> QED
  BY <1>1, <1>2, <1>3, Invariance, PTL DEF Spec

-----------------------------------------------------------------------------
\* Waiting.  A request that has written waits for nobody; one that waits for a
\* key or a foreign key waits for one that has written; and one that waits for a
\* row lock waits for its holder, which waits for no row lock.

Written(w) == req[w].at = "written" /\ Running(w)

LEMMA WrittenRuns ==
  ASSUME NEW w \in Workers, Written(w)
  PROVE  Running(w) /\ ~Blocked(w)
  BY DEF Written, Blocked, At

LEMMA HoldersWaitForWriters ==
  ASSUME NEW v \in Workers, NEW b, ShareLocks(v, b) \/ UpdateLocks(v, b)
  PROVE  Running(v) /\ (Blocked(v) => \E u \in Workers : Written(u))
<1>1. Running(v)
  BY DEF ShareLocks, UpdateLocks, Running
<1>2. ASSUME Blocked(v) PROVE \E u \in Workers : Written(u)
  BY <1>2 DEF Blocked, ShareLocks, UpdateLocks, At, Written, Running, LoanUndecided, CopyUndecided,
     IsbnUndecided, RemovalUndecided, PendingBorrow, PendingReturn, PendingIsbn, PendingEdit,
     PendingRemoval
<1> QED
  BY <1>1, <1>2

LEMMA WaitingEnds ==
  ASSUME NEW w \in Workers, Blocked(w)
  PROVE  \/ \E v \in Workers : Written(v)
         \/ \E v \in Workers : ShareLocks(v, req[w].book) \/ UpdateLocks(v, req[w].book)
  BY DEF Blocked, CanShare, CanUpdate, At, Written, Running, LoanUndecided, CopyUndecided,
     IsbnUndecided, RemovalUndecided, PendingBorrow, PendingReturn, PendingIsbn, PendingEdit,
     PendingRemoval

(* No set of requests waits in a circle: following who waits for whom ends *)
(* after two steps at a request that can go on.                            *)
THEOREM NoCircleOfWaiting == Spec => []NoDeadlock
<1>1. NoDeadlock
  <2> SUFFICES ASSUME NEW w \in Workers, Running(w), Blocked(w)
               PROVE  \E v \in Workers : Running(v) /\ ~Blocked(v)
    BY DEF NoDeadlock
  <2>1. CASE \E v \in Workers : Written(v)
    BY <2>1, WrittenRuns
  <2>2. CASE \E v \in Workers : ShareLocks(v, req[w].book) \/ UpdateLocks(v, req[w].book)
    BY <2>2, HoldersWaitForWriters, WrittenRuns
  <2> QED
    BY <2>1, <2>2, WaitingEnds
<1> QED
  BY <1>1, PTL
=============================================================================
