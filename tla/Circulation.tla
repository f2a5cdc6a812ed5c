---------------------------- MODULE Circulation ----------------------------
(***************************************************************************)
(* app/services/circulation.py: borrowing and returning a copy, statement  *)
(* by statement.                                                           *)
(*                                                                         *)
(* A borrow reads the copy with its title and share-locks the title's row  *)
(* in one statement.  When it has to wait for that lock, PostgreSQL reads  *)
(* the locked title again but keeps the copy it saw before the wait, so    *)
(* the statement is two steps here: BorrowFind and BorrowLock.             *)
(***************************************************************************)
EXTENDS LibraryTables

-----------------------------------------------------------------------------
\* Borrow.  The caller names a copy it has seen; None is a member that is not on
\* record.  The loan's id is a fresh one (uuid4).

FreshLoan(l) ==
  loan[l].state = "absent" /\ \A v \in Workers : ~(req[v].op = "borrow" /\ req[v].loan = l)

BeginBorrow(w, c, m, l) ==
  /\ copy[c].state # "absent"
  /\ FreshLoan(l)
  /\ Begin(w, [Idle EXCEPT !.op = "borrow", !.at = "begun", !.began = clock,
                           !.copy = c, !.member = m, !.loan = l])

\* SELECT copies JOIN books: a deleted copy is not found.
BorrowFind(w) ==
  /\ At(w, "borrow", "begun")
  /\ LET c == req[w].copy IN
       IF copy[c].state = "deleted" THEN End(w)
       ELSE req' = [req EXCEPT ![w].at = "found", ![w].book = copy[c].book,
                               ![w].seen = copy[c].state]
  /\ UNCHANGED <<rows, seq, handed, clock>>

\* ... FOR SHARE OF books: waits for a change to the title, then sees its
\* outcome.  A title that is gone drops the row; an archived title or copy refuses.
BorrowLock(w) ==
  /\ At(w, "borrow", "found")
  /\ CanShare(w, req[w].book)
  /\ IF book[req[w].book].state = "catalog" /\ req[w].seen = "catalog"
       THEN Advance(w, "locked")
       ELSE End(w)
  /\ UNCHANGED <<rows, seq, handed, clock>>

\* The member is on record, and no committed loan of the copy is active.
BorrowCheck(w) ==
  /\ At(w, "borrow", "locked")
  /\ IF req[w].member # None /\ ActiveOn(req[w].copy) = {}
       THEN Advance(w, "checked")
       ELSE End(w)
  /\ UNCHANGED <<rows, seq, handed, clock>>

\* INSERT through uq_loans_copy_id_active: waits while another request has the
\* copy's active loan in hand, and is refused once that loan is committed or
\* when the copy is gone.
BorrowInsertWithoutIndex(w) ==
  /\ At(w, "borrow", "checked")
  /\ Advance(w, "written")
  /\ UNCHANGED <<rows, seq, handed, clock>>

BorrowInsert(w) ==
  /\ At(w, "borrow", "checked")
  /\ ~LoanUndecided(w, req[w].copy) /\ ~CopyUndecided(w, req[w].copy)
  /\ IF ActiveOn(req[w].copy) = {} /\ copy[req[w].copy].state # "deleted"
       THEN Advance(w, "written")
       ELSE End(w)
  /\ UNCHANGED <<rows, seq, handed, clock>>

BorrowedLoan(w) ==
  [state |-> "active", copy |-> req[w].copy, member |-> req[w].member,
   borrowedAt |-> req[w].began, returnedAt |-> 0]

BorrowCommit(w) ==
  /\ At(w, "borrow", "written")
  /\ loan' = [loan EXCEPT ![req[w].loan] = BorrowedLoan(w)]
  /\ End(w)
  /\ UNCHANGED <<book, copy, seq, handed, clock>>

-----------------------------------------------------------------------------
\* Return.  The caller names a loan it has seen.

BeginReturn(w, l) ==
  /\ loan[l].state # "absent"
  /\ Begin(w, [Idle EXCEPT !.op = "return", !.at = "begun", !.began = clock, !.loan = l])

\* UPDATE loans SET returned_at = now() WHERE returned_at IS NULL: waits for
\* another return of the loan, then tests the row again.
ReturnUpdateOfAnyLoan(w) ==
  /\ At(w, "return", "begun")
  /\ \A v \in Workers \ {w} : ~PendingReturn(v, req[w].loan)
  /\ Advance(w, "written")
  /\ UNCHANGED <<rows, seq, handed, clock>>

ReturnUpdate(w) ==
  /\ At(w, "return", "begun")
  /\ \A v \in Workers \ {w} : ~PendingReturn(v, req[w].loan)
  /\ IF loan[req[w].loan].state = "active" THEN Advance(w, "written") ELSE End(w)
  /\ UNCHANGED <<rows, seq, handed, clock>>

ReturnCommitAtStartupTime(w) ==
  /\ At(w, "return", "written")
  /\ loan' = [loan EXCEPT ![req[w].loan].state = "returned"]
  /\ End(w)
  /\ UNCHANGED <<book, copy, seq, handed, clock>>

ReturnCommit(w) ==
  /\ At(w, "return", "written")
  /\ loan' = [loan EXCEPT ![req[w].loan].state = "returned",
                          ![req[w].loan].returnedAt = req[w].began]
  /\ End(w)
  /\ UNCHANGED <<book, copy, seq, handed, clock>>

-----------------------------------------------------------------------------
BeginCirculation(w) ==
  \/ \E c \in Codes, m \in Members \cup {None}, l \in Loans : BeginBorrow(w, c, m, l)
  \/ \E l \in Loans : BeginReturn(w, l)

CirculationStep(w) ==
  \/ BorrowFind(w)
  \/ BorrowLock(w)
  \/ BorrowCheck(w)
  \/ BorrowInsert(w)
  \/ BorrowCommit(w)
  \/ ReturnUpdate(w)
  \/ ReturnCommit(w)
=============================================================================
