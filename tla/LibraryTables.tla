--------------------------- MODULE LibraryTables ---------------------------
(***************************************************************************)
(* The library's tables as PostgreSQL keeps them, and the requests that    *)
(* work on them.  A request has one session and one transaction            *)
(* (app/db/session.py): it begins at its first statement, in the sign-in   *)
(* check, reads committed rows statement by statement (READ COMMITTED),    *)
(* keeps its own writes to itself until it commits, and holds its row      *)
(* locks until it ends.                                                    *)
(*                                                                         *)
(* The variables hold the committed rows only.  What a request has written *)
(* and not committed, and which rows it has locked, follow from how far it *)
(* has come: see ShareLocks, UpdateLocks and the Pending operators.        *)
(* Circulation and Catalog add the statements of their services.           *)
(*                                                                         *)
(* Definitions that are not used (NoShareLocks, AddTakesNoLock, ...) are   *)
(* mutants: each is the definition below it with a plausible mistake, and  *)
(* PROJECT.json names the property that finds the mistake.                 *)
(***************************************************************************)
EXTENDS Integers, Sequences, FiniteSets, FiniteSetsExt

CONSTANTS
  Workers,    \* requests the API serves at once
  Books,      \* ids of titles, used or not yet
  Loans,      \* ids of loans, used or not yet
  Members,    \* members on record, none of them archived
  Isbns,      \* ISBNs a title can have
  None,       \* no ISBN, no id
  MaxCopies,  \* bound: numbers the copy code sequence can hand out
  MaxBatch,   \* bound: copies added by one request
  MaxTime     \* bound: readings of the database clock

ASSUME BoundsAssumption == MaxCopies \in Nat /\ MaxBatch \in Nat /\ MaxTime \in Nat

Codes == 1..MaxCopies

ASSUME NoneAssumption ==
  /\ None \notin Books \cup Loans \cup Isbns \cup Members
  /\ None \notin [copy: Codes, member: Members]

NoCode == 0

VARIABLES
  book,   \* table books: the title's place in the catalog and its ISBN
  copy,   \* table copies: by code, the title and the copy's own state
  loan,   \* table loans
  seq,    \* copy_code_seq: the next number
  handed, \* the numbers handed out so far, in their order; for the properties
  clock,  \* the database clock
  req     \* what each worker is doing

vars == <<book, copy, loan, seq, handed, clock, req>>

\* A row's state: "absent" has not been inserted, "deleted" was.
RowStates == {"absent", "catalog", "archived", "deleted"}
LoanStates == {"absent", "active", "returned"}

BookRow == [state: RowStates, isbn: Isbns \cup {None}]
CopyRow == [state: RowStates, book: Books \cup {None}]
LoanRow == [state: LoanStates, copy: Codes \cup {NoCode}, member: Members \cup {None},
            borrowedAt: Nat, returnedAt: Nat]

Operations == {"none", "borrow", "return", "create", "edit", "delete", "add"}
Stages == {"idle", "begun", "found", "locked", "checked", "decided", "written"}

Request ==
  [op: Operations, at: Stages, began: Nat,
   book: Books \cup {None}, copy: Codes \cup {NoCode}, member: Members \cup {None},
   loan: Loans \cup {None}, isbn: Isbns \cup {None},
   count: Nat,                              \* copies still to be numbered
   codes: SUBSET Codes,                     \* numbers taken from the sequence
   seen: RowStates,                         \* the copy as the first read saw it
   outcome: {"none", "archived", "deleted"}]\* what a delete decided

Idle ==
  [op |-> "none", at |-> "idle", began |-> 0, book |-> None, copy |-> NoCode,
   member |-> None, loan |-> None, isbn |-> None, count |-> 0, codes |-> {},
   seen |-> "absent", outcome |-> "none"]

HandedNumbers == Seq(Codes)

TypeOK ==
  /\ book \in [Books -> BookRow]
  /\ copy \in [Codes -> CopyRow]
  /\ loan \in [Loans -> LoanRow]
  /\ seq \in 1..(MaxCopies + 1)
  /\ handed \in HandedNumbers
  /\ clock \in Nat
  /\ req \in [Workers -> Request]

Init ==
  /\ book = [b \in Books |-> [state |-> "absent", isbn |-> None]]
  /\ copy = [c \in Codes |-> [state |-> "absent", book |-> None]]
  /\ loan = [l \in Loans |-> [state |-> "absent", copy |-> NoCode, member |-> None,
                              borrowedAt |-> 0, returnedAt |-> 0]]
  /\ seq = 1
  /\ handed = <<>>
  /\ clock = 0
  /\ req = [w \in Workers |-> Idle]

rows == <<book, copy, loan>>

-----------------------------------------------------------------------------
\* Requests

At(w, op, stage) == req[w].op = op /\ req[w].at = stage
Running(w) == req[w].op # "none"

\* A free worker takes a request: its transaction begins now, and now() stays
\* this moment until it ends.
Begin(w, fields) ==
  /\ req[w] = Idle
  /\ req' = [req EXCEPT ![w] = fields]
  /\ UNCHANGED <<rows, seq, handed, clock>>

Advance(w, stage) == req' = [req EXCEPT ![w].at = stage]

\* The request ends: after its commit, or without one, which undoes its writes.
\* An application error, a lost connection and a stopped process look the same.
End(w) == req' = [req EXCEPT ![w] = Idle]

Abort(w) ==
  /\ Running(w)
  /\ End(w)
  /\ UNCHANGED <<rows, seq, handed, clock>>

Tick ==
  /\ clock < MaxTime
  /\ clock' = clock + 1
  /\ UNCHANGED <<rows, seq, handed, req>>

-----------------------------------------------------------------------------
\* Row locks on titles, by how far their holder has come

\* SELECT ... FOR SHARE OF books, in a borrow.
NoShareLocks(w, b) == FALSE

ShareLocks(w, b) ==
  /\ req[w].op = "borrow"
  /\ req[w].book = b
  /\ req[w].at \in {"locked", "checked", "written"}

\* SELECT ... FOR UPDATE, in a change to the title.
AddTakesNoLock(w, b) ==
  /\ req[w].op \in {"edit", "delete"}
  /\ req[w].book = b
  /\ req[w].at \in {"locked", "checked", "decided", "written"}

UpgradesItsLock(w, b) ==
  /\ req[w].op \in {"edit", "delete", "add"}
  /\ req[w].book = b
  /\ req[w].at # "idle"

UpdateLocks(w, b) ==
  /\ req[w].op \in {"edit", "delete", "add"}
  /\ req[w].book = b
  /\ req[w].at \in {"locked", "checked", "decided", "written"}

CanShare(w, b) == \A v \in Workers \ {w} : ~UpdateLocks(v, b)
CanUpdate(w, b) == \A v \in Workers \ {w} : ~UpdateLocks(v, b) /\ ~ShareLocks(v, b)

-----------------------------------------------------------------------------
\* Writes not committed yet

PendingBorrow(w, c) == At(w, "borrow", "written") /\ req[w].copy = c
PendingReturn(w, l) == At(w, "return", "written") /\ req[w].loan = l
PendingCreate(w, b) == At(w, "create", "written") /\ req[w].book = b
PendingEdit(w, b) == At(w, "edit", "written") /\ req[w].book = b
PendingRemoval(w, b) == At(w, "delete", "written") /\ req[w].book = b

\* The request has written a catalog row with this ISBN.
PendingIsbn(w, i) ==
  /\ At(w, "create", "written") \/ At(w, "edit", "written")
  /\ req[w].isbn = i

-----------------------------------------------------------------------------
\* Committed facts

ActiveOn(c) == {l \in Loans : loan[l].state = "active" /\ loan[l].copy = c}
CopiesOf(b) == {c \in Codes : copy[c].book = b /\ copy[c].state \in {"catalog", "archived"}}

\* _book_has_loans: the loans, ended or not, of the title's copies.
LoansOf(b) == {l \in Loans : loan[l].state # "absent" /\ loan[l].copy \in CopiesOf(b)}

HasIsbn(b, i) == book[b].state = "catalog" /\ book[b].isbn = i

\* _ensure_isbn_free: no other title in the catalog has the ISBN.
IsbnFreeFor(i, b) == i # None => \A other \in Books \ {b} : ~HasIsbn(other, i)

\* An insert into a unique index waits for a transaction that has written the
\* same key, and for one that is removing the row that holds it.
IsbnUndecided(w, i, b) ==
  /\ i # None
  /\ \E v \in Workers \ {w} :
       \/ PendingIsbn(v, i)
       \/ \E other \in Books \ {b} :
            HasIsbn(other, i) /\ (PendingEdit(v, other) \/ PendingRemoval(v, other))

LoanWaitsForBorrowsOfTheTitle(w, c) ==
  \E v \in Workers \ {w} : ShareLocks(v, copy[c].book) \/ PendingBorrow(v, c)

LoanUndecided(w, c) ==
  \E v \in Workers \ {w} :
    \/ PendingBorrow(v, c)
    \/ \E l \in ActiveOn(c) : PendingReturn(v, l)

\* The foreign key from loans to copies: a new loan waits for a transaction that
\* is deleting its copy, and a deletion for one that is adding a loan.
CopyUndecided(w, c) ==
  \E v \in Workers \ {w} : PendingRemoval(v, copy[c].book) /\ req[v].outcome = "deleted"

Referenced(b) == \E l \in Loans : loan[l].state # "absent" /\ loan[l].copy \in CopiesOf(b)

RemovalUndecided(w, b) == \E v \in Workers \ {w}, c \in CopiesOf(b) : PendingBorrow(v, c)

-----------------------------------------------------------------------------
\* Copy codes: allocate_copy_codes takes the numbers one nextval at a time; the
\* sequence is outside the transaction, so a number is gone even if it aborts.

\* Numbers that requests under way are still going to take.
Spoken == MapThenSumSet(LAMBDA w : req[w].count, Workers)

Nextval(next) ==
  /\ seq <= MaxCopies
  /\ seq' = seq + 1
  /\ handed' = Append(handed, next)

Takes(w, next) ==
  /\ At(w, "create", "written") \/ At(w, "add", "written")
  /\ req[w].count > 0
  /\ Nextval(next)
  /\ req' = [req EXCEPT ![w].codes = @ \cup {next}, ![w].count = @ - 1]
  /\ UNCHANGED <<rows, clock>>

CodeAfterTheLastInUse(w) ==
  Takes(w, 1 + Max({c \in Codes : copy[c].state # "absent"}
                     \cup UNION {req[v].codes : v \in Workers} \cup {0}))

AllocateCode(w) == Takes(w, seq)

\* The committed copies once the request's new ones are among them.
CopiesWith(codes, b) ==
  [c \in Codes |-> IF c \in codes THEN [state |-> "catalog", book |-> b] ELSE copy[c]]
=============================================================================
