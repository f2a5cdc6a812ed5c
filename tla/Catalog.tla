------------------------------ MODULE Catalog ------------------------------
(***************************************************************************)
(* app/services/catalog.py: adding, editing and removing a title and       *)
(* adding copies, statement by statement.  Every change to a title that is *)
(* in the catalog first locks its row FOR UPDATE (_get_book_for_change).   *)
(* Of a title's fields only the ISBN has a rule between titles; the others *)
(* are left out, so an edit that keeps the ISBN writes nothing here.       *)
(***************************************************************************)
EXTENDS LibraryTables

\* A bound: the numbers that requests under way still need are kept for them, so
\* that the bounded sequence never runs out under one.
NumbersLeft(n) == seq + Spoken + n <= MaxCopies + 1

-----------------------------------------------------------------------------
\* Create a title together with its first copies.  Its id is a fresh one (uuid4).

FreshBook(b) ==
  book[b].state = "absent" /\ \A v \in Workers : ~(req[v].op = "create" /\ req[v].book = b)

BeginCreate(w, b, i, n) ==
  /\ FreshBook(b)
  /\ NumbersLeft(n)
  /\ Begin(w, [Idle EXCEPT !.op = "create", !.at = "begun", !.began = clock,
                           !.book = b, !.isbn = i, !.count = n])

\* The checks that come before the write; no ISBN skips the first.
CreateCheck(w) ==
  /\ At(w, "create", "begun")
  /\ IF IsbnFreeFor(req[w].isbn, req[w].book) THEN Advance(w, "checked") ELSE End(w)
  /\ UNCHANGED <<rows, seq, handed, clock>>

\* INSERT or UPDATE through uq_books_isbn_active.
WriteIsbnWithoutIndex(w) ==
  /\ Advance(w, "written")
  /\ UNCHANGED <<rows, seq, handed, clock>>

WriteIsbn(w) ==
  /\ ~IsbnUndecided(w, req[w].isbn, req[w].book)
  /\ IF IsbnFreeFor(req[w].isbn, req[w].book) THEN Advance(w, "written") ELSE End(w)
  /\ UNCHANGED <<rows, seq, handed, clock>>

CreateInsert(w) == At(w, "create", "checked") /\ WriteIsbn(w)

CreateCommit(w) ==
  /\ At(w, "create", "written")
  /\ req[w].count = 0
  /\ book' = [book EXCEPT ![req[w].book] = [state |-> "catalog", isbn |-> req[w].isbn]]
  /\ copy' = CopiesWith(req[w].codes, req[w].book)
  /\ End(w)
  /\ UNCHANGED <<loan, seq, handed, clock>>

-----------------------------------------------------------------------------
\* Changes to a title: the lock comes first, and a title that is not there, or
\* is archived, is refused; deleting an archived one again changes nothing.

BeginChange(w, op, b, i, n) ==
  Begin(w, [Idle EXCEPT !.op = op, !.at = "begun", !.began = clock,
                        !.book = b, !.isbn = i, !.count = n])

Lock(w, op, stage, proceeds) ==
  /\ At(w, op, "begun")
  /\ CanUpdate(w, req[w].book)
  /\ IF book[req[w].book].state = "catalog" /\ proceeds THEN Advance(w, stage) ELSE End(w)
  /\ UNCHANGED <<rows, seq, handed, clock>>

\* An edit that changes nothing ends at once.
EditLockOfAnyTitle(w) ==
  /\ At(w, "edit", "begun")
  /\ CanUpdate(w, req[w].book)
  /\ IF /\ book[req[w].book].state \in {"catalog", "archived"}
        /\ book[req[w].book].isbn # req[w].isbn
       THEN Advance(w, "locked")
       ELSE End(w)
  /\ UNCHANGED <<rows, seq, handed, clock>>

EditLock(w) == Lock(w, "edit", "locked", book[req[w].book].isbn # req[w].isbn)

EditCheck(w) ==
  /\ At(w, "edit", "locked")
  /\ IF IsbnFreeFor(req[w].isbn, req[w].book) THEN Advance(w, "checked") ELSE End(w)
  /\ UNCHANGED <<rows, seq, handed, clock>>

EditFlush(w) == At(w, "edit", "checked") /\ WriteIsbn(w)

EditCommit(w) ==
  /\ At(w, "edit", "written")
  /\ book' = [book EXCEPT ![req[w].book].isbn = req[w].isbn]
  /\ End(w)
  /\ UNCHANGED <<copy, loan, seq, handed, clock>>

-----------------------------------------------------------------------------
\* Delete: statements after the lock, each reading what is committed then.

DeleteLock(w) == Lock(w, "delete", "locked", TRUE)

DeleteSkipsCheck(w) ==
  /\ At(w, "delete", "locked")
  /\ Advance(w, "checked")
  /\ UNCHANGED <<rows, seq, handed, clock>>

DeleteCheckOnLoan(w) ==
  /\ At(w, "delete", "locked")
  /\ IF \E c \in CopiesOf(req[w].book) : ActiveOn(c) # {} THEN End(w) ELSE Advance(w, "checked")
  /\ UNCHANGED <<rows, seq, handed, clock>>

\* With loan history the title and its copies are archived; without, the title
\* is deleted and its copies with it.
DeleteDecidesNothing(w) ==
  /\ At(w, "delete", "checked")
  /\ Advance(w, "decided")
  /\ UNCHANGED <<rows, seq, handed, clock>>

DeleteDecide(w) ==
  /\ At(w, "delete", "checked")
  /\ req' = [req EXCEPT ![w].at = "decided",
                        ![w].outcome = IF LoansOf(req[w].book) = {} THEN "deleted" ELSE "archived"]
  /\ UNCHANGED <<rows, seq, handed, clock>>

\* The flush: deleting the copies goes through the foreign key of the loans,
\* which refuses a copy with a loan (fk_loans_copy_id_copies).
DeleteFlush(w) ==
  /\ At(w, "delete", "decided")
  /\ ~RemovalUndecided(w, req[w].book)
  /\ IF req[w].outcome # "deleted" \/ ~Referenced(req[w].book)
       THEN Advance(w, "written")
       ELSE End(w)
  /\ UNCHANGED <<rows, seq, handed, clock>>

DeleteCommit(w) ==
  /\ At(w, "delete", "written")
  /\ LET b == req[w].book IN
       /\ book' = [book EXCEPT ![b].state = req[w].outcome]
       /\ copy' = [c \in Codes |-> IF c \in CopiesOf(b) THEN [copy[c] EXCEPT !.state = req[w].outcome]
                                   ELSE copy[c]]
  /\ End(w)
  /\ UNCHANGED <<loan, seq, handed, clock>>

-----------------------------------------------------------------------------
\* Add copies.

AddLock(w) == Lock(w, "add", "written", TRUE)

AddCommit(w) ==
  /\ At(w, "add", "written")
  /\ req[w].count = 0
  /\ copy' = CopiesWith(req[w].codes, req[w].book)
  /\ End(w)
  /\ UNCHANGED <<book, loan, seq, handed, clock>>

-----------------------------------------------------------------------------
BeginCatalog(w) ==
  \/ \E b \in Books, i \in Isbns \cup {None}, n \in 1..MaxBatch : BeginCreate(w, b, i, n)
  \/ \E b \in Books, i \in Isbns \cup {None} : BeginChange(w, "edit", b, i, 0)
  \/ \E b \in Books : BeginChange(w, "delete", b, None, 0)
  \/ \E b \in Books, n \in 1..MaxBatch : NumbersLeft(n) /\ BeginChange(w, "add", b, None, n)

CatalogStep(w) ==
  \/ CreateCheck(w)
  \/ CreateInsert(w)
  \/ CreateCommit(w)
  \/ EditLock(w)
  \/ EditCheck(w)
  \/ EditFlush(w)
  \/ EditCommit(w)
  \/ DeleteLock(w)
  \/ DeleteCheckOnLoan(w)
  \/ DeleteDecide(w)
  \/ DeleteFlush(w)
  \/ DeleteCommit(w)
  \/ AddLock(w)
  \/ AddCommit(w)
  \/ AllocateCode(w)
=============================================================================
