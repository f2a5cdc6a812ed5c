--------------------------- MODULE LibraryService ---------------------------
(***************************************************************************)
(* The API at work: requests of the circulation and catalog services run   *)
(* at the same time, step by step in any order, each in its own            *)
(* transaction, and any of them can stop at any point.                     *)
(***************************************************************************)
EXTENDS Circulation, Catalog

Step(w) == CirculationStep(w) \/ CatalogStep(w)

Next ==
  \/ \E w \in Workers : BeginCirculation(w)
  \/ \E w \in Workers : BeginCatalog(w)
  \/ \E w \in Workers : CirculationStep(w)
  \/ \E w \in Workers : CatalogStep(w)
  \/ \E w \in Workers : Abort(w)
  \/ Tick

Spec == Init /\ [][Next]_vars

\* A request that can go on does (the event loop and the database keep running
\* it), and PostgreSQL queues the requests that wait for a row or a key, so one
\* that could go on again and again gets its turn.
Fairness == \A w \in Workers : SF_vars(Step(w))

FairSpec == Spec /\ Fairness

-----------------------------------------------------------------------------
\* Safety

(* README.md: "the database holds one active loan per copy".  Borrows of   *)
(* one copy share the title's lock, so only the unique index stands        *)
(* between two that both passed the check.                                 *)
OneActiveLoanPerCopy ==
  \A l, k \in Loans :
    (loan[l].state = "active" /\ loan[k].state = "active" /\ loan[l].copy = loan[k].copy) => l = k

(* A title that was archived or deleted has nothing out: a borrow whose    *)
(* check ran before the change cannot commit after it, nor the change      *)
(* overlook a borrow in progress (circulation.py, the module's comment).   *)
RemovedTitlesAreHome ==
  \A l \in Loans : loan[l].state = "active" => copy[loan[l].copy].state = "catalog"

(* No loan, ended or not, ever points to a copy that was deleted, whatever *)
(* requests crossed: "A loan that started in the meantime" (delete_book).  *)
HistoryIsKept ==
  \A l \in Loans : loan[l].state # "absent" => copy[loan[l].copy].state \in {"catalog", "archived"}

(* Copies are archived and deleted with their title and never apart from   *)
(* it, also when copies are being added to it at that moment.              *)
CopiesFollowTheirTitle ==
  \A c \in Codes : copy[c].state # "absent" => copy[c].state = book[copy[c].book].state

(* uq_books_isbn_active: an ISBN is unique among the titles in the catalog,*)
(* and archiving frees it.                                                 *)
IsbnsAreUnique ==
  \A b, d \in Books, i \in Isbns : (HasIsbn(b, i) /\ HasIsbn(d, i)) => b = d

(* copy.py: "a number is never handed out twice": of all the numbers ever  *)
(* handed out, those of requests that were rolled back and of copies that  *)
(* were deleted since included, no two are the same; and every number that *)
(* a request holds or a copy has is one of them.                           *)
CodesAreHandedOutOnce ==
  /\ \A i, j \in DOMAIN handed : handed[i] = handed[j] => i = j
  /\ \A w \in Workers : \A c \in req[w].codes : \E i \in DOMAIN handed : handed[i] = c
  /\ \A c \in Codes : copy[c].state # "absent" => \E i \in DOMAIN handed : handed[i] = c

(* The refusal by the foreign key in delete_book never happens while the   *)
(* services are the only writers: the title's lock is held from before the *)
(* history check to the commit.                                            *)
DeleteMeetsNoLoan ==
  \A w \in Workers :
    (req[w].op = "delete" /\ req[w].at \in {"decided", "written"} /\ req[w].outcome = "deleted")
      => /\ LoansOf(req[w].book) = {}
         /\ ~RemovalUndecided(w, req[w].book)

Blocked(w) ==
  \/ At(w, "borrow", "found") /\ ~CanShare(w, req[w].book)
  \/ At(w, "borrow", "checked") /\ (LoanUndecided(w, req[w].copy) \/ CopyUndecided(w, req[w].copy))
  \/ At(w, "return", "begun") /\ \E v \in Workers \ {w} : PendingReturn(v, req[w].loan)
  \/ /\ req[w].op \in {"edit", "delete", "add"} /\ req[w].at = "begun"
     /\ ~CanUpdate(w, req[w].book)
  \/ /\ req[w].op \in {"create", "edit"} /\ req[w].at = "checked"
     /\ IsbnUndecided(w, req[w].isbn, req[w].book)
  \/ At(w, "delete", "decided") /\ RemovalUndecided(w, req[w].book)

(* The requests never all wait for each other, over row locks and unique   *)
(* keys together.                                                          *)
NoDeadlock == (\E w \in Workers : Running(w)) => \E w \in Workers : Running(w) /\ ~Blocked(w)

(* CHECK returned_at >= borrowed_at never refuses a return: both times are *)
(* the start of a transaction, and a caller knows a loan only once it is   *)
(* committed, so the return's transaction starts later.                    *)
ReturnsFollowBorrows ==
  /\ \A l \in Loans : loan[l].state = "returned" => loan[l].returnedAt >= loan[l].borrowedAt
  /\ \A w \in Workers : req[w].op = "return" => req[w].began >= loan[req[w].loan].borrowedAt

(* tests/integration/test_seed.py counts "two loans of one copy that       *)
(* overlap in time" as broken circulation rules.  The services can store   *)
(* such loans: a borrow that began before a return did, and checked the    *)
(* copy after the return committed, starts before the earlier loan ends.   *)
LoansOfACopyDoNotOverlap ==
  \A l, k \in Loans :
    (l # k /\ loan[l].state = "returned" /\ loan[k].state # "absent" /\ loan[l].copy = loan[k].copy)
      => \/ loan[l].returnedAt <= loan[k].borrowedAt
         \/ loan[k].state = "returned" /\ loan[k].returnedAt <= loan[l].borrowedAt

-----------------------------------------------------------------------------
\* The inductive invariant: what holds while requests are under way, and makes
\* the checks they made still true when they commit.

\* Row locks exclude: a title that is being changed has no borrow under way past
\* its lock, and no second change.
LocksExclude ==
  \A w, v \in Workers, b \in Books :
    UpdateLocks(w, b) => ~ShareLocks(v, b) /\ (UpdateLocks(v, b) => v = w)

\* A request names what it works on.
NamedIds ==
  \A w \in Workers :
    /\ req[w].op = "borrow" => req[w].copy \in Codes /\ req[w].loan \in Loans
    /\ req[w].op = "return" => req[w].loan \in Loans
    /\ req[w].op \in {"create", "edit", "delete", "add"} => req[w].book \in Books

\* Ids of rows to be inserted are the request's own.
FreshIds ==
  \A w \in Workers :
    /\ req[w].op = "borrow" =>
         /\ loan[req[w].loan].state = "absent"
         /\ \A v \in Workers : (req[v].op = "borrow" /\ req[v].loan = req[w].loan) => v = w
    /\ req[w].op = "create" =>
         /\ book[req[w].book].state = "absent"
         /\ \A v \in Workers : (req[v].op = "create" /\ req[v].book = req[w].book) => v = w

\* Rows a caller names are rows it has seen.
NamedRows ==
  \A w \in Workers :
    /\ req[w].op = "borrow" => copy[req[w].copy].state # "absent"
    /\ req[w].op = "return" => loan[req[w].loan].state # "absent"

\* Committed rows refer to committed rows.
References ==
  /\ \A c \in Codes : IF copy[c].state = "absent" THEN copy[c].book = None
                      ELSE copy[c].book \in Books /\ book[copy[c].book].state # "absent"
  /\ \A l \in Loans :
       loan[l].state # "absent" =>
         /\ loan[l].copy \in Codes
         /\ loan[l].member \in Members
         /\ copy[loan[l].copy].state # "absent"

\* The sequence is past every number a copy has, and counts the numbers handed
\* out, in their order; a request's numbers are its own and on no copy yet.
NumbersAreUsedUp == \A c \in Codes : copy[c].state # "absent" => c < seq
HandedInOrder == Len(handed) = seq - 1 /\ \A i \in 1..(seq - 1) : handed[i] = i
CodesHold ==
  /\ \A w, v \in Workers : w # v => req[w].codes \cap req[v].codes = {}
  /\ \A w \in Workers : \A c \in req[w].codes : copy[c].state = "absent" /\ c < seq

\* What a borrow found stays so until it commits: the copy's title cannot leave
\* the catalog under its share lock, nor another borrow pass the index.
BorrowsHold ==
  \A w \in Workers :
    req[w].op = "borrow" =>
      /\ req[w].at \in {"begun", "found", "locked", "checked", "written"}
      /\ req[w].at # "begun" => copy[req[w].copy].book = req[w].book
      /\ req[w].at \in {"locked", "checked", "written"} =>
           req[w].book \in Books /\ book[req[w].book].state = "catalog"
      /\ req[w].at \in {"checked", "written"} => req[w].member \in Members
      /\ req[w].at = "written" =>
           /\ ActiveOn(req[w].copy) = {}
           /\ \A v \in Workers : PendingBorrow(v, req[w].copy) => v = w

ReturnsHold ==
  \A w \in Workers :
    req[w].op = "return" =>
      /\ req[w].at \in {"begun", "written"}
      /\ req[w].at = "written" =>
           /\ loan[req[w].loan].state = "active"
           /\ \A v \in Workers : PendingReturn(v, req[w].loan) => v = w

\* A delete that decided has an outcome.
DeletesDecide ==
  \A w \in Workers :
    (req[w].op = "delete" /\ req[w].at \in {"decided", "written"}) => req[w].outcome # "none"

\* A change holds its title in the catalog, and a delete that checked holds its
\* copies at home and its history as it read it.
ChangesHold ==
  \A w \in Workers :
    /\ UpdateLocks(w, req[w].book) => book[req[w].book].state = "catalog"
    /\ (req[w].op = "delete" /\ req[w].at \in {"checked", "decided", "written"}) =>
         \A c \in CopiesOf(req[w].book) : ActiveOn(c) = {}
    /\ (req[w].op = "delete" /\ req[w].at \in {"decided", "written"}) =>
         req[w].outcome = IF LoansOf(req[w].book) = {} THEN "deleted" ELSE "archived"

\* The ISBN a request has written stays free of other titles until it commits.
IsbnsHold ==
  \A w \in Workers, i \in Isbns :
    PendingIsbn(w, i) =>
      /\ IsbnFreeFor(i, req[w].book)
      /\ \A v \in Workers : PendingIsbn(v, i) => v = w

IInv ==
  /\ TypeOK
  /\ NamedIds
  /\ DeletesDecide
  /\ LocksExclude
  /\ FreshIds
  /\ NamedRows
  /\ References
  /\ BorrowsHold
  /\ ReturnsHold
  /\ ChangesHold
  /\ IsbnsHold
  /\ CopiesFollowTheirTitle
  /\ CodesHold
  /\ NumbersAreUsedUp
  /\ HandedInOrder
  /\ OneActiveLoanPerCopy
  /\ RemovedTitlesAreHome
  /\ HistoryIsKept
  /\ IsbnsAreUnique

-----------------------------------------------------------------------------
\* What a step may never do

(* The history is only added to: a committed loan keeps its copy, member   *)
(* and start, and ends at most once.                                       *)
HistoryOnlyGrows ==
  [][\A l \in Loans :
       loan[l].state # "absent" =>
         /\ loan'[l].copy = loan[l].copy
         /\ loan'[l].member = loan[l].member
         /\ loan'[l].borrowedAt = loan[l].borrowedAt
         /\ loan[l].state = "returned" => loan'[l] = loan[l]
         /\ loan'[l].state # "absent"]_vars

(* A title that left the catalog never comes back and is not edited: an    *)
(* edit or an add that waited for the archive is refused.                  *)
RemovalIsFinal ==
  [][\A b \in Books :
       book[b].state \in {"archived", "deleted"} =>
         book'[b] = book[b] /\ \A c \in Codes : copy'[c].book = b => copy[c].book = b]_vars

-----------------------------------------------------------------------------
\* The services implement the promise: every commit is one step of Library, with
\* the guard of that step true at the commit and not only when it was checked.

StatusOf == [b \in Books |-> IF book[b].state = "absent" THEN "unknown" ELSE book[b].state]
IsbnOf == [b \in Books |-> book[b].isbn]
OwnerOf == [c \in Codes |-> copy[c].book]
LentAs == [l \in Loans |-> IF loan[l].state = "absent" THEN None
                           ELSE [copy |-> loan[l].copy, member |-> loan[l].member]]
Returned == {l \in Loans : loan[l].state = "returned"}

Promised == INSTANCE Library WITH
  status <- StatusOf, isbn <- IsbnOf, owner <- OwnerOf, lent <- LentAs, returned <- Returned

(* Concurrent requests have no effect that one request after another       *)
(* could not have had.                                                     *)
ImplementsLibrary == Promised!Spec

-----------------------------------------------------------------------------
\* Liveness

(* A borrow, a return and a new title end: whatever they wait for, a row   *)
(* lock or another request's uncommitted key, is decided in the end.  A    *)
(* change to a title ends unless borrows of the title overlap without a    *)
(* gap for ever: share locks can pass a waiting update.                    *)
RequestsEnd ==
  \A w \in Workers :
    /\ req[w].op \in {"borrow", "return", "create"} ~> ~Running(w)
    /\ \A b \in Books :
         ([]<>(\A v \in Workers : ~ShareLocks(v, b))) =>
           ((req[w].op \in {"edit", "delete", "add"} /\ req[w].book = b) ~> ~Running(w))
=============================================================================
