------------------------------ MODULE Lookups ------------------------------
(***************************************************************************)
(* The reads of services/circulation.py, catalog.py, members.py and        *)
(* dashboard.py, the Copilot's lookups of copilot/tools.py that call them, *)
(* and the number check of copilot/numbers.py.  Lists are sets: they are   *)
(* shorter here than their limits.  What a lookup gives the model is a set *)
(* of <<key, value>> pairs, nested data flattened; what it shows and what  *)
(* its fallback text says are sets of values.  A value is <<kind, ...>>.   *)
(* Definitions that are not used are mutants.                              *)
(***************************************************************************)
EXTENDS Desk

Count(n) == <<"count", n>>
Year(y) == <<"year", y>>
On(moment) == <<"day", Day(moment)>>
OnDay(day) == <<"day", day>>
Code(c) == <<"code", c>>
Title(b) == <<"title", b>>
By(b) == <<"author", Author[b]>>
Named(m) == <<"member", m>>
In(category) == <<"category", category>>
Mark(yes) == <<"mark", yes>>
Word(w) == <<"word", w>>
Id(x) == <<"id", x>>
When(condition, set) == IF condition THEN set ELSE {}

\* Digit runs: a day gives its number and its year (its month is a word), a
\* decimal two runs, a mark none.  Words keep whatever digits they have.
DigitRuns(v) ==
  CASE v[1] \in {"count", "year"} -> {v[2]}
    [] v[1] = "decimal" -> {v[2] \div 10, v[2] % 10}
    [] v[1] = "day" -> {Date[v[2]].day, Date[v[2]].year}
    [] v[1] = "code" -> {v[2]}
    [] v[1] = "mark" -> {}
    [] OTHER -> {}
Texts(values) == {v \in values : v[1] \in {"title", "author", "member", "category", "label"}}
RunsOf(values) == UNION {DigitRuns(v) : v \in values}

IdKeys == {"id", "book_id", "member_id"}
DataValues(data) == {kv[2] : kv \in {kv \in data : kv[1] \notin IdKeys}}

\* The reply says something that is not in the data: a number, or a name.
Unsupported(values, data) ==
  LET known == DataValues(data)
      unknown == values \ known
  IN unknown # {} /\ \/ ~(RunsOf(unknown) \subseteq RunsOf(known))
                     \/ Texts(unknown) # {}

-----------------------------------------------------------------------------
\* Loans.

IsOverdue(l) == loans[l].returned = None /\ loans[l].due < now

DaysByTheCalendar(l) == IF IsOverdue(l) THEN Today - Day(loans[l].due) ELSE 0

DaysOverdue(l) ==
  IF ~IsOverdue(l) THEN 0
  ELSE IF Today - Day(loans[l].due) > 1 THEN Today - Day(loans[l].due) ELSE 1

IsDueSoon(l, days) ==
  /\ loans[l].returned = None
  /\ loans[l].due >= now
  /\ Day(loans[l].due) <= Today + days

OfStatus(l, status) ==
  CASE status = "active" -> loans[l].returned = None
    [] status = "overdue" -> IsOverdue(l)
    [] status = "returned" -> loans[l].returned # None
    [] status = "all" -> TRUE

ListLoans(status, member, book) ==
  {l \in LoanIds : /\ OfStatus(l, status)
                   /\ member \in {None, loans[l].member}
                   /\ book \in {None, BookOf[loans[l].copy]}}

\* LoanOut says who has the copy.
LoanOut(l) ==
  {Code(loans[l].copy), Title(BookOf[loans[l].copy]), By(BookOf[loans[l].copy]),
   Named(loans[l].member), On(loans[l].borrowed), On(loans[l].due), Count(DaysOverdue(l))}
LoanPage(ids) == UNION {LoanOut(l) : l \in ids}

\* Books.

CopiesTotal(b) == Cardinality({c \in InCirculation : BookOf[c] = b})
AvailableCopies(b) == {c \in InCirculation : BookOf[c] = b /\ ~OnLoan(c)}
CopiesAvailable(b) == Cardinality(AvailableCopies(b))
Availability(b) ==
  IF CopiesTotal(b) = 0 THEN "no_copies"
  ELSE IF CopiesAvailable(b) > 0 THEN "available" ELSE "all_borrowed"

FirstAvailableCopy(b) ==
  IF b \notin Catalog \/ AvailableCopies(b) = {} THEN None
  ELSE CHOOSE c \in AvailableCopies(b) : \A d \in AvailableCopies(b) : c <= d

ListBooks(category, availableOnly) ==
  {b \in Catalog : /\ category \in {None, Category[b]}
                   /\ availableOnly => AvailableCopies(b) # {}}

Categories == {Category[b] : b \in Catalog} \ {None}

\* What a copy's row of a title's page says; members see when, never who.
CopyOutWithItsLoan(c, showBorrower) ==
  {Code(c)} \cup UNION {{On(loans[l].due), On(loans[l].borrowed), Named(loans[l].member)} : l \in LoansOn(c)}

CopyOut(c, showBorrower) ==
  {Code(c)} \cup UNION {{On(loans[l].due)}
    \cup When(showBorrower, {On(loans[l].borrowed), Named(loans[l].member)}) : l \in LoansOn(c)}

BookSummary(b) ==
  {Title(b), By(b), Count(CopiesTotal(b)), Count(CopiesAvailable(b))}
BookDetail(b, showBorrowers) ==
  BookSummary(b) \cup UNION {CopyOut(c, showBorrowers) : c \in {c \in InCirculation : BookOf[c] = b}}

\* Members and the dashboard.

ActiveLoans(m) == Cardinality({l \in OutLoans : loans[l].member = m})
LoansTotal(m) == Cardinality({l \in LoanIds : loans[l].member = m})
MemberOut(m) == {Named(m), OnDay(Joined[m]), Count(ActiveLoans(m))}

DUE_SOON_DAYS == 3
ACTIVE_MEMBER_DAYS == 90
Counts ==
  [titles |-> Cardinality(Catalog),
   copies |-> Cardinality(InCirculation),
   available |-> Cardinality({c \in InCirculation : ~OnLoan(c)}),
   on_loan |-> Cardinality({c \in InCirculation : OnLoan(c)}),
   overdue |-> Cardinality({l \in LoanIds : IsOverdue(l)}),
   members |-> Cardinality(MembersNow),
   active_members_90d |-> Cardinality({loans[l].member : l \in
     {l \in LoanIds : loans[l].borrowed >= now - 2 * ACTIVE_MEMBER_DAYS}})]
Dashboard ==
  [counts |-> Counts, overdue |-> {l \in LoanIds : IsOverdue(l)},
   due_soon |-> {l \in LoanIds : IsDueSoon(l, DUE_SOON_DAYS)}]

-----------------------------------------------------------------------------
\* The lookups: what the model reads, what the panel shows, what the fallback says.

Output(data, text, shown) == [data |-> data, text |-> text, shown |-> shown]
Statuses == {"active", "returned"}

BookBrief(b) ==
  {<<"id", Id(b)>>, <<"title", Title(b)>>, <<"author", By(b)>>, <<"category", In(Category[b])>>,
   <<"copies_total", Count(CopiesTotal(b))>>, <<"copies_available", Count(CopiesAvailable(b))>>}
CopiesText(b) == When(CopiesTotal(b) > 0, {Count(CopiesAvailable(b)), Count(CopiesTotal(b))})
BookLine(b) == {Title(b), By(b)} \cup CopiesText(b)

SearchCatalog(category, availableOnly) ==
  LET found == ListBooks(category, availableOnly)
  IN Output({<<"matches", Count(Cardinality(found))>>} \cup UNION {BookBrief(b) : b \in found},
            UNION {BookLine(b) : b \in found}, UNION {BookSummary(b) : b \in found})

ListCategories ==
  Output({<<"categories", In(g)>> : g \in Categories}, {In(g) : g \in Categories},
         {In(g) : g \in Categories})

\* "borrower" is in the data only when the title's page shows its borrowers.
CopyData(c, staff) ==
  {<<"code", Code(c)>>, <<"status", Word(IF OnLoan(c) THEN "borrowed" ELSE "available")>>}
  \cup UNION {{<<"due_back", On(loans[l].due)>>}
         \cup When(staff, {<<"borrower", Named(loans[l].member)>>, <<"overdue", Mark(IsOverdue(l))>>})
              : l \in LoansOn(c)}
CopyLine(c, staff) ==
  UNION {{Code(c), On(loans[l].due)} \cup When(staff, {Named(loans[l].member)}) : l \in LoansOn(c)}
GetBook(b, staff) ==
  LET copies == {c \in InCirculation : BookOf[c] = b}
  IN Output(BookBrief(b) \cup UNION {CopyData(c, staff) : c \in copies},
            BookLine(b) \cup UNION {CopyLine(c, staff) : c \in copies}, BookDetail(b, staff))

LoanData(l) ==
  {<<"book_id", Id(BookOf[loans[l].copy])>>, <<"title", Title(BookOf[loans[l].copy])>>,
   <<"author", By(BookOf[loans[l].copy])>>, <<"copy_code", Code(loans[l].copy)>>,
   <<"borrowed_on", On(loans[l].borrowed)>>, <<"due_on", On(loans[l].due)>>,
   <<"overdue", Mark(IsOverdue(l))>>}
  \cup When(IsOverdue(l), {<<"days_overdue", Count(DaysOverdue(l))>>})
  \cup When(loans[l].returned # None, {<<"returned_on", On(loans[l].returned)>>})
StaffLoanData(l) ==
  LoanData(l) \cup {<<"member", Named(loans[l].member)>>, <<"member_id", Id(loans[l].member)>>}

Heading(status, found) ==
  {<<"today", OnDay(Today)>>, <<"status", Word(status)>>, <<"total", Count(Cardinality(found))>>}
LoanEnd(l) == IF loans[l].returned # None THEN On(loans[l].returned) ELSE On(loans[l].due)
LoanLine(l, status) ==
  {Title(BookOf[loans[l].copy])} \cup (IF status = "returned" THEN {On(loans[l].returned)}
                                      ELSE {Code(loans[l].copy), On(loans[l].due)})
StaffLoanLine(l, withTitle, withMember) ==
  {Code(loans[l].copy), LoanEnd(l)} \cup When(withTitle, {Title(BookOf[loans[l].copy])})
  \cup When(withMember, {Named(loans[l].member)})

\* Always the member who asks.
GetMyLoansOf(member, status) ==
  LET found == ListLoans(status, None, None)
  IN Output(Heading(status, found) \cup UNION {LoanData(l) : l \in found},
            UNION {LoanLine(l, status) : l \in found}, LoanPage(found))

GetMyLoans(member, status) ==
  LET found == ListLoans(status, member, None)
  IN Output(Heading(status, found) \cup UNION {LoanData(l) : l \in found},
            UNION {LoanLine(l, status) : l \in found}, LoanPage(found))

SearchMembers ==
  Output({<<"matches", Count(Cardinality(MembersNow))>>}
         \cup UNION {{<<"id", Id(m)>>, <<"full_name", Named(m)>>,
                      <<"active_loans", Count(ActiveLoans(m))>>} : m \in MembersNow},
         UNION {{Named(m), Count(ActiveLoans(m))} : m \in MembersNow},
         UNION {MemberOut(m) : m \in MembersNow})

GetMemberLoans(m, status) ==
  LET found == ListLoans(status, m, None)
  IN Output(Heading(status, found) \cup {<<"member", Named(m)>>} \cup UNION {StaffLoanData(l) : l \in found},
            {Named(m)} \cup UNION {StaffLoanLine(l, TRUE, FALSE) : l \in found}, LoanPage(found))

GetBookLoans(b, status) ==
  LET found == ListLoans(status, None, b)
  IN Output(Heading(status, found) \cup {<<"title", Title(b)>>} \cup UNION {StaffLoanData(l) : l \in found},
            {Title(b)} \cup UNION {StaffLoanLine(l, FALSE, TRUE) : l \in found}, LoanPage(found))

GetOverdueLoans ==
  LET found == ListLoans("overdue", None, None)
  IN Output(Heading("overdue", found) \cup UNION {StaffLoanData(l) : l \in found},
            UNION {StaffLoanLine(l, TRUE, TRUE) : l \in found}, LoanPage(found))

\* A copy out of the catalog is found too, and marked.
FindCopyByCode(c) ==
  [book |-> BookOf[c], status |-> IF OnLoan(c) THEN "borrowed" ELSE "available",
   archived |-> BookOf[c] \notin Catalog, active_loan |-> LoansOn(c)]
LookupCopy(c) ==
  LET copy == FindCopyByCode(c)
      b == copy.book
  IN Output({<<"code", Code(c)>>, <<"title", Title(b)>>, <<"author", By(b)>>, <<"book_id", Id(b)>>,
             <<"status", Word(copy.status)>>, <<"archived", Mark(copy.archived)>>}
            \cup UNION {{<<"borrower", Named(loans[l].member)>>, <<"member_id", Id(loans[l].member)>>,
                         <<"due_on", On(loans[l].due)>>, <<"overdue", Mark(IsOverdue(l))>>}
                        \cup When(IsOverdue(l), {<<"days_overdue", Count(DaysOverdue(l))>>})
                        : l \in copy.active_loan},
            {Code(c), Title(b), By(b)}
            \cup UNION {{Named(loans[l].member), On(loans[l].due)} : l \in copy.active_loan},
            {Code(c), Title(b)} \cup LoanPage(copy.active_loan))

-----------------------------------------------------------------------------
\* Who may look up what: staff or a member, and the member the account is of.

User(staff, member) == [staff |-> staff, member |-> member]
MemberUsers == {User(FALSE, m) : m \in MembersNow}

MemberFace == {"search_catalog", "list_categories", "get_book", "get_my_loans"}
StaffFace == {"search_catalog", "list_categories", "get_book", "search_members", "get_member_loans",
              "get_book_loans", "get_overdue_loans", "lookup_copy"}
FaceFor(user) == IF user.staff THEN StaffFace ELSE MemberFace

\* Every answer of a lookup, whatever parameters the model gives it.
Answers(tool, user) ==
  CASE tool = "search_catalog" -> {SearchCatalog(g, a) : g \in Categories \cup {None}, a \in BOOLEAN}
    [] tool = "list_categories" -> {ListCategories}
    [] tool = "get_book" -> {GetBook(b, user.staff) : b \in TitlesNow}
    [] tool = "get_my_loans" -> {GetMyLoans(user.member, s) : s \in Statuses}
    [] tool = "search_members" -> {SearchMembers}
    [] tool = "get_member_loans" -> {GetMemberLoans(m, s) : m \in MembersNow, s \in Statuses}
    [] tool = "get_book_loans" -> {GetBookLoans(b, s) : b \in TitlesNow, s \in Statuses}
    [] tool = "get_overdue_loans" -> {GetOverdueLoans}
    [] tool = "lookup_copy" -> {LookupCopy(c) : c \in CopiesNow}

\* The pages of the web app: a route of the staff refuses a member.
Pages(user) ==
  {BookSummary(b) : b \in Catalog} \cup {BookDetail(b, user.staff) : b \in TitlesNow}
  \cup When(user.member # None, {LoanPage(ListLoans(s, user.member, None)) : s \in Statuses})
  \cup When(user.staff, {LoanPage(LoanIds)} \cup {MemberOut(m) : m \in MembersNow})
=============================================================================
