-------------------------------- MODULE Desk --------------------------------
(***************************************************************************)
(* The library the reads look at: its titles, members and loans with their *)
(* dates, changed by whole requests one after another (LibraryService has  *)
(* the same requests statement by statement).  A moment is 2 * day or, for *)
(* the last half second of a day, 2 * day + 1: a loan is due at 23:59:59   *)
(* of its due date, which is after the one and before the other.           *)
(***************************************************************************)
EXTENDS Calendar, TLC

CONSTANTS
  Books, Members,
  Copies,          \* the numbers of their codes
  None,
  BookOf,          \* the title of each copy
  Category,        \* of each title; None when it has none
  Author,
  Added, Joined,   \* the day a title came and a member joined
  LoanPeriodDays,
  DueDays,         \* bound: the due dates borrows ask for, in days; None asks for none
  MaxLoans,        \* bound
  MomentsWith      \* bound: the moments at which something happens, by the number of loans

ASSUME DeskAssumption ==
  /\ IsFiniteSet(Books) /\ IsFiniteSet(Members) /\ IsFiniteSet(Copies)
  /\ None \notin Books \cup Members \cup Int \cup [start : Int, end : Int]
  /\ DueDays \subseteq Int \cup {None}
  /\ Copies \subseteq Nat /\ BookOf \in [Copies -> Books]
  /\ MomentsWith \in [0..MaxLoans -> SUBSET ((2 * Day0)..(2 * DayN + 1))]
  /\ Added \in [Books -> Day0..DayN] /\ Joined \in [Members -> Day0..DayN]
  /\ MaxLoans \in Nat /\ LoanPeriodDays \in Nat \ {0}

VARIABLES
  now,    \* the database clock
  loans,  \* in the order they were made
  shelf   \* what became of each title, and with it of its copies
deskVars == <<now, loans, shelf>>

MAX_DAYS_UNTIL_DUE == 90

Day(moment) == moment \div 2
Today == Day(now)
DueAt(day) == 2 * day

LoanIds == DOMAIN loans
OutLoans == {l \in LoanIds : loans[l].returned = None}
LoansOn(c) == {l \in OutLoans : loans[l].copy = c}
OnLoan(c) == LoansOn(c) # {}

TitlesNow == {b \in Books : Added[b] <= Today /\ shelf[b] # "deleted"}
Catalog == {b \in TitlesNow : shelf[b] = "active"}
CopiesNow == {c \in Copies : BookOf[c] \in TitlesNow}
InCirculation == {c \in Copies : BookOf[c] \in Catalog}
MembersNow == {m \in Members : Joined[m] <= Today}

-----------------------------------------------------------------------------
DueAllowed(days) == days # None => days > 0 /\ days <= MAX_DAYS_UNTIL_DUE

Borrow(c, m, days) ==
  /\ Len(loans) < MaxLoans /\ now \in MomentsWith[Len(loans) + 1]
  /\ DueAllowed(days)
  /\ c \in InCirculation /\ m \in MembersNow /\ ~OnLoan(c)
  /\ loans' = Append(loans, [copy |-> c, member |-> m, borrowed |-> now, returned |-> None,
                             due |-> DueAt(Today + IF days = None THEN LoanPeriodDays ELSE days)])
  /\ UNCHANGED <<now, shelf>>

Return(l) ==
  /\ loans[l].returned = None
  /\ loans' = [loans EXCEPT ![l].returned = now]
  /\ UNCHANGED <<now, shelf>>

\* Deleted when it never had a loan, archived otherwise.
HadLoans(b) == \E l \in LoanIds : BookOf[loans[l].copy] = b
Remove(b) ==
  /\ b \in Catalog
  /\ \A c \in Copies : BookOf[c] = b => ~OnLoan(c)
  /\ shelf' = [shelf EXCEPT ![b] = IF HadLoans(b) THEN "archived" ELSE "deleted"]
  /\ UNCHANGED <<now, loans>>

TimePasses ==
  /\ now' \in {m \in MomentsWith[Len(loans)] : m > now}
  /\ UNCHANGED <<loans, shelf>>

DeskInit == now \in MomentsWith[0] /\ loans = <<>> /\ shelf = [b \in Books |-> "active"]

DeskNext ==
  \/ \E c \in Copies, m \in Members, days \in DueDays : Borrow(c, m, days)
  \/ \E l \in LoanIds : Return(l)
  \/ \E b \in Books : Remove(b)
  \/ TimePasses
=============================================================================
