----------------------------- MODULE Simulation -----------------------------
(***************************************************************************)
(* app/seed/simulation.py: the loans of a simulated history, borrow by     *)
(* borrow on its opening days.  What a borrow draws at random (who comes,  *)
(* which title, how long it is kept) is any choice the code can make; a    *)
(* return is decided with its borrow, and the code only compares days.     *)
(* Definitions that are not used are mutants.                              *)
(***************************************************************************)
EXTENDS Integers, Sequences, FiniteSets

CONSTANTS
  None,
  Readers, Demo,        \* the members; Demo is one of them
  Titles,
  CopiesOf,             \* how many copies of each title
  Closed,               \* the days the library does not open
  LastDay,              \* the day before today; the history starts on day 1
  ShelvingDays,         \* opening days before members join
  LoanPeriodDays,
  MaxActiveLoans,
  Late,                 \* bound: days a late return is late
  LaterSpans,           \* bound: the days between which later titles arrive, <<first, last>>
  DemoOverdue           \* DEMO_OVERDUE_DAYS

VARIABLES
  day,      \* the day that is simulated
  arrival,  \* of each title; None for one that does not arrive in time
  joined,   \* the day each reader joins
  free,     \* per copy, the first day it is on the shelf again; None when it stays out
  back,     \* per reader and title, the day of the last return; None when it stays out
  out,      \* per reader, the returns of the loans; those in the past do not count
  kept,     \* the days on which the demo member borrowed what she keeps
  made      \* the loans
simVars == <<day, arrival, joined, free, back, out, kept, made>>

Today == LastDay + 1
IsOpen(d) == d \notin Closed
NextOpen(d) == CHOOSE e \in d..(d + Cardinality(Closed)) :
                 IsOpen(e) /\ \A f \in d..(e - 1) : ~IsOpen(f)
PreviousOpen(d) == CHOOSE e \in (d - Cardinality(Closed))..d :
                     IsOpen(e) /\ \A f \in (e + 1)..d : ~IsOpen(f)
OpenDays == {d \in 1..LastDay : IsOpen(d)}
Nth(n) == CHOOSE d \in OpenDays : Cardinality({e \in OpenDays : e <= d}) = n
ShelvingWeek == {Nth(n) : n \in 1..ShelvingDays}
FirstMemberDay == Nth(ShelvingDays + 1)

-----------------------------------------------------------------------------
\* A random opening day from first to last, or None when there is none.
DayBetween(first, last) ==
  {IF NextOpen(d) <= last THEN NextOpen(d)
   ELSE IF PreviousOpen(last) >= first THEN PreviousOpen(last) ELSE None : d \in first..last}
  \cup (IF first > last THEN {None} ELSE {})

\* In the first week, or later for a title bought or published along the way.
Arrivals ==
  ShelvingWeek \cup UNION {DayBetween(IF s[1] < FirstMemberDay THEN FirstMemberDay ELSE s[1],
                                      IF s[2] > LastDay THEN LastDay ELSE s[2]) : s \in LaterSpans}

Copies == UNION {{<<b, n>> : n \in 1..CopiesOf[b]} : b \in Titles}
ShelvedFrom(b) == arrival[b] + 1

Init ==
  /\ day = FirstMemberDay
  /\ arrival \in [Titles -> Arrivals]
  /\ joined \in [Readers -> {d \in OpenDays : d >= FirstMemberDay}]
  /\ joined[Demo] = FirstMemberDay
  /\ free = [c \in Copies |-> IF arrival[c[1]] = None THEN None ELSE arrival[c[1]] + 1]
  /\ back = [r \in Readers |-> <<>>]
  /\ out = [r \in Readers |-> <<>>]
  /\ kept = {} /\ made = {}

-----------------------------------------------------------------------------
LoansOut(r) == {i \in DOMAIN out[r] : out[r][i] = None \/ out[r][i] > day}

WouldPick(r, b, rereading) ==
  b \in DOMAIN back[r] => rereading /\ back[r][b] # None /\ back[r][b] < day

\* The days the demo member borrows what she still has at the end.
DemoDays ==
  {d \in {PreviousOpen(Today - LoanPeriodDays - DemoOverdue), PreviousOpen(Today - 3)} :
     d > joined[Demo]}

\* The first copy of a title that is on the shelf.
OnShelf(b) == {n \in 1..CopiesOf[b] : free[<<b, n>>] # None /\ free[<<b, n>>] <= day}
Chosen(r) ==
  {c \in Copies :
     /\ arrival[c[1]] # None /\ ShelvedFrom(c[1]) <= day
     /\ \E rereading \in BOOLEAN : WouldPick(r, c[1], rereading)
     /\ c[2] \in OnShelf(c[1]) /\ \A n \in OnShelf(c[1]) : c[2] <= n}

Due == day + LoanPeriodDays
\* On time, on the last opening day by then but a later day than this one; or late.
ReturnDays ==
  {IF PreviousOpen(day + n) > day THEN PreviousOpen(day + n) ELSE NextOpen(day + 1)
     : n \in 1..LoanPeriodDays}
  \cup {NextOpen(Due + late) : late \in Late}
\* A return that would fall on or after the end has not happened yet.
Returned(d) == IF d >= Today THEN None ELSE d

FreeAtReturn(d) == IF d = None THEN None ELSE d
FreeAgain(d) == IF d = None THEN None ELSE d + 1

Lends(r, c, d) ==
  /\ free' = [free EXCEPT ![c] = FreeAgain(d)]
  /\ back' = [back EXCEPT ![r] = [b \in DOMAIN @ \cup {c[1]} |-> IF b = c[1] THEN d ELSE @[b]]]
  /\ out' = [out EXCEPT ![r] = Append(@, d)]
  /\ made' = made \cup {[copy |-> c, reader |-> r, borrowed |-> day, due |-> Due, returned |-> d]}
  /\ UNCHANGED <<day, arrival, joined>>

\* One of the books of a visit.
Borrow(r) ==
  /\ day >= joined[r]
  /\ Cardinality(LoansOut(r)) < MaxActiveLoans
  /\ \E c \in Chosen(r), d \in ReturnDays : Lends(r, c, Returned(d))
  /\ UNCHANGED kept

\* The demo member keeps these, whatever she has out.
DemoKeeps ==
  /\ day \in DemoDays \ kept
  /\ kept' = kept \cup {day}
  /\ \E c \in Chosen(Demo) : Lends(Demo, c, None)

DayEnds ==
  /\ \E d \in OpenDays : d > day
  /\ day' = NextOpen(day + 1)
  /\ UNCHANGED <<arrival, joined, free, back, out, kept, made>>

Next == DayEnds \/ DemoKeeps \/ \E r \in Readers : Borrow(r)

\* "A member borrows only a copy that is on the shelf" (simulation.py:9), and
\* the loans the simulator stores keep the library's rules by their days
\* (test_stored_loans_keep_the_circulation_rules): a copy is back before the
\* day it goes out again, nobody has one title twice or more books than the
\* limit and the ones to keep, and nothing is borrowed before its title came
\* or its reader joined, or returned today or later.
Apart(l, k) == l.returned # None /\ l.returned < k.borrowed
StillOut(l) == l.returned = None \/ l.returned > day
LoansKeepTheRules ==
  /\ \A l, k \in made :
       l # k /\ (l.copy = k.copy \/ (l.reader = k.reader /\ l.copy[1] = k.copy[1])) =>
         Apart(l, k) \/ Apart(k, l)
  /\ \A r \in Readers :
       Cardinality({l \in made : l.reader = r /\ StillOut(l)})
         <= MaxActiveLoans + (IF r = Demo THEN Cardinality(kept) ELSE 0)
  /\ \A l \in made :
       /\ arrival[l.copy[1]] < l.borrowed /\ joined[l.reader] <= l.borrowed
       /\ IsOpen(l.borrowed) /\ l.borrowed <= LastDay
       /\ l.returned # None => IsOpen(l.returned) /\ l.returned \in (l.borrowed + 1)..LastDay
=============================================================================
