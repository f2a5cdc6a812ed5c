------------------------------ MODULE Calendar ------------------------------
(***************************************************************************)
(* The calendar and app/services/metrics/periods.py: the days a period and *)
(* the period it is compared with cover, and the time buckets of a period. *)
(* A day is its number (date.toordinal); Date gives its year, month and    *)
(* day.  Definitions that are not used are mutants.                        *)
(***************************************************************************)
EXTENDS Integers, Sequences, FiniteSets

CONSTANTS FirstYear, LastYear  \* bound: the years dates lie in

ASSUME YearsAssumption == FirstYear \in 1..LastYear /\ LastYear \in Nat

Leap(y) == y % 4 = 0 /\ (y % 100 # 0 \/ y % 400 = 0)
MonthDays(y, m) ==
  CASE m = 2 -> IF Leap(y) THEN 29 ELSE 28
    [] m \in {4, 6, 9, 11} -> 30
    [] OTHER -> 31

BeforeMonth == <<0, 31, 59, 90, 120, 151, 181, 212, 243, 273, 304, 334>>
DayOf(y, m, d) ==
  365 * (y - 1) + (y - 1) \div 4 - (y - 1) \div 100 + (y - 1) \div 400
    + BeforeMonth[m] + (IF m > 2 /\ Leap(y) THEN 1 ELSE 0) + d

Day0 == DayOf(FirstYear, 1, 1)
DayN == DayOf(LastYear, 12, 31)
Date == [n \in Day0..DayN |->
  LET y == CHOOSE y \in FirstYear..LastYear : DayOf(y, 1, 1) <= n /\ n <= DayOf(y, 12, 31)
      m == CHOOSE m \in 1..12 : DayOf(y, m, 1) <= n /\ n < DayOf(y, m, 1) + MonthDays(y, m)
  IN [year |-> y, month |-> m, day |-> n - DayOf(y, m, 1) + 1]]

\* date.isoweekday: Monday is 1; the first of January of the year 1 was one.
Weekday(n) == ((n - 1) % 7) + 1

MonthStart(n) == DayOf(Date[n].year, Date[n].month, 1)

\* The same day some months later or earlier, cut to the end of a shorter month.
AddMonthsOverflowing(n, months) ==
  LET index == 12 * Date[n].year + Date[n].month - 1 + months
  IN DayOf(index \div 12, (index % 12) + 1, Date[n].day)

AddMonths(n, months) ==
  LET index == 12 * Date[n].year + Date[n].month - 1 + months
      y == index \div 12
      m == (index % 12) + 1
      last == MonthDays(y, m)
  IN DayOf(y, m, IF Date[n].day < last THEN Date[n].day ELSE last)

QuarterStart(n) == DayOf(Date[n].year, 3 * ((Date[n].month - 1) \div 3) + 1, 1)
YearStart(n) == DayOf(Date[n].year, 1, 1)

-----------------------------------------------------------------------------
\* Periods: calendar presets know their unit in months, the others have none.

Period(start, end, partial, unit) ==
  [start |-> start, end |-> end, partial |-> partial, unit |-> unit]

AllPresets == {"last_30_days", "last_90_days", "this_month", "this_quarter", "this_year",
            "last_month", "last_quarter", "last_year", "last_12_months", "all_time"}

\* all_time starts at the first day with data, if there is one.
ResolvePeriod(preset, today, firstDay) ==
  CASE preset = "last_30_days" -> Period(today - 29, today, FALSE, 0)
    [] preset = "last_90_days" -> Period(today - 89, today, FALSE, 0)
    [] preset = "this_month" -> Period(MonthStart(today), today, TRUE, 1)
    [] preset = "this_quarter" -> Period(QuarterStart(today), today, TRUE, 3)
    [] preset = "this_year" -> Period(YearStart(today), today, TRUE, 12)
    [] preset = "last_month" ->
         Period(AddMonths(MonthStart(today), -1), MonthStart(today) - 1, FALSE, 1)
    [] preset = "last_quarter" ->
         Period(AddMonths(QuarterStart(today), -3), QuarterStart(today) - 1, FALSE, 3)
    [] preset = "last_year" ->
         Period(AddMonths(YearStart(today), -12), YearStart(today) - 1, FALSE, 12)
    [] preset = "last_12_months" ->
         Period(AddMonths(MonthStart(today), -12), MonthStart(today) - 1, FALSE, 12)
    [] preset = "all_time" ->
         Period(IF firstDay < today THEN firstDay ELSE today, today, FALSE, 0)

\* Days the query names itself.
DatesAllowed(from, to, today) == from <= to /\ to <= today
ResolveDates(from, to) == Period(from, to, FALSE, 0)

\* A partial calendar period compares with the same stretch of the unit before,
\* a whole one with the whole unit before, any other with as many days before.
ResolveComparison(period, kind) ==
  CASE kind = "same_period_last_year" ->
         [start |-> AddMonths(period.start, -12), end |-> AddMonths(period.end, -12)]
    [] kind = "previous_period" /\ period.unit # 0 /\ period.partial ->
         [start |-> AddMonths(period.start, -period.unit),
          end |-> AddMonths(period.end, -period.unit)]
    [] kind = "previous_period" /\ period.unit # 0 /\ ~period.partial ->
         [start |-> AddMonths(period.start, -period.unit), end |-> period.start - 1]
    [] OTHER ->
         [start |-> period.start - 1 - (period.end - period.start), end |-> period.start - 1]

-----------------------------------------------------------------------------
\* Buckets, in time order: months as 12 * year + month - 1, years, weekdays.

TimeGroupings == {"month", "year", "weekday"}

BucketOf(grouping, n) ==
  CASE grouping = "month" -> 12 * Date[n].year + Date[n].month - 1
    [] grouping = "year" -> Date[n].year
    [] grouping = "weekday" -> Weekday(n)

BucketsBeforeTheLastDay(grouping, start, end) ==
  IF grouping = "weekday" THEN {Weekday(n) : n \in start..end}
  ELSE BucketOf(grouping, start)..BucketOf(grouping, IF end > start THEN end - 1 ELSE end)

Buckets(grouping, start, end) ==
  IF grouping = "weekday"
  THEN {Weekday(n) : n \in start..(IF end - start < 7 THEN end ELSE start + 6)}
  ELSE BucketOf(grouping, start)..BucketOf(grouping, end)
=============================================================================
