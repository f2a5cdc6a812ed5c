------------------------------ MODULE Metrics ------------------------------
(***************************************************************************)
(* app/services/metrics: the catalogue of metrics, what a query counts,    *)
(* and its rows and totals (catalogue.py, queries.py); and what the        *)
(* Copilot's analyst reads and shows of a result (copilot/analyst.py).     *)
(* Rates and averages are in tenths; the order and the limit of the rows   *)
(* are left out.  Definitions that are not used are mutants.               *)
(***************************************************************************)
EXTENDS Lookups, FiniteSetsExt

AllGroupings ==
  {"none", "category", "book", "author", "month", "year", "weekday", "member_joined_year"}
NowGroupings == {"none", "category", "book", "author", "member_joined_year"}
AllFilters == {"categories", "author", "book_id", "member_joined_year"}

Metric(unit, measured, groupings, filters, shares) ==
  [unit |-> unit, measured |-> measured, groupings |-> groupings, filters |-> filters,
   shares |-> shares]
CATALOGUE ==
  [loans |-> Metric("count", "period", AllGroupings, AllFilters, TRUE),
   returns |-> Metric("count", "period", AllGroupings, AllFilters, TRUE),
   active_loans |-> Metric("count", "now", NowGroupings, AllFilters, TRUE),
   overdue_loans |-> Metric("count", "now", NowGroupings, AllFilters, TRUE),
   unique_borrowers |-> Metric("count", "period", AllGroupings, AllFilters, FALSE),
   new_members |-> Metric("count", "period", {"none", "month", "year"}, {}, TRUE),
   late_return_rate |-> Metric("percent", "period", AllGroupings, AllFilters, FALSE),
   average_loan_days |-> Metric("days", "period", AllGroupings, AllFilters, FALSE),
   copies_on_loan_share |->
     Metric("percent", "now", {"none", "category"}, {"categories", "author", "book_id"}, FALSE),
   titles_not_borrowed |->
     Metric("count", "period", {"none", "category", "author", "book"}, {"categories", "author"}, TRUE)]

\* A query: the filters are a function from the names of those that are set.
NoFilters == <<>>
Query(metric, groupBy, filters, preset, compareTo) ==
  [metric |-> metric, group_by |-> groupBy, filters |-> filters, preset |-> preset,
   compare_to |-> compareTo, from |-> None, to |-> None]
WithDates(q, from, to) == [q EXCEPT !.preset = "dates", !.from = from, !.to = to]

\* check_query, describe_filters and resolve_comparison refuse the others.
KnownFilters(filters) ==
  /\ "categories" \in DOMAIN filters =>
       filters["categories"] \subseteq {Category[b] : b \in TitlesNow}
  /\ "author" \in DOMAIN filters => \E b \in TitlesNow : Author[b] = filters["author"]
  /\ "book_id" \in DOMAIN filters => filters["book_id"] \in TitlesNow
Accepted(q) ==
  LET metric == CATALOGUE[q.metric]
  IN /\ q.group_by \in metric.groupings
     /\ DOMAIN q.filters \subseteq metric.filters
     /\ metric.measured = "now" => q.preset = None /\ q.compare_to = "none"
     /\ q.compare_to # "none" => q.preset # "all_time"
     /\ q.preset = "dates" => DatesAllowed(q.from, q.to, Today)
     /\ KnownFilters(q.filters)

-----------------------------------------------------------------------------
\* The rows a metric counts over a span of days, which for "now" is not used.

Within(moment, span) == span.start <= Day(moment) /\ Day(moment) <= span.end
BorrowedWithin(span) == {l \in LoanIds : Within(loans[l].borrowed, span)}
ReturnedWithin(span) ==
  {l \in LoanIds : loans[l].returned # None /\ Within(loans[l].returned, span)}

Source(name, span) ==
  CASE name = "active_loans" -> OutLoans
    [] name = "overdue_loans" -> {l \in LoanIds : IsOverdue(l)}
    [] name = "copies_on_loan_share" -> InCirculation
    [] name = "new_members" -> {m \in MembersNow : span.start <= Joined[m] /\ Joined[m] <= span.end}
    [] name = "titles_not_borrowed" ->
         {b \in Catalog : Added[b] <= span.end
                            /\ \A l \in BorrowedWithin(span) : BookOf[loans[l].copy] # b}
    [] name \in {"loans", "unique_borrowers"} -> BorrowedWithin(span)
    [] name \in {"returns", "late_return_rate", "average_loan_days"} -> ReturnedWithin(span)

BookOfRow(name, row) ==
  CASE name = "copies_on_loan_share" -> BookOf[row]
    [] name = "titles_not_borrowed" -> row
    [] OTHER -> BookOf[loans[row].copy]
EventDay(name, row) ==
  CASE name = "new_members" -> Joined[row]
    [] name \in {"loans", "unique_borrowers"} -> Day(loans[row].borrowed)
    [] OTHER -> Day(loans[row].returned)

GroupKey(grouping, name, row) ==
  CASE grouping = "category" -> Category[BookOfRow(name, row)]
    [] grouping = "author" -> Author[BookOfRow(name, row)]
    [] grouping = "book" -> BookOfRow(name, row)
    [] grouping \in TimeGroupings -> BucketOf(grouping, EventDay(name, row))
    [] grouping = "member_joined_year" -> Date[Joined[loans[row].member]].year

InScope(filters, name, row) ==
  /\ "categories" \in DOMAIN filters => Category[BookOfRow(name, row)] \in filters["categories"]
  /\ "author" \in DOMAIN filters => Author[BookOfRow(name, row)] = filters["author"]
  /\ "book_id" \in DOMAIN filters => BookOfRow(name, row) = filters["book_id"]
  /\ "member_joined_year" \in DOMAIN filters =>
       Date[Joined[loans[row].member]].year \in filters["member_joined_year"]

\* Rounded to tenths, halves away from zero; den > 0.
Tenths(num, den) ==
  IF num >= 0 THEN (20 * num + den) \div (2 * den) ELSE -((den - 20 * num) \div (2 * den))
Ratio(num, den) == IF den = 0 THEN None ELSE Tenths(num, den)

\* The numerator over the denominator.  A moment is half a day after the one before.
Measure(name, rows) ==
  CASE name = "unique_borrowers" -> Cardinality({loans[l].member : l \in rows})
    [] name = "late_return_rate" ->
         Ratio(100 * Cardinality({l \in rows : loans[l].returned > loans[l].due}), Cardinality(rows))
    [] name = "average_loan_days" ->
         Ratio(MapThenSumSet(LAMBDA l : loans[l].returned - loans[l].borrowed, rows),
               2 * Cardinality(rows))
    [] name = "copies_on_loan_share" ->
         Ratio(100 * Cardinality({c \in rows : OnLoan(c)}), Cardinality(rows))
    [] OTHER -> Cardinality(rows)
EmptyValue(name) == Measure(name, {})

-----------------------------------------------------------------------------
\* The groups and the total of a span; the total is measured, never summed.

Rows(q, span) == {row \in Source(q.metric, span) : InScope(q.filters, q.metric, row)}
TotalOf(q, span) == Measure(q.metric, Rows(q, span))

GroupsOfRows(q, span, rows) ==
  LET KeyOf == [row \in rows |-> GroupKey(q.group_by, q.metric, row)]
      keys == IF q.group_by = "none" THEN {}
              ELSE IF q.group_by \in TimeGroupings THEN Buckets(q.group_by, span.start, span.end)
              ELSE {KeyOf[row] : row \in rows}
  IN [k \in keys |-> Measure(q.metric, {row \in rows : KeyOf[row] = k})]
GroupsOf(q, span) == GroupsOfRows(q, span, Rows(q, span))

\* Months and years line up by position, the first with the first.
EarlierGroups(grouping, current, earlier) ==
  IF grouping \notin {"month", "year"} THEN earlier
  ELSE LET first == Min(DOMAIN current)
           shift == Min(DOMAIN earlier) - first
       IN [k \in {k \in DOMAIN current : k + shift \in DOMAIN earlier} |-> earlier[k + shift]]

Share(value, total) == IF value = None \/ total \in {None, 0} THEN None ELSE Tenths(100 * value, total)
Change(value, previous) == IF None \in {value, previous} THEN None ELSE value - previous
ChangePct(unit, value, previous) ==
  IF unit = "percent" \/ value = None \/ previous \in {None, 0} THEN None
  ELSE Tenths(100 * (value - previous), previous)

Item(metric, value, total, previous, previousTotal) ==
  [value |-> value,
   share_pct |-> IF metric.shares THEN Share(value, total) ELSE None,
   previous_value |-> previous,
   previous_share_pct |-> IF metric.shares THEN Share(previous, previousTotal) ELSE None,
   change |-> Change(value, previous),
   change_pct |-> ChangePct(metric.unit, value, previous)]

\* Where all_time starts: the first joining, or the first loan.
FirstDay(name) ==
  IF name = "new_members" THEN Min({Joined[m] : m \in MembersNow} \cup {Today})
  ELSE Min({Day(loans[l].borrowed) : l \in LoanIds} \cup {Today})

PeriodOf(q) ==
  IF CATALOGUE[q.metric].measured = "now" THEN None
  ELSE IF q.preset = "dates" THEN ResolveDates(q.from, q.to)
  ELSE ResolvePeriod(IF q.preset = None THEN "last_12_months" ELSE q.preset, Today, FirstDay(q.metric))
ComparisonOf(q, period) ==
  IF q.compare_to = "none" THEN None ELSE ResolveComparison(period, q.compare_to)

\* A group of either period is a row, with nothing in the other.
Result(q, period, before, groups, total, earlier, previousTotal) ==
  LET metric == CATALOGUE[q.metric]
      empty == EmptyValue(q.metric)
      Value(k) == IF k \in DOMAIN groups THEN groups[k] ELSE empty
      Previous(k) == IF before = None THEN None
                     ELSE IF k \in DOMAIN earlier THEN earlier[k] ELSE empty
  IN [query |-> q, period |-> period, comparison |-> before,
      rows |-> [k \in DOMAIN groups \cup DOMAIN earlier |->
                  Item(metric, Value(k), total, Previous(k), previousTotal)],
      total |-> Item(metric, total, None, previousTotal, None)]

Compared(q, period, before, groups) ==
  IF before = None THEN Result(q, period, None, groups, TotalOf(q, period), <<>>, None)
  ELSE Result(q, period, before, groups, TotalOf(q, period),
              EarlierGroups(q.group_by, groups, GroupsOf(q, before)), TotalOf(q, before))
RunOver(q, period) == Compared(q, period, ComparisonOf(q, period), GroupsOf(q, period))
RunQuery(q) == RunOver(q, PeriodOf(q))

-----------------------------------------------------------------------------
\* What the analyst gives the model, which figures the table has columns for,
\* and what the fallback says.

ComparedFields(result, shares) ==
  IF result.comparison = None THEN {}
  ELSE {"previous_value", "change"} \cup When(shares, {"previous_share_pct"})
       \cup When(CATALOGUE[result.query.metric].unit # "percent", {"change_pct"})

TotalFields(result) == {"value"} \cup ComparedFields(result, FALSE)

RowFieldsOfTheTotal(result) == TotalFields(result)
RowFields(result) ==
  LET shares == CATALOGUE[result.query.metric].shares
  IN {"value"} \cup When(shares, {"share_pct"}) \cup ComparedFields(result, shares)

Figure(unit, field, value) ==
  IF value = None THEN Word("no figure")
  ELSE LET size == IF value < 0 THEN -value ELSE value
       IN IF unit = "count" /\ field \in {"value", "previous_value", "change"}
          THEN Count(size) ELSE <<"decimal", size>>
FiguresOf(result, item, fields) ==
  {Figure(CATALOGUE[result.query.metric].unit, f, item[f]) : f \in fields}
Label(grouping, key) == <<"label", grouping, key>>
Spanned(kind, span) ==
  When(span # None, {Label(kind, span), OnDay(span.start), OnDay(span.end)})

\* A title's key is its id, and its digits vouch for nothing.
ResultData(result) ==
  LET key == IF result.query.group_by = "book" THEN "book_id" ELSE "key"
  IN {<<"period", v>> : v \in Spanned("period", result.period)}
     \cup {<<"comparison", v>> : v \in Spanned("comparison", result.comparison)}
     \cup {<<key, Id(k)>> : k \in DOMAIN result.rows}
     \cup {<<"label", Label(result.query.group_by, k)>> : k \in DOMAIN result.rows}
     \cup {<<"rows", v>> : v \in UNION {FiguresOf(result, result.rows[k], RowFields(result))
                                        : k \in DOMAIN result.rows}}
     \cup {<<"total", v>> : v \in FiguresOf(result, result.total, TotalFields(result))}

Columns(result) ==
  LET metric == CATALOGUE[result.query.metric]
      shares == metric.shares /\ result.query.group_by # "none"
  IN {"value"} \cup When(shares, {"share_pct"})
     \cup When(result.comparison # None,
               {"previous_value", "change"} \cup When(shares, {"previous_share_pct"})
               \cup When(metric.unit # "percent", {"change_pct"}))
\* The words under the title of a table: what is counted, compared with what, and
\* the filters, which are what the model asked for and not part of the result.
PeriodWords(result) ==
  Spanned("period", result.period)
  \cup When(result.comparison # None, {Label("comparison", result.comparison)})
Scope(filters) ==
  When("categories" \in DOMAIN filters, {In(c) : c \in filters["categories"]})
  \cup When("author" \in DOMAIN filters, {<<"author", filters["author"]>>})
  \cup When("book_id" \in DOMAIN filters, {Title(filters["book_id"])})
  \cup When("member_joined_year" \in DOMAIN filters,
            {Year(Min(filters["member_joined_year"])), Year(Max(filters["member_joined_year"]))})

TableDisplay(result) ==
  PeriodWords(result) \cup Scope(result.query.filters)
  \cup {Label(result.query.group_by, k) : k \in DOMAIN result.rows}
  \cup FiguresOf(result, result.total, Columns(result) \ {"share_pct", "previous_share_pct"})
  \cup UNION {FiguresOf(result, result.rows[k], Columns(result)) : k \in DOMAIN result.rows}

RenderQuery(result) ==
  PeriodWords(result) \cup {Label(result.query.group_by, k) : k \in DOMAIN result.rows}
  \cup FiguresOf(result, result.total, TotalFields(result))
  \cup UNION {FiguresOf(result, result.rows[k], RowFields(result)) : k \in DOMAIN result.rows}

Told(result) == Output(ResultData(result), RenderQuery(result), TableDisplay(result))
QueryMetrics(q) == Told(RunQuery(q))
-----------------------------------------------------------------------------
\* A forecast from the counts of the full months, and the trend of a refused one.

Method == INSTANCE Forecast WITH YEAR <- 12, MIN_TESTS <- 6, MIN_MONTHLY_AVERAGE <- 10

FirstEventDay(name, filters) ==
  LET days == IF name = "new_members" THEN {Joined[m] : m \in MembersNow}
              ELSE {EventDay(name, l) : l \in {l \in LoanIds :
                      /\ InScope(filters, name, l)
                      /\ name = "returns" => loans[l].returned # None}}
  IN IF days = {} THEN None ELSE Min(days)

\* Empty unless there was something before this month.
CountsFrom(first, name, filters) ==
  IF first = None \/ first >= MonthStart(Today) THEN <<>>
  ELSE LET start == BucketOf("month", first)
           groups == GroupsOf(Query(name, "month", filters, None, "none"),
                              [start |-> MonthStart(first), end |-> MonthStart(Today) - 1])
       IN [n \in 1..(BucketOf("month", Today) - start) |-> groups[start + n - 1]]
MonthlyCounts(name, filters) == CountsFrom(FirstEventDay(name, filters), name, filters)

\* The first month is full only when the first event is on its first day.
FullOf(counts, first) == IF counts = <<>> \/ Date[first].day = 1 THEN counts ELSE Tail(counts)
FullMonths(name, filters) == FullOf(MonthlyCounts(name, filters), FirstEventDay(name, filters))

Trend(counts) ==
  LET Last(n) == IF Len(counts) < n THEN counts ELSE Method!LastMonths(counts, n)
      value == Method!Total(Last(12))
      previous == Method!Total(Last(24)) - value
  IN [value |-> value, previous_value |-> previous, change |-> value - previous,
      change_pct |-> IF previous = 0 THEN None ELSE Tenths(100 * (value - previous), previous)]

RefusedTrendOfFullMonths(name, filters) == Trend(FullMonths(name, filters))
RefusedTrend(name, filters) == Trend(MonthlyCounts(name, filters))

WithTrend(series, outcome, name, filters) ==
  [filters |-> filters, series |-> series, outcome |-> outcome,
   trend |-> IF outcome.refusal = "none" THEN None ELSE RefusedTrend(name, filters)]
ForecastOf(series, horizon, name, filters) ==
  WithTrend(series, Method!forecast_series(series, horizon), name, filters)
RunForecast(name, filters, horizon) ==
  ForecastOf(FullMonths(name, filters), horizon, name, filters)

-----------------------------------------------------------------------------
\* What forecast_metric gives the model, says and shows.

MAX_HORIZON_MONTHS == 6
IsForecast(f) == f.outcome.refusal = "none"

TypicalErrorPct(f) ==
  LET error == Method!percentile(Method!Sizes(Method!backtest(f.series, Len(f.outcome.points))), 5)
  IN IF IsForecast(f) THEN Tenths(100 * error[1], error[2]) ELSE None

\* A whole number, halves up.
Whole(f) == (2 * f[1] + f[2]) \div (2 * f[2])
MonthAfter(n) == Label("month", BucketOf("month", Today) + n)
HistoryOf(f) ==
  UNION {{MonthAfter(-n), Count(f.series[Len(f.series) + 1 - n])} : n \in {n \in 1..12 : n <= Len(f.series)}}
Ahead(f) ==
  UNION {{MonthAfter(n - 1)} \cup {Count(Whole(f.outcome.points[n][field])) : field \in {"value", "low", "high"}}
         : n \in DOMAIN f.outcome.points}
MeasuredBy(f) == {Count(Len(f.series)), Figure("percent", "value", TypicalErrorPct(f))}
\* A run of months is named by its first and last.
TrendOf(f) ==
  When(f.trend # None,
       {Label("span", <<MonthAfter(n), MonthAfter(n + 11)>>) : n \in {-12, -24}}
       \cup {Figure("count", field, f.trend[field]) : field \in DOMAIN f.trend})

ForecastData(f) ==
  {<<"measured", v>> : v \in MeasuredBy(f)} \cup {<<"history", v>> : v \in HistoryOf(f)}
  \cup {<<"forecast", v>> : v \in Ahead(f)} \cup {<<"trend", v>> : v \in TrendOf(f)}
  \cup {<<"refusal", Word(f.outcome.refusal)>>}

RenderForecast(f) ==
  IF IsForecast(f) THEN MeasuredBy(f) \cup Ahead(f) ELSE {Word(f.outcome.refusal)} \cup TrendOf(f)

\* The history is shown from its first month; the model is given its last twelve.
FirstMonth(f) == MonthAfter(-Len(f.series))
ForecastDisplay(f) ==
  Scope(f.filters)
  \cup IF IsForecast(f)
       THEN MeasuredBy(f) \cup HistoryOf(f) \cup Ahead(f)
              \cup When(1 <= Len(f.series), {FirstMonth(f), MonthAfter(-1)})
       ELSE TrendOf(f)

ForecastTold(f) == Output(ForecastData(f), RenderForecast(f), ForecastDisplay(f))
=============================================================================
