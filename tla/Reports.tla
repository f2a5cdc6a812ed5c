------------------------------ MODULE Reports ------------------------------
(***************************************************************************)
(* The reads of the library, whoever asks and whenever: the pages, the     *)
(* dashboard, the Copilot's lookups and the metrics over one Desk.         *)
(***************************************************************************)
EXTENDS Metrics

CONSTANTS
  Asked,    \* bound: the queries asked; check_query may refuse one
  Horizons, \* bound: how many months the forecasts asked for go
  Histories \* bound: loans in the full months of longer histories than a desk here has
ASSUME AskedAssumption ==
  \A q \in Asked : /\ q.metric \in DOMAIN CATALOGUE
                    /\ q.preset \in AllPresets \cup {None, "dates"}
                    /\ q.compare_to \in {"none", "previous_period", "same_period_last_year"}
ASSUME HorizonsAssumption == Horizons \subseteq 1..MAX_HORIZON_MONTHS /\ Histories \subseteq Seq(Nat)
\* The years leave room for the period before: a preset and the period it is
\* compared with reach back two calendar years, named days as far as they are long.
ASSUME CalendarAssumption ==
  /\ \A n \in 0..MaxLoans : \A moment \in MomentsWith[n] : Day(moment) >= DayOf(FirstYear + 2, 1, 1)
  /\ \A q \in Asked : q.preset = "dates" =>
       /\ q.from \in DayOf(FirstYear + 1, 1, 1)..DayN /\ q.to \in Int
       /\ q.from - 1 - (q.to - q.from) >= Day0

Queries == {q \in Asked : Accepted(q)}
\* The metrics that are forecast, with the filters that a query of them has.
Forecasts ==
  {<<q.metric, q.filters>> : q \in {q \in Queries : /\ q.metric \in {"loans", "returns", "new_members"}
                                                  /\ "book_id" \notin DOMAIN q.filters}}

Spec == DeskInit /\ [][DeskNext]_deskVars

\* A member learns who has a book neither from the pages nor from any lookup
\* the Copilot can make for them, and sees no loan but their own
\* (get_book_detail's show_borrowers, my_loans, faces.face_for).
MembersSeeOnlyTheirOwn ==
  \A user \in MemberUsers :
    /\ \A page \in Pages(user), m \in Members : Named(m) \in page => m = user.member
    /\ \A tool \in FaceFor(user) : \A answer \in Answers(tool, user) :
         \A v \in DataValues(answer.data) \cup answer.text \cup answer.shown :
           v[1] = "member" => v[2] = user.member

\* What the fallback reply and the analyst's tables say can be quoted from the
\* data the model was given, so the number check accepts it (numbers.py,
\* engine.py's fallback; the docstring of analyst.py promises it).  Two things a
\* table shows are not in the data: the filters, which the model chose itself,
\* and the month a forecast's history begins with.
Supported(answer, aside) == ~Unsupported(answer.text \cup (answer.shown \ aside), answer.data)
ForecastSupported(f) == Supported(ForecastTold(f), Scope(f.filters) \cup {FirstMonth(f)})
AnswersCanBeQuoted ==
  /\ \A user \in MemberUsers \cup {User(TRUE, None)} : \A tool \in FaceFor(user) :
       \A answer \in Answers(tool, user) : ~Unsupported(answer.text, answer.data)
  /\ \A q \in Queries : Supported(QueryMetrics(q), Scope(q.filters))
  /\ \A asked \in Forecasts, horizon \in Horizons :
       ForecastSupported(RunForecast(asked[1], asked[2], horizon))
  /\ \A series \in Histories, horizon \in Horizons :
       ForecastSupported(ForecastOf(series, horizon, "loans", NoFilters))

\* A refused forecast gives the trend instead, counted month by month: it is
\* what the metric says of the last twelve months and the twelve before.
IsOf(trend, total) == trend # None => \A field \in DOMAIN trend : trend[field] = total[field]
TrendsAreTheMetrics ==
  \A name \in {"loans", "returns", "new_members"} :
    IsOf(RunForecast(name, NoFilters, 1).trend,
         RunQuery(Query(name, "none", NoFilters, "last_12_months", "previous_period")).total)

\* The dashboard, the lists, the titles' availability, the members' counts and
\* the metrics are counted by statements of their own and tell one story; an
\* overdue loan never shows 0 days (circulation.days_overdue).
Now(name) == RunQuery(Query(name, "none", NoFilters, None, "none")).total.value
Standing(out) ==
  [active_loans |-> out, overdue_loans |-> Cardinality(Dashboard.overdue),
   copies_on_loan_share |-> Ratio(100 * out, Counts.copies)]
ViewsAgree ==
  LET out == Cardinality(ListLoans("active", None, None))
  IN /\ TrendsAreTheMetrics
     /\ Counts.available + Counts.on_loan = Counts.copies
     /\ {Counts.on_loan, SumFunction([m \in MembersNow |-> ActiveLoans(m)])} = {out}
     /\ SumFunction([b \in Catalog |-> CopiesTotal(b) - CopiesAvailable(b)]) = out
     /\ \A name \in DOMAIN Standing(out) : Now(name) = Standing(out)[name]
     /\ {Counts.overdue, Cardinality({l \in LoanIds : DaysOverdue(l) >= 1})} =
          {Cardinality(Dashboard.overdue)}
     /\ Dashboard.overdue \cap Dashboard.due_soon = {}
     /\ \A b \in TitlesNow : FirstAvailableCopy(b) # None <=> Availability(b) = "available"

\* Where counts add up, the rows of a result sum to its total, which is counted
\* apart; and so do the figures of the period compared with, except for months
\* and years of days that roll or are named: 30 days touch one to three months,
\* and months line up by position.
LinesUp(q) ==
  ~ /\ q.group_by \in {"month", "year"} /\ q.compare_to = "previous_period"
    /\ q.preset \in {"last_30_days", "last_90_days", "dates"}
RowsAddUp(result, field) ==
  SumFunction([k \in DOMAIN result.rows |-> result.rows[k][field]]) = result.total[field]
AddsUp(q, result) ==
  /\ RowsAddUp(result, "value")
  /\ q.compare_to # "none" /\ LinesUp(q) => RowsAddUp(result, "previous_value")
FiguresAddUp ==
  \A q \in {q \in Queries : CATALOGUE[q.metric].shares /\ q.group_by # "none"} :
    AddsUp(q, RunQuery(q))
=============================================================================
