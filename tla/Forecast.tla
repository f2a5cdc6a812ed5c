------------------------------ MODULE Forecast ------------------------------
(***************************************************************************)
(* app/services/metrics/forecast.py on a series of monthly counts, oldest  *)
(* first: the same month a year earlier times the trend, moved and widened *)
(* by the misses of the same method in past months.  A number is a         *)
(* fraction <<n, d>>, with <<1, 0>> for a miss without limit.  Definitions *)
(* that are not used are mutants.                                          *)
(***************************************************************************)
EXTENDS Integers, Sequences, SequencesExt

CONSTANTS YEAR, MIN_TESTS, MIN_MONTHLY_AVERAGE

MIN_MONTHS == 2 * YEAR
MAX_TYPICAL_ERROR == <<35, 100>>
Limitless == <<1, 0>>

Below(a, b) == a[1] * b[2] < b[1] * a[2]
Times(a, b) == <<a[1] * b[1], a[2] * b[2]>>
OneMore(a) == <<a[1] + a[2], a[2]>>
Abs(a) == IF a[1] < 0 THEN <<-a[1], a[2]>> ELSE a
\* The point the given number of tenths of the way from a to b.
Between(a, b, tenths) ==
  IF a = b \/ b = Limitless THEN b
  ELSE <<a[1] * b[2] * (10 - tenths) + b[1] * a[2] * tenths, 10 * a[2] * b[2]>>

Total(values) == SumFunction(values)
LastMonths(values, n) == SubSeq(values, Len(values) - n + 1, Len(values))

\* One year over the year before, within a half and two.
Factor(recent, earlier) ==
  IF earlier = 0 THEN (IF recent > 0 THEN <<2, 1>> ELSE <<1, 1>>)
  ELSE IF 2 * recent < earlier THEN <<1, 2>>
  ELSE IF recent > 2 * earlier THEN <<2, 1>> ELSE <<recent, earlier>>

TrendOfAllBefore(values) ==
  Factor(Total(LastMonths(values, YEAR)), Total(SubSeq(values, 1, Len(values) - YEAR)))

trend_factor(values) ==
  Factor(Total(LastMonths(values, YEAR)),
         Total(SubSeq(LastMonths(values, MIN_MONTHS), 1, YEAR)))

seasonal_forecast(values, horizon) ==
  [step \in 1..horizon |-> Times(<<values[Len(values) - YEAR + step], 1>>, trend_factor(values))]

miss(actual, forecast) ==
  IF forecast[1] > 0 THEN <<actual * forecast[2] - forecast[1], forecast[1]>>
  ELSE IF actual = 0 THEN <<0, 1>> ELSE Limitless

\* For each month ahead, the misses from every past month with two years before it.
backtest(values, horizon) ==
  LET from == [origin \in MIN_MONTHS..(Len(values) - 1) |->
                 seasonal_forecast(SubSeq(values, 1, origin), horizon)]
      tests(step) == IF Len(values) - step < MIN_MONTHS THEN 0 ELSE Len(values) - step - MIN_MONTHS + 1
  IN [step \in 1..horizon |-> [n \in 1..tests(step) |->
        miss(values[MIN_MONTHS + n - 1 + step], from[MIN_MONTHS + n - 1][step])]]

\* The k-th of the values in their order: fewer are below it, as many are not above.
AtRank(values, k) ==
  values[CHOOSE i \in DOMAIN values :
           /\ Cardinality({j \in DOMAIN values : Below(values[j], values[i])}) < k
           /\ Cardinality({j \in DOMAIN values : ~Below(values[i], values[j])}) >= k]

\* At the given tenths of the ordered values, between the two nearest ranks.
percentile(values, tenths) ==
  LET position == (Len(values) - 1) * tenths
      below == AtRank(values, position \div 10 + 1)
  IN IF position % 10 = 0 THEN below
     ELSE Between(below, AtRank(values, position \div 10 + 2), position % 10)

MonthsForOneAhead(horizon) == MIN_MONTHS + MIN_TESTS
months_needed(horizon) == MIN_MONTHS + MIN_TESTS + horizon - 1

Refused(reason) == [refusal |-> reason, points |-> <<>>]
Point(value, range) ==
  [low |-> Times(value, OneMore(range[1])), value |-> Times(value, OneMore(range[2])),
   high |-> Times(value, OneMore(range[3]))]

\* The misses without their signs, and the range of each month ahead.
Sizes(misses) ==
  FoldLeft(LAMBDA a, b : a \o b, <<>>,
           [step \in DOMAIN misses |-> [n \in DOMAIN misses[step] |-> Abs(misses[step][n])]])
Ranges(misses) ==
  [step \in DOMAIN misses |->
     <<percentile(misses[step], 1), percentile(misses[step], 5), percentile(misses[step], 9)>>]

\* Refused when a past forecast missed without limit, or they typically miss too much.
Judged(forecasts, typical, ranges) ==
  IF \/ typical = Limitless \/ Below(MAX_TYPICAL_ERROR, typical)
     \/ \E step \in DOMAIN ranges : ranges[step][3] = Limitless
  THEN Refused("too_erratic")
  ELSE [refusal |-> "none",
        points |-> [step \in DOMAIN ranges |-> Point(forecasts[step], ranges[step])]]

JudgedByMisses(forecasts, misses) ==
  Judged(forecasts, percentile(Sizes(misses), 5), Ranges(misses))

forecast_series(values, horizon) ==
  IF Len(values) < months_needed(horizon) THEN Refused("short_history")
  ELSE IF Total(LastMonths(values, YEAR)) < MIN_MONTHLY_AVERAGE * YEAR THEN Refused("too_sparse")
  ELSE JudgedByMisses(seasonal_forecast(values, horizon), backtest(values, horizon))
=============================================================================
