------------------------------- MODULE Parts -------------------------------
(***************************************************************************)
(* The parts of the program that keep state of their own and share none:   *)
(* the message limit, the memory of ISBN answers and a call of the model   *)
(* (each an object of the one server process, on its one clock), the       *)
(* forecast of a series that grows month by month, and the history the     *)
(* seed simulates.  A behaviour is one part's; the others rest.            *)
(***************************************************************************)
EXTENDS RateLimiter

CONSTANTS
  None,
  Requests, Isbns, MaxCached, CacheSeconds, Timeout, MaxLookupTime,
  Timeouts, Headers, MaxCallTime,
  YEAR, MIN_TESTS, MIN_MONTHLY_AVERAGE,
  MaxMonths, MaxCount, Horizons,  \* bounds: the months, what one counts, the months ahead
  Readers, Demo, Titles, CopiesOf, Closed, LastDay, ShelvingDays, LoanPeriodDays,
  MaxActiveLoans, Late, LaterSpans, DemoOverdue

VARIABLES
  part,                                          \* the part that runs
  cache, lookup, found,                          \* IsbnLookup
  at, deadline, wait, asked, busy, outcome,      \* ModelCall
  counts,                                        \* Forecast: a count for each month
  day, arrival, joined, free, back, out, kept, made  \* Simulation

Memory == INSTANCE IsbnLookup WITH MaxTime <- MaxLookupTime, answer <- found
Call == INSTANCE ModelCall WITH MaxTime <- MaxCallTime
Method == INSTANCE Forecast
History == INSTANCE Simulation

ASSUME PartsAssumption ==
  /\ MaxCached \in Nat \ {0} /\ MaxLookupTime \in Nat
  /\ Timeout \in Nat /\ CacheSeconds \in Nat /\ Timeout < CacheSeconds
  /\ Timeouts \subseteq Nat /\ Headers \subseteq Int \cup {None}
  /\ YEAR \in Nat \ {0} /\ MIN_TESTS \in Nat \ {0} /\ MIN_MONTHLY_AVERAGE \in Nat \ {0}
  /\ Horizons \subseteq 1..YEAR
  /\ Demo \in Readers /\ IsFiniteSet(Closed) /\ LastDay \in Nat /\ ShelvingDays \in Nat
  /\ Cardinality(History!OpenDays) > ShelvingDays + 1 /\ None \notin Int
  /\ LoanPeriodDays \in Nat \ {0} /\ MaxActiveLoans \in Nat /\ Late \subseteq Nat
  /\ LaterSpans \subseteq Int \X Int

\* Each month's count comes when the month is over.
MonthEnds ==
  /\ Len(counts) < MaxMonths
  /\ \E n \in 0..MaxCount : counts' = Append(counts, n)

SeriesIsForecast(horizon) == Method!forecast_series(counts, horizon)

PartsInit ==
  /\ part \in {"limit", "memory", "call", "series", "history"}
  /\ Init /\ Memory!Init /\ Call!Init /\ counts = <<>>
  /\ IF part = "history" THEN History!Init
     ELSE day = 0 /\ arrival = <<>> /\ joined = <<>> /\ free = <<>> /\ back = <<>>
          /\ out = <<>> /\ kept = {} /\ made = {}

limitVars == <<hits, allowed, answer>>
memoryVars == <<cache, lookup, found>>
callVars == <<at, deadline, wait, asked, busy, outcome>>
simVars == <<day, arrival, joined, free, back, out, kept, made>>
PartsNext ==
  /\ UNCHANGED part
  /\ \/ part = "limit" /\ Next /\ UNCHANGED <<memoryVars, callVars, counts, simVars>>
     \/ part = "memory" /\ Memory!Next /\ UNCHANGED <<limitVars, callVars, counts, simVars>>
     \/ part = "call" /\ Call!Next /\ UNCHANGED <<limitVars, memoryVars, counts, simVars>>
     \/ part = "series" /\ MonthEnds /\ UNCHANGED <<vars, memoryVars, callVars, simVars>>
     \/ part = "history" /\ History!Next /\ UNCHANGED <<vars, memoryVars, callVars, counts>>

PartsSpec ==
  PartsInit /\ [][PartsNext]_<<vars, part, memoryVars, callVars, counts, simVars>>

-----------------------------------------------------------------------------
\* The properties of the parts, each of its own.
NoAnswerIsADayOld == Memory!NoAnswerIsADayOld
OnlyTheOldestMakeRoom == Memory!OnlyTheOldestMakeRoom
CallsFitTheirDeadline == Call!CallsFitTheirDeadline
LoansKeepTheRules == History!LoansKeepTheRules

\* Every month of a forecast is tested often enough and lies within finite
\* bounds, whatever zeros its history has; and a year that repeats itself is
\* forecast exactly (forecast.py:1, seasonal naive with a trend).
Same(a, b) == a[1] * b[2] = b[1] * a[2]
Repeats == \A i \in 1..(Len(counts) - YEAR) : counts[i] = counts[i + YEAR]
IsSound(point, last) ==
  /\ point.low[2] > 0 /\ point.high[2] > 0
  /\ ~Method!Below(point.value, point.low) /\ ~Method!Below(point.high, point.value)
  /\ Repeats => Same(point.low, last) /\ Same(point.value, last) /\ Same(point.high, last)
AreSound(points, tests) ==
  \A step \in DOMAIN points :
    /\ Len(tests[step]) >= MIN_TESTS
    /\ IsSound(points[step], <<counts[Len(counts) - YEAR + step], 1>>)
ForecastsAreSound ==
  \A horizon \in Horizons :
    AreSound(SeriesIsForecast(horizon).points, Method!backtest(counts, horizon))
=============================================================================
