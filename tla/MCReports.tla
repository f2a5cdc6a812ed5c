----------------------------- MODULE MCReports -----------------------------
\* Reports on a small library around the end of a February.
EXTENDS Reports

CONSTANTS dune, emma, fiction, herbert, austen, maya, omar

TheBookOf == (1 :> dune @@ 2 :> dune @@ 3 :> emma)
TheCategory == (dune :> fiction @@ emma :> None)
TheAuthor == (dune :> herbert @@ emma :> austen)
TheAdded == (dune :> DayOf(2024, 1, 1) @@ emma :> DayOf(2024, 2, 29))
TheJoined == (maya :> DayOf(2023, 12, 31) @@ omar :> DayOf(2024, 2, 29))
TheMoments ==
  {2 * DayOf(2024, 1, 31), 2 * DayOf(2024, 2, 29) + 1,
   2 * DayOf(2024, 3, 1), 2 * DayOf(2024, 3, 31), 2 * DayOf(2025, 2, 28)}
TwoMoments == {2 * DayOf(2024, 2, 29) + 1, 2 * DayOf(2024, 3, 1)}
TheMomentsWith == (0 :> TheMoments @@ 1 :> TheMoments @@ 2 :> TwoMoments)

\* A library of nearly three years, with 12 to 16 loans a month.
TheHistories == {[n \in 1..35 |-> 12 + ((3 * n) % 5)]}

\* Bound: every grouping, preset and comparison, not all of them together.
Kinds == {"previous_period", "same_period_last_year"}
Asks(names, groupings, filters, presets, kinds) ==
  {Query(n, g, f, p, k) : n \in names, g \in groupings, f \in filters, p \in presets, k \in kinds}
TheQueries ==
  Asks({"loans"}, {"month"}, {NoFilters}, {"last_30_days", "this_month", "this_quarter"}, Kinds)
  \cup Asks({"returns"}, {"weekday"}, {NoFilters}, {"this_month"}, Kinds)
  \cup Asks({"new_members", "titles_not_borrowed"}, {"month", "book"}, {NoFilters}, {"last_month"}, Kinds)
  \cup Asks({"active_loans", "overdue_loans"}, {"category", "book", "member_joined_year"},
            {NoFilters, [author |-> herbert]}, {None}, {"none"})
  \cup Asks({"late_return_rate", "average_loan_days", "unique_borrowers"}, {"none", "category"},
            {[categories |-> {fiction}]}, {"this_year"}, {"previous_period"})
  \cup Asks({"copies_on_loan_share"}, {"none", "category"}, {NoFilters}, {None}, {"none"})
  \cup Asks({"loans"}, {"year", "member_joined_year", "author"},
            {[book_id |-> dune], [member_joined_year |-> {2024}]}, {None, "last_90_days"}, {"previous_period"})
  \cup Asks({"loans"}, {"month"}, {NoFilters}, {"all_time"}, {"none"})
  \cup {WithDates(q, DayOf(2024, 2, 29), DayOf(2024, 3, 1)) :
          q \in Asks({"loans"}, {"weekday", "book"}, {NoFilters}, {None}, Kinds)}
=============================================================================
