# The library system in TLA+

This directory is the verification project of the mini library management
system: the backend in `src/repo/backend` (FastAPI, SQLAlchemy, PostgreSQL) and
the frontend in `src/repo/frontend` (React). Its modules are translated from the
source; `PROJECT.json` maps each definition to the lines it stands for.

    tlc -config LibraryService.cfg MCLibraryService.tla    # a run
    tlapm LibraryServiceProofs.tla                         # a module of proofs

## 1. Inventory

The backend serves requests concurrently on one event loop. Each request has
one database session (`db/session.py`) and works in PostgreSQL transactions at
READ COMMITTED. The services commit; whatever is not committed when a request
ends is rolled back. No state is shared between requests except the tables, the
copy code sequence, and three in-process objects (the rate limiter, the ISBN
memory, and the metrics catalogue, which is constant).

| Component | State | Operations | What is hard |
| --- | --- | --- | --- |
| Circulation (`services/circulation.py`) | loans | borrow, return, reads | borrows of one copy at once; a borrow against a change to its title; times are starts of transactions |
| Catalog (`services/catalog.py`) | books, copies, `copy_code_seq` | create, edit, delete or archive, add copies | checks and writes in separate statements; waits on rows and unique keys; a sequence outside the transaction |
| Members (`services/members.py`) | members | add, reads | a taken address |
| Activity (`services/activity.py`) | activity events | record with each change | the feed's order |
| Sessions and sign-in (`services/auth.py`, `api/google.py`) | users, sessions | start, touch, revoke, prune, demo and Google sign-in | two first sign-ins at once; two commits |
| Proposals (`copilot/proposals.py`) | `copilot_proposals` | prepare, read, confirm, cancel, prune | confirms and cancels at once; expiry; two commits; rollback and second lock |
| Conversations and chat (`copilot/conversations.py`, `chat.py`) | conversations, messages | start, add, history | two writers of one conversation; the window |
| Turn (`copilot/engine.py`, `tools.py`, `analyst.py`, `numbers.py`) | one turn's messages | rounds, nudge, retry, fallback | deadline and cancel anywhere |
| Model client (`copilot/openrouter.py`) | none | complete with one retry | the deadline |
| Rate limit (`copilot/rate_limit.py`) | hits per user | allow | the edge of the window |
| Event stream (`copilot/sse.py`) | a queue | emit, write, cancel | disconnects |
| ISBN lookup (`services/isbn_lookup.py`) | a bounded cache | find | lookups in flight |
| Lookups and number check (`copilot/tools.py`, `analyst.py`, `numbers.py`) | none | the reads of each face, tables, the numbers of a reply | who may see what; figures the data does not hold |
| Metrics (`services/metrics`) | none | queries, periods, forecast | boundaries |
| Dashboard (`services/dashboard.py`) | none | counts and lists | each view counts for itself |
| Simulation of the seed (`seed/simulation.py`) | the history so far | borrow, keep out, return | one day off |
| Middleware, schemas, generated catalog and people | none | | |
| Copilot panel (`features/copilot`) | conversation, running turn | send, retry, stop, reset, events | late events, cut streams |
| Frontend session, API client, pages | query cache | | |

Interactions: routers call the services; the Copilot's tools call the same
services with the signed-in user; a confirm calls `circulation.borrow` or
`return_loan`, whose commit also commits the proposal's status and its note;
the panel reads the event stream and the proposals.

What makes the core correct: one active loan per copy; nothing of a removed
title is out; the loan history is kept; copies leave the catalog with their
title; ISBNs are unique in the catalog and codes for ever; concurrent requests
have only effects that some order of whole requests has; requests end. For
proposals: one outcome that never moves, the change made once and only when it
is confirmed, one note that says so. `PROJECT.json` lists the hazards by line.

## 2. Modules

| Module | Models |
| --- | --- |
| `Library` | What the library promises: each change is one step with its whole rule as the guard. |
| `LibraryTables` | The tables, the transactions of requests, row locks, unique indexes, the foreign key, the sequence. |
| `Circulation`, `Catalog` | The services, one action per statement that reads, locks, writes or commits. |
| `LibraryService` | The services composed; the properties, the inductive invariant, the refinement of `Library`. |
| `Proposals` | Proposals over the desk's atomic borrows, returns and removals. |
| `CopilotTurn` | Turns of a Copilot conversation: what runs between two awaits is an action. |
| `EventStream` | The response that writes a turn's events. |
| `CopilotChat` | A turn as the producer of its stream, with a client that may leave. |
| `SignIn` | Accounts made at first sign-ins, members added at the desk, and sessions. |
| `Calendar` | Dates, the periods of the metrics, what they are compared with, their buckets. |
| `Desk` | Loans with their dates, changed by whole requests. |
| `Lookups` | The pages and the dashboard, the Copilot's lookups and faces, the number check. |
| `Metrics` | The catalogue of metrics, rows, totals and comparisons, and the tables shown of them. |
| `Reports` | Every read of one `Desk`, by every reader and at every moment. |
| `RateLimiter` | The messages of a sliding minute. |
| `IsbnLookup` | The memory of catalog answers, with lookups in flight. |
| `ModelCall` | One call of the model, with its one retry and its deadline. |
| `Forecast` | The forecast of a series of months, in fractions. |
| `Simulation` | The loans of the simulated history. |
| `Parts` | These last five, which share no state: a behaviour is one of them. |
| `ChatPanel` | The panel's conversation and the streams of its turns. |
| `MC...` | Symmetry, constraints and constants for TLC. |
| `LibraryProofs`, `LibraryServiceProofs`, `ProposalsProofs`, `SignInProofs`, `ReportsProofs`, `CopilotProofs`, `ChatPanelProofs`, `PartsProofs` | Theorems (section 4). |

`LibraryTables` is extended by `Circulation` and `Catalog`, and both by
`LibraryService`; `Calendar`, `Desk`, `Lookups`, `Metrics` and `Reports` extend each
other in that order.

**State and code.** `book`, `copy`, `loan` are the committed rows (`models/*.py`,
migration 0002); a copy is known by its code's number. `seq` is `copy_code_seq`, and
`handed` the history of the numbers it has handed out, which no step reads.
`req[w]` is the request a worker serves: the operation, the statement it has
reached (`at`), the start of its transaction (`began`, what `now()` returns), and
its local values. A request's locks and uncommitted writes follow from `at`, so
a commit or an abort needs no bookkeeping: the row locks are `ShareLocks` and
`UpdateLocks`, the uncommitted keys the `Pending...` operators.

**PostgreSQL.** Modelled from how the code uses it: a statement sees what is
committed when it runs; `FOR SHARE` and `FOR UPDATE` wait for each other and then
see the row anew, but the rest of the joined row as it was before the wait
(`BorrowFind`, `BorrowLock`); an insert into a unique index waits for a
transaction that has the key in hand; the foreign key makes an insert and a
delete wait for each other; `now()` is constant in a transaction; `nextval` is
never undone.

**Left out of the tables.** Fields without a rule between rows, and activity
events, each of which is part of the commit of its change. Due dates and the
reads are in `Desk` and `Lookups`. Members are never archived: no service
archives one.

**Proposals.** `LibraryService` shows that a borrow, a return or a removal is one
step of `Library`, so here each is one step (`Lend`, `TakeBack`, `DeskArchive`).
The statements of `confirm` are kept apart: lock and check (`FindLocked`), the
service's commit with the status and the note (`ChangeCommit`), the second commit
(`StoreLoan`), or rollback (`ChangeRefused`), second lock (`FailLock`) and failure
(`FailCommit`). `notes`, `changes`, `shown` and `answered` record what the
conversation was told, what was changed and what was answered.

**The Copilot's chat.** `turn[t].at` is the await a turn is at, `messages` what it
will store, `rows` and `pending` the conversation's committed and inserted rows,
`events` what it has put on the stream. At every await the database may fail and
the stream may cancel the turn; from the first call of the model to its last the
deadline may strike. A lookup that stores a proposal (`Prepare`, `ShowCard`) has
its commit and its card apart. A reply is known only by whether its numbers
passed the check. `EventStream` knows events by their place in the turn; its queue
has no bound, as in the code. `Close` is the generator's `finally`, at once or when
the abandoned generator is collected. A task that is cancelled before its first step
never runs and so puts no sentinel (`CancelledUnstarted`). Conversation ownership,
titles and the history window are left out; notes of confirms are in `Proposals`.

**Rate limiter.** `hits[u]` is the deque of a user; `allowed` and `answer` record what
was decided. `allow` has no await, so a call is one action (`Accept` or `Refuse`).

**ISBN lookup.** `cache` is the ordered dict, `lookup[r]` what a waiting request
holds: the time it asked, read before the wait and used after it (`FindAsks`,
`FindRemembers`). The catalog reads its records at any moment of the wait.
`answer[r]` is what a request was told, with the time it was read.
The dict is not always "Oldest first" (isbn_lookup.py:91): of two lookups in flight the
one asked first can be put last. `OnlyTheOldestMakeRoom` says what does hold, that
they differ by at most the deadline of a call.

**Sign-in.** A user and a member are kept under their address, which is unique.
`complete_google_login` and `ensure_demo_user` flush a member first and a user second and
commit, and `start_session` is a second transaction; a unique key makes the second of two flushes
wait, and a failed one roll back both rows and read again. `req[w].now` is the
clock as a request read it, used after its waits. `signedAs` and `accepted` record
who signed in as whom and which requests a session let in. Exchanging a code with
Google is any verified account; cookies are the tokens.

**Desk and reads.** `loans` holds the moment of each borrow and return, and the due
date. A moment is twice a day, plus one for its last half
second, which is when a loan due that day is overdue by less than a day. A lookup
answers with what the model is given (`data`), what the panel shows (`shown`) and
what the fallback reply says (`text`), each as a set of values with a kind; `Unsupported`
is the number check over the digit runs of these. `Pages` is what the routes give.

**Metrics.** `RunQuery` is `run_query`: the metric's entry of `CATALOGUE`, the period of the
preset, the period it is compared with, the buckets or groups, the total. `Accepted` is
`check_query`. Rates and averages are rounded to tenths as in the code. Labels are
kept where digits in them matter to the number check: of periods, of what they are
compared with, of groups. `TableDisplay` has the whole subtitle, with the filters in words
(`Scope`), and `ForecastDisplay` both tables of `forecast_metric`, the forecast's and a refused
one's trend. Cutting and sorting rows is left out, since no result here has more rows
than the limit.

**Model call, forecast, simulation.** `ModelCall` has the clock run at every await, also late.
`Forecast` uses exact fractions where the code has floats; `MIN_TESTS` and the rest
are constants. `Simulation` makes each random draw a choice over what it can give;
the future of a loan is fixed when it is made, as in the code.

**Chat panel.** `streams[t]` is turn `t`'s request and what was read of it; `home` is the
conversation it belongs to. `conversation`, `running`, `unavailable` are React's state as
set, `shown` the same as last rendered: handlers and buttons go by `shown`, and a render
is a step of its own (`Render`) except that of a click. The server's side is any order
of events `api.ts` can read, and the connection may end or go silent at any of them.
`Leave` is a page that is left or reloaded, or a panel mounted again, in any state, idle
too: the conversation comes back as last rendered, without status lines; what was set
and not rendered yet is lost, and so is `unavailable`, which `hooks.ts:62` starts anew.
So the notice that the assistant is unavailable does not outlast a reload, although
`hooks.ts:34` says "since the conversation started"; `TurnsEndAsTheyWere` asks for it only
until then (the turn becomes "forgotten"), and for all other ends after any number of
reloads. Session storage that is blocked or full is left out.

## 3. Runs

| Run | Question | Bounds |
| --- | --- | --- |
| `Library` | Does the promise keep the rules, one request after another? | 2 titles, 3 loans, 1 ISBN, 3 copies |
| `LibraryService` | Do the rules hold, does every commit implement `Library`, can everyone wait for everyone, whatever two requests meet? | 2 requests, 2 titles, 2 loans, 1 ISBN, 2 copies; the clock moves (4 readings) for one title of one copy |
| `RequestsEnd` | Does every request end? | 2 requests, 2 titles, 1 loan, 1 ISBN, 2 copies |
| `LoanOverlap` | Can loans of one copy overlap? (They can.) | 1 title, 2 loans, 3 readings |
| `Proposals` | Is a proposal resolved once, its change made once, its conversation told once; are only old ones deleted? | 2 requests, 1 copy, 2 loans; one proposal while the desk acts, two while it rests; 4 readings |
| `RefusedConfirm` | Does a refused confirm mark its proposal failed? (Not always.) | 1 proposal, 3 readings |
| `LateConfirm` | Does "expired" mean nothing changed? (Not always.) | 1 proposal, 3 readings |
| `CopilotChat` | Is what a turn stores whole and what it shows stored; does the client get it in order; does all of it end? | 1 message, 2 rounds of 1 lookup, 1 proposal, 1 keep-alive |
| `SignIn` | Is an account, or its member, ever made twice or left half made? Does a session outlive its use, or a sign-out? | 2 requests, 4 addresses (a reader, a librarian, the demo accounts), 3 Google accounts (two have one address and one of these another too, the third has the demo member's); then 2 sessions over 5 readings |
| `Reports` | Do members learn only what is theirs? Does every view count the same, every row add up, every fallback pass the number check? | 3 copies of 2 titles, 2 members, 2 loans, 5 moments around a leap day (2 of them with two loans), 53 queries that cover every metric but none in all of its groupings, presets and comparisons; forecasts of one month, of this library (all refused) and of one with 35 months behind it (given) |
| `Parts` | The limiter's minute, the memory's age, the call's deadline, the forecast's bounds, the simulated loans' rules. | see `Parts.cfg` |
| `ChatPanel` | Does a turn that was replaced reach the next conversation? Does each turn end as what it was, and stay so over reloads? | 3 turns of up to 1 status line |

Why the bounds are enough. *Tables:* every rule relates at most two requests over one
row or key, and `NoCircleOfWaiting` is proved for any number of them; two titles are
needed for an ISBN to move, two loans for one copy to be lent again, three
readings for a transaction that begins before an event and ends after it.
`NumbersLeft` keeps the bounded sequence from running out under a request; `MaxTime`
stops the clock and nothing else. `TimeOrTitles` is a constraint: with the clock
moving, the stored times are about one copy, so other titles rest; at its first
reading the whole instance is explored. *Proposals:* `TwoOrLent` lets the desk act on
one proposal, or two proposals meet; a proposal reads no other proposal except
to prune it. *Sign-in:* `AccountsOrSessions`: accounts do not depend on the clock, and
sessions not on other accounts. *Turn:* its bounds let it use up the rounds, end
one with a lookup outstanding, and have a nudge and a retry in any round. *Reports:*
the moments are the ends of a short month, a leap day and its last half second,
and a year later, when it has no counterpart. *Parts:* each part has one more of
everything than its limit (a third message in a minute of two, a third ISBN for
two places, a wait that does not fit); the forecast sees every series of up to
eight months of counts 0 to 3, with years of two months, which is long enough
for tests of it on its own past. *Panel:* a turn, the one that replaced it, and one more.

Deadlock is checked except where the system of the run really comes to its end:
`Library` (every code used and title removed), `CopilotChat` (the message is
answered), `Parts` (a history and a series are complete), `Reports` (the last loan is
back at the last moment). The three violation runs are
findings: see `PROJECT.json`.

`FiguresAddUp` asks that the rows of a table add up to its total, for this period and for
the one it is compared with. It leaves out months and years of a rolling or dated
period next to the previous period: there `queries.py` lines the buckets up by their
position, and the two periods need not touch the same number of months.

**Fairness.** `FairSpec` takes strong fairness of each request's own steps: the
event loop and PostgreSQL keep running what can run, and PostgreSQL queues the
waiters of a row or a key, so one that can go on again and again does. Nothing
else is fair: requests need not come, the clock need not move. `RequestsEnd` is
conditional for a change to a title, because share locks can pass a waiting `FOR UPDATE`
for ever; for borrows, returns and new titles it is not.
`ChatFairness` takes weak fairness of what the turn does next, of the delivery of
a cancel, of the response and of the deadline's timer: asyncio runs what is
ready, and PostgreSQL answers. The model need not answer, the client need not leave:
with neither, only the deadline ends the turn.

**Mutants.** Each property of a passing run has a definition next to the one it
replaces (`NoShareLocks`, `DeleteSkipsCheck`, ...) with a plausible mistake that
makes TLC find that property violated.

## 4. Proofs

Every theorem holds for all values of the constants that the named assumptions
allow: any numbers of requests, titles, copies, loans, turns and so on, and any
times. The runs check the properties that the theorems state on small instances;
the types and most of the inductive invariants are left to the proofs.

### The library

Assumptions: `BoundsAssumption` (the bounds are natural numbers), `NoneAssumption`
(`None` is not an id, nor a loan's parts).

- `LibraryProofs`: `PromiseHolds`. The types and rules of `Library` are inductive as they
  stand, since each of its actions has its whole business rule as the guard.
  `Refinement` below says that the services do nothing else.
- `LibraryServiceProofs`, first part: `TypeCorrect`, then `Invariance`, that `IInv` is inductive,
  and from it the safety properties. The types of a commit need two facts about
  the request that makes it: `NamedIds` (a request names the rows it works on) and
  `DeletesDecide` (a delete that decided has an outcome). The safety properties are
  not inductive alone: that a borrow may commit depends on what it read several
  statements ago. `IInv` says what a request holds at each stage. `LocksExclude` is
  the meaning of the row locks; by it `BorrowsHold` (the title a borrow locked is still in
  the catalog) and `ChangesHold` (the copies a delete found at home are still at
  home, the history it read is still what it was) survive the steps of all
  other requests. `IsbnsHold`, the last part of `BorrowsHold` and `ReturnsHold` are the
  unique indexes and the row that an update has written: one request at a
  time. `FreshIds`, `NamedRows`, `References`, `NumbersAreUsedUp` tie the requests to
  the rows. `HandedInOrder` says what `handed` is at each moment: the numbers from 1
  to the last one, in order, whatever was rolled back or deleted meanwhile; so
  `CodesAreNew` is about all numbers ever, not those still in use. The proof splits `IInv` into rules about rows and rules about
  requests. A step that is not a commit leaves the rows alone and moves one
  request on (`Moves`), so it can disturb only the rules about the stage it comes
  to; a commit changes the rows and ends its request. One lemma per action.
- `LibraryServiceProofs`, second part: `Refinement`, `Spec => Promised!Spec`. Only commits change the rows
  (`OnlyCommitsWrite`), and `IInv` makes the guard of the matching step of `Library`
  true at each commit; `TakesLabels` adds that new copies are at least one.
  `HistoryGrows` and `RemovedForGood`, the action properties, from the same case split;
  `ReturnsComeLater`, whose invariant adds that transactions and loans start in the
  past; and `NoCircleOfWaiting`: a request that has written waits for nobody,
  waits for a key end at one that has written, waits for a row lock end at its
  holder, and no holder waits for a row lock. That argument needs no invariant,
  only who waits for what.

### Proposals

`ProposalsProofs`; assumptions `TimesAssumption`, `NoneAssumption` and `ResultsAssumption` (the
marks "none" and "error" are no loans). That a change is made exactly when its
proposal is confirmed is not inductive: a confirm has decided before it commits,
and it commits twice. The invariant says that a proposal whose row is locked is
pending and locked by one request, that one under preparation has no row, no
note and no change yet and one preparer, and that a confirm between its commits
names the one loan its proposal changed. `ChangedOnce`, `OutcomeToldOnce` and
`ResultNamesTheChange` follow, and with them the action properties `OutcomesLast`
and `PrunesAreLate`.

### Sign-in

`SignInProofs`; assumptions `TimesAssumption`, `AddressAssumption` and
`DemoAddressesAssumption` (no two Google accounts have a demo account's address in
common). The last one matters: of two Google accounts that find the same user
unlinked at once, the second to commit overwrites the first one's link
(`auth.py:205`). Only the demo accounts are ever unlinked, and their addresses
are in `demo.local`, where nobody gets mail, let alone two Google accounts one
after the other. The invariant has three parts: what the unique indexes make of
rows that are flushed and not committed, what a sign-in knows of its account at
each stage, and which times each session was accepted at. The last is what
makes `SessionsAreUsed` true although touches are written in any order: a touch
can move `last_seen_at` back, but only to a time at which the session was
accepted. `SignOutsAreFinal` is the action property.

### The Copilot

`CopilotProofs`; assumptions `BoundsAssumption`, `TurnsAssumption` (there is a turn) and
`KeepalivesAssumption` (a natural bound). The first four theorems are about
`CopilotTurn!Spec`, any number of turns of one conversation at once, of which
the run has only one: the transactions of other turns put rows between those of a turn. The invariant
says, at each await, how far the turn's rows are what it has gathered
(`messages`), in the order of ids, and what events and proposals go with
them; whether rows are whole rounds is then a question about `messages` alone
(`WellFormed`). `ChatInvariance` is about the stream: the queue is what was put and
not written yet, with the sentinel last, and a producer that is gone puts
nothing. `ChatsAreTurns` is the implementation `ChatSpec => Spec`: the stream adds no
behaviour to the turn, so the theorems about turns hold in the chat
(`ChatsStoreWhatTheyShow`).

### The reads

`ReportsProofs`; assumptions `YearsAssumption` (the calendar has years),
`DeskAssumption` (finitely many books, copies and members, `None` none of them, days
within the calendar), `AskedAssumption` (a query names a metric, a preset and a
comparison there are), `HorizonsAssumption` (a forecast goes six months at most, a history is counts) and
`CalendarAssumption`: the clock is at least two years after the calendar's first day, and
named days have room for a period of their length before them. The code has
Python's calendar from the year 1, whose start no period reaches.

- `OnlyTheirOwn`, `EveryAnswerQuoted`: one lemma per lookup says which values it can answer
  with, and these need the desk's types only. Two things a table shows are not in
  the data of its lookup, and `AnswersCanBeQuoted` says so: the filters in words, such as
  "members who joined in 2024" (`queries.py:343`, not in `result_data`), and the month
  a forecast's history begins with (`analyst.py:433`; `forecast_data` has the last
  twelve). The model knows the filters, since it chose them, but the number check
  does not ask it: a reply that repeats such a year passes only when the user wrote it
  or a figure of the results has it. In the run
  every forecast of the desk's own loans is refused, the library being young; `Histories`
  adds one that succeeds, a month ahead, since TLC's integers are too small for the
  errors of more. The theorem has every history and horizon.
- `DeskIsSound`: loans are of the past, of titles and members there are, and a copy that is out
  is out once and of a title of the catalog. The last is what makes "available plus on
  loan is all copies" true: a removal is refused while a copy is out.
- `FiguresSum`: the rows of a table come from groups counted apart from the total, so the sum
  of the counts of rows with each key is the count of rows (`SumOfCounts`, `RowsSum`).
  What has to be shown is that every row of the period has a key among the groups.
  For days and weeks that is division; for months and years it is shown on
  months counted through the years (`MonthFirst`, `MonthOf`), where the first days
  of months are in order and a day lies in one month. `SameLength` says when the
  period compared with has a bucket for each bucket, which `LinesUp` asks for.
- `OneStory`: the loans out, the copies on loan and the members' loans are counted over
  different tables; a loan out and its copy determine each other (`OutOnce`), so the
  counts by title and by member are sums over one set. Overdue is decided in one place
  by the due day and in another by whole days: they agree to the half second. The
  trend of a refused forecast counts month by month what the metric counts at once.

The queries of `FiguresSum` and `OneStory` are any that `Accepted` lets through, on any
calendar; the run asks 53 on six years.

### The panel

`ChatPanelProofs`; assumption `PanelAssumption` (natural bounds, `None` is no number).
Handlers go by what was last rendered, so the invariant relates three things: the
conversation, what is shown of it, and the streams. A stream that is open and not
aborted is `turnRef`'s, of the present era and of the last turn; ids and items of
the conversation and of what is shown are of turns of this era; what the running
turn read last is the last item, and once none runs the last turn's end is.
`BegunFits` counts the conversations the server began against those that were
lost; for a page that is left before a turn's end was rendered, `EndIsNotSaved` says
that this turn was not counted as lost before. Both properties of the run follow.

### The parts

`PartsProofs`; assumptions those of `RateLimiter` and `PartsAssumption`: positive sizes
and periods as the settings demand, model timeouts and headers that are
numbers, a calendar with finitely many closed days and enough open ones.

- *The limiter.* `LimitHolds` and `RefusalsAreDue`: a user's deque is the end of the
  sequence of messages let through, in the order of their times and no longer
  than the limit, and what was dropped is a window old. A message let through
  then has fewer than the limit of others in the window behind it, and a
  refused one has the limit of them.
- *A model call.* `CallsKeepTheirDeadline`: the invariant adds what the call knows at
  each stage, so that it sleeps only towards a second try that fits, even when the loop
  comes back a reading late.
- *The ISBN memory.* `AnswersAreFresh`, `OnlyTheOldestLeave`: an entry's time is the time a
  lookup asked, which no entry put after it can precede by more than the
  deadline of a call.
- *The simulated history.* `HistoriesKeepTheRules`: the invariant adds that what is
  known of a copy (`free`) and of a reader's last loan of a title (`back`) is no
  earlier than its loans (`LoanFits`), and that on every day to come the returns
  in `out` are at least as many as the loans that last beyond it
  (`LoansAreCounted`).
- *The forecast.* `ForecastsHold`: a miss is a fraction of at least minus one, or
  without limit (`Misses`), and `AtMost`, multiplied across, is a total order of them. So every rank
  of a series of misses has one (`RanksExist`) and higher percentiles are no lower; if the
  highest has a limit the others do, and the range is in order and finite. In a
  series that repeats itself the trend is one and every past miss nothing
  (`PastMissIs`), which is where a trend over other months than these would show.

The opening days of `Simulation` are found by least and greatest elements, the
items `ChatPanel` keeps by recursion, and the sums of `Metrics` and `Forecast` by folds; what is needed of them is proved from
the least counterexample (`LeastNat`), for the library's induction theorems are out of
the installed provers' reach.

### Only model-checked

- *Liveness* (`RequestsEnd`, `ChatsEnd`): out of the prover's reach.

Every safety property and every action property of the runs is proved. What a theorem
cannot say of the fractions of `Forecast` is how Python's floats round them.

## 5. Not modelled

- **Activity record.** One row in the commit of each change, so one with the
  commit's step; its one read orders by the start of transactions.
- **Rest of the seed** (`run.py`, `isbn_check.py`, the generated catalog and people): commands run
  by hand on an idle database, and data. Its reset empties the tables and starts the
  copy codes at 1 again: what `LibraryService` says holds from one reset to the next.
- **Middleware, configuration, error envelope, API schemas**: per request and without
  state; the check digits of an ISBN are there.
- **Copilot prompts, parameter schemas, `describe_metrics`**: text, the same for every library. A
  refusal's reasons, with their figures, are one text in the data and in the reply.
  What lookups give and show is in `Lookups` and `Metrics`.
- **Finding digits in free text**: the number check is modelled on digit runs.
- **Ownership, titles and the history window of conversations.** The window is where the messages
  of a turn and the note of a confirm would meet; `CopilotChat` has one turn.
- **Cards in the panel, pages and forms, the frontend's session flag.** The panel's leaving is in
  `ChatPanel`; what a sign-out does to the saved conversations is not.

## 6. Plan

1. Done: the database core and its refinement; proposals; the turn and its
   stream; the limiter, the ISBN memory, the model call; accounts and sessions;
   reads, metrics and forecast; the simulated history; the panel.
2. Done: proofs of every safety property of the runs.
3. The history of a conversation when turns and notes of confirms meet.
