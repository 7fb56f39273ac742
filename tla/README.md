# A verification of the portfolio manager

The service keeps the books of a private investor: a double-entry journal of
everything that happened, the positions and balances projected from it, and
reports (valuations, returns, consolidated net worth) rebuilt from the journal
for any past date.  These modules model that core in TLA+, check it with TLC on
small instances, and prove the properties that matter most with TLAPS.

Paths below are relative to `src/src/portfolio_manager/`.

## The system

| Component | Source | State | Operations | Hard because |
|---|---|---|---|---|
| Ledger | `postings.py`, `journal.py` | journal events and legs, cash balance, positions | `record_transaction`, `reverse_transaction` | concurrent sessions decide on what they read before the write lock; clients retry; a posting has several writes |
| Transfers | `transfers.py` | two halves tied by a `transfer_id` | `transfer_cash`, `reverse_transfer` | two books under one commit; unwinding when the money has moved on; deletion of one book |
| Books | `services.py` | portfolios, cash accounts, liabilities, tags | create, update, delete, tag, live summary | deletion races with postings |
| Cost basis, corporate actions | `postings.py`, `corporate_actions.py` | average cost, realized profit, actions and their applications | `_apply_position`, record, preview, apply | division and signs; a preview that is stale when applied; future effective dates |
| Replay | `replay.py` | none (a fold over the journal) | `replay_state`, `flows_by_bucket` | backdated events arrive out of order; reversals inherit the kind of what they reverse |
| Snapshots | `valuation.py`, `snapshot_cron.py` | one snapshot per book and day; the pricer's memory | `create_snapshot`, `rebuild_snapshots`, the daily loop | stored history against a journal that still changes; failures remembered or not |
| History cache | `cache.py` | month buckets in Redis | `history`, `clear_ticker` | clearing races with filling; the month turns between fetch and store |
| Quotes, sessions | `services.py`, `market.py`, `sessions.py` | last quote per instrument | `get` | lifetimes that depend on trading hours; overlapping refreshes; stale fallback |
| Report time | `report_time.py` | none | cutoffs, completed price dates | zones, weekends, boundaries |
| Exchange rates | `fx.py` | observed rates; coverage and failures of one report | `convert`, `prefetch_range` | which of stored, covered, failed decides; the write lock of a report that only reads |
| Groups | `consolidation.py`, `nav_series.py` | membership intervals | create, replace members, summary, value series | intervals closed and opened at one instant; reports read in pieces |
| Performance | `performance.py` | none | time-weighted and money-weighted return | zero and negative bases, missing days, flows of today against values of then |
| Identity | `identity.py`, `taxonomy.py` | classification rows per rank, issuers | record, override, retract, map | precedence over arrival order, partial updates, no unique key on names |
| HTTP API | `api.py`, `schemas.py` | one session per request | routing, validation | a thread pool: the interleavings above |
| MCP server | `mcp_server.py` | an HTTP client per session | tools over the API | nothing that is kept |

Every request is a synchronous handler on a thread, with a database session of
its own.  The database is SQLite in WAL mode through the driver's legacy
transactions: a session's SELECTs run outside any transaction, and its first
INSERT takes the one write lock, which it keeps until it commits or rolls back.
Checks made before the first INSERT may therefore be out of date when the INSERT
comes; whatever is read after it is current.  An UPDATE that SQLAlchemy sends
names only the columns that differ from what the session read.  The valuation
cron and the MCP server are clients of the same HTTP interface.

What makes each part correct: the ledger's projections equal the sum of the
journal and nothing is overdrawn; a request id posts once and is answered with
its own event; transfers move both halves or none; replays agree with the
projections; a snapshot uses nothing that was not known at its instant and is
never lost; every day is valued in the end; caches never serve part of a month
for the whole, nor what was cleared; rates never come from after the date they
are used for; a summary is one of its cutoff; membership of the past is not
restated; returns are made of gains only; the winning classification does not
depend on arrival order.

## Modules

| Module | Models |
|---|---|
| `Journal` | the event types, the body of a transaction, the legs it is turned into, balance and `invert` |
| `Ledger` | books, journals, projections and request-serving sessions; record, reverse, transfer, unwind, create, delete, lost requests |
| `AccountBook` | the abstract account one book implements |
| `Fractions`, `CostBasis` | exact fractions; average cost and realized profit as a security leg changes them, in the posting and in the replay |
| `Replay` | `replay_state`, the classification of flows, `flows_by_bucket`, as functions of a journal |
| `Holdings` | one investment book and one security over time: transactions, reversals, corporate actions from preview to application |
| `Performance` | snapshots of that book and the returns between them (extends `Holdings`) |
| `Calendar` | trading sessions, next openings, report days and cutoffs, completed price dates |
| `Snapshots` | range rebuilds, the pricer, revisions and the cron, step by step (extends `Calendar`) |
| `Quotes` | the quote row and overlapping refreshes (extends `Calendar`) |
| `HistoryCache` | month buckets in Redis: read, fill, expire, clear |
| `Fx` | stored, observed, inverse and cross rates of one report; its prefetch, its write lock, its rollback |
| `Groups` | membership rows and overlapping replacements |
| `Consolidation` | transfers and a summary read in pieces (extends `Groups`) |
| `NavSeries` | stored snapshots and a series read in pieces (extends `Consolidation`) |
| `Identity` | ranks, overrides and retractions of a field; the mapping of listings to issuers |
| `MarketData` | `Quotes`, `HistoryCache` and `Fx` side by side |
| `Sums` | running totals, used by properties and proofs |
| `MCLedger`, `MCHoldings`, `MCSnapshots`, `MCMarketData`, `MCReports` | the instances for TLC |
| `LedgerProofs`, `HoldingsProofs`, `PerformanceProofs`, `SnapshotsProofs`, `MarketDataProofs`, `ReportsProofs` | theorems and proofs, `PerformanceProofs` resting on `HoldingsProofs` |
| `CalendarProofs`, `Induction` | what they rest on: searches over days; least elements, induction, sums |

The modules form five families that share no state in the code either, or only
through reads the models keep: postings (`Ledger`), one book over time (`Holdings`,
`Performance`), valuation (`Snapshots`), market data (`Quotes`, `HistoryCache`, `Fx`), and
reports and identity (`Groups` to `NavSeries`, `Identity`).  `Ledger` tells requests,
sessions and books apart and forgets time and cost; `Holdings` is the other half,
one book with its dates and costs, where a transaction posts in one step.
`Snapshots` knows every step of a rebuild and of a holding only its quantity;
`Performance` and `NavSeries` take a snapshot in one step and know its money.

### Ledger

The state is `books` (absent, open, deleted), `journal` (each book's events in
the order of `created_at`, with the request that posted them, the summed legs,
the status, the event reversed and the transfer's id and role), `cash` and
`position` (the tables `cash_balances` and `positions`, of the latter the
quantity), and `session` (each serving thread's request and how far it is).

An operation is split where another session can commit in between, and nowhere
else:

| Code | Actions |
|---|---|
| `record_transaction` | `RecordTransaction` (book, security and currency checks, the request-id lookup, the legs and their balance), `PostTransaction` |
| `reverse_transaction` | `ReverseTransaction` (the original and its status), `CheckReversal` (the request-id lookup), `PostReversal` |
| `transfer_cash` | `TransferCash`, `PostTransfer` |
| `reverse_transfer` | `UnwindTransfer`, `CheckUnwind`, `PostUnwind` |
| `_create_book`, `delete_portfolio` | `CreateBook`, `DeleteBook` |
| a lock timeout, a stopped server, a lost answer | `LoseRequest` |

The posting actions are all-or-nothing steps because their INSERTs, their
projections and their commit happen under the write lock.  `PostOrRollBack` is the
`try`/`except` around them: every event must pass its foreign and unique keys
(`Insertable`) and its legs must be covered (`Affordable`).  A reversal uses the
status its session read earlier, as the code does, which is where it goes wrong.

Abstractions.  A request's fingerprint is its payload, so two requests have one
fingerprint only if they ask for the same thing; dates, memo and references are
outside the fingerprint in the code and are left out.  The legs of an event are
summed per destination.  Amounts are integers: the decimal context's rounding
at 28 digits is not modelled.  A client may send any request of `Requests` at
any time and any number of times, which covers retries, duplicates and
reordering.  A deleted book's identifier is never reused, as in the code.

### Holdings, CostBasis, Replay, Performance

The state is `now` (the server's clock), `journal` (events with the time they
occurred and the magnitudes of their income, fee and tax legs), `position` and
`cash` (the projections, of the position also average cost and realized profit),
`announced` and `applications` (the tables of corporate actions and of their
applications), `preview` (what a session has computed but not yet posted), and,
in `Performance`, `tape` (the closes) and `snapshots`.

| Code | Actions |
|---|---|
| `record_transaction` | `RecordTransaction`, `RefuseTransaction` |
| `reverse_transaction` | `ReverseTransaction` |
| `record_corporate_action` | `RecordCorporateAction` |
| `apply_corporate_action` | `PreviewApplication` (the checks and `preview_application`, read outside a transaction), `ApplyCorporateAction` (event, projections, `_override_position_basis`, application row), `AbandonApplication` (the rollback) |
| `create_snapshot` | `TakeSnapshot`, with or without a price |
| the clock | `Tick` |

An application is split because the legs and the average cost it writes are
those of a preview that was read before its session held the write lock.  A
reversal occurs now; a transaction occurs at a past time the client chooses; an
application occurs when its action takes effect, which may be in the future.

`CostBasis` has the same arithmetic twice, as the code does: the posting's and the
replay's, which alone knows a return of capital as a leg without a quantity.
`Replay` folds a journal in order of occurrence, ties by the order of posting.
`Performance` computes daily returns and the flows of the money-weighted return
from the stored snapshots and the journal as it is now, as
`calculate_performance` does; the root search of XIRR is left out.

Abstractions.  Quantities and amounts are integers and averages exact fractions:
the rounding of decimals at 28 digits is not modelled.  The book holds one
security, since positions do not influence each other but through cash.  Request
ids are left to `Ledger`.  The `applied` mark on an action is left out, as nothing
reads it to decide anything; so are the replay's warnings.

### Calendar, Snapshots

Time is a number of ticks; a zone is a fixed distance from UTC, so daylight
saving is left out.  A close is a version of itself: 0 while the provider does
not have it, 1 and on as it is corrected.

The state of `Snapshots` is `now`, `portfolios`, `journal`, `closes`, `snapshots`
(portfolio and day to row or none), `revision` (the next id), `session` (what each
serving thread rebuilds, at which date, with what it has read and what its
pricer remembers), `cron`, and `budget`, which bounds what clients, the provider
and the network do in one behaviour.

| Code | Actions |
|---|---|
| `rebuild_snapshots` | `RequestRebuild`/`CronPosts` (up to the loop), `Skip`, `FailDate`, `Finish` |
| `create_snapshot` | `LookUp` (cutoff, the existing row, the replay), `StoreSnapshot` (pricing, then DELETE, INSERT and commit), `Collide` (unique or foreign key) |
| `HistoricalPricer` | `Reloads`, `Loaded`, `Usable` inside `StoreSnapshot` |
| `snapshot_cron.main` | `CronAsks`, `CronPosts`, `CronGoesOn`, `CronIsRefused`, `CronPostFails`, `CronTimesOut`, `CronSleeps`, `CronWakes`; `CronDies`, `CronRestarts` |
| postings, deletion, the provider | `PostEvent`, `DeletePortfolio`, `PublishClose`, `CorrectClose` |

### Quotes, HistoryCache, Fx

`Quotes`: `market`, `clock`, `tape` (the last trade at every instant, which does not
move outside the session), `quote` (the row) and `reader`.  `GetQuote` reads the row
and the clock; `ProviderAnswers` and `ProviderFails` are the call; `SaveQuote` is the
UPDATE of the columns that differ, or the INSERT that may collide.

`HistoryCache`: `tick`, `buckets`, `client`, `clearedAt`, `clearing` (the months a
SCAN has found and DEL has not reached) and `faults`.  `ReadBuckets`,
`FetchMissing` and `StoreMonths` are the three parts of `_cached_history`;
`ReadFails`, `FetchFails`, `AskDirectly`, `DirectFails` its fallback.  A bar is its day
and the instant of the last trade it has seen.

`Fx`: `published` (what the provider has), `fxRates` (committed rows), `service`
(each report's flushed rows, failed pairs and covered ranges), `answer`, `writer`
(who holds the write lock) and `downs`.  `Convert` is one conversion with every
fetch it makes; `PrefetchRange` that of a series; `LockedOut` a flush that finds
the lock taken; `EndReport` the rollback.  What a rate is worth is left out:
which rate is used is what can be wrong.

### Groups, Consolidation, NavSeries

`Groups` has `rows` (portfolio, from, to) and `editor`: `ReadMembers` is
`replace_members` up to its writes, `ReplaceMembers` its writes and commit.
`overlapped` records that two replacements of the group were under way at a time.
`Consolidation` adds `entries` (cash movements with their dates; a transfer stamps
its date in `StampTransfer` and commits both halves in `CommitTransfer`) and
`summary`, which reads the members in one step and each portfolio in one of its
own.  `NavSeries` adds `stored` and `series`, which reads members, snapshots and
first events in three steps.

### Identity

`facts` (one row per provenance, of one field), `issuers`, `issuerOf`, and `curator`,
the request each thread is at between its reads and its write.  A write changes
the columns that differ from what was read (`Upserted`, and `IssuerWritten` for
`issuer_id`).  `map_issuer` takes three steps: `ReadInstrument`, whose `issuer_id`
decides whether the last step writes one; `ReadIssuer`, by name (a mapping by id
has its issuer at once, and issuers are never renamed or deleted); `WriteIssuer`,
with the commit.  `said` and `mapped` record what clients asked, `raced` and
`overtaken` which requests met, for the properties.

## Runs

Instances with several parts begin a behaviour with one of them, a `mix` of
requests or a `focus`: one run then covers several small worlds instead of the
product of them.

| Run | Bounds | Shows |
|---|---|---|
| `ledger` | 3 books, 7 ids, 3 mixes: 3 sessions on one book; 2 on three books; 2 on a loan and an account | projections follow the journal, nothing is overdrawn, an id posts once and is answered with its own event, a posting that went through is never refused when sent again, transfers have both halves or neither, only investment books hold, every book implements `AccountBook` |
| `holdings` | 1 session, 5 mixes: 6 events without backdating; 6 with a split, a dividend, a return of capital; 4 backdated by 1 over 3 moments; 3 with snapshots over 4; 4 with a dividend undone before it takes effect | no cost is lost in the averages; the replay is the live book; one pass over windows is a replay of each; gains are made by the market and the book's own events; linked returns, values and the flows of XIRR agree; what is posted later does not change a measured return |
| `holdings_races` | 2 sessions | shares and cash stay the journal's sums, each action is applied once |
| `snapshots` | 3 days of 2 ticks, 2 server threads, the cron, two troubles at a time | no look-ahead, no passed date loses its row, revisions go forward, the freshest close is used |
| `snapshot_cron` | the same, a client's rebuild with a failure, or a failure with a deletion | every day is valued in the end (liveness) |
| `market_data` | 4 parts: 14 days of 8 ticks for three markets; 2 readers over 6 ticks; 2 clients over 2 months of 2 days; 2 reports, 4 currencies, 3 worlds of rates | sessions and completed closes are told as they are; unmarked quotes of the session are recent; answers from buckets match the provider; cleared bars stay gone; the newest rate is used; published pairs convert |
| `reports` | 5 parts: 2 editors over 3 instants; a summary and 2 transfers among 3 books; a series with 3 snapshots; 2 curators and 2 values of a field; 2 curators, 2 listings, 2 companies, 3 issuers | members are those asked for and the past is not restated; a summary is one of its cutoff and adds up; complete points cover every account that had begun, compare like with like and agree with a summary; the winner is the last word; listings share their issuer |
| `ledger_double_reversal` (violation) | 2 sessions | two sessions both post a reversal of one event |
| `holdings_stale_preview` (violation) | 2 sessions | an application leaves another holding than the one previewed and recorded |
| `snapshots_correction` (violation) | one late event, one correction | a corrected close is not picked up by the next run |
| `fx_kept` (violation) | as `market_data` | the rates a report fetched are gone when it ends |
| `nav_understated` (violation) | as `reports` | a point with an unpriced holding is called complete |

Why the bounds are enough.  Two threads put one between the check and the write
of another; the first mix of `ledger` has a third, so that two competitors can both
be between theirs.  Six events buy at two prices, sell part and all, reverse and
buy again; a window needs two boundaries and events before, on and after each.
Thursday to Saturday has a session, a midnight, and a day without a session; the
ticks lie in and after the session, so a snapshot of today is of an unfinished
day once and of a finished one once.  Two months of two days have a turn of the
month with whole days on either side; a lifetime of one tick expires within a
request and one of four outlives the month.  Two weeks have every weekday next
to every other, for a zone behind, one ahead and a market without sessions.  The
bounds on failures, corrections, deletions and requests are part of the state
(`budget`, `faults`, `downs`) and are spent in any order; pairs of troubles in one
behaviour are what `Troubles` lists.  `Corrected`, `MaxDelay` and the mixes fix
which events are reversed or backdated: an environment a property needs is named
there, and its reason is among the remarks below.

`CHECK_DEADLOCK` stays on in `ledger`, `holdings` and `snapshots`, where a request can
always be sent or refused.  In `market_data` and `reports` the clock and the
budgets of an instance run out, and the model may stop there.  Symmetry is that
of the threads, which nothing tells apart; `snapshot_cron` does without, since it
checks liveness.

### Fairness

`FairSpec` of `Snapshots` assumes weak fairness of three things: time passes; a
server thread goes on with what it serves (a thread of the pool is never
cancelled, and its calls have time limits); the cron goes on between two
statements and its container is started again.  Nothing is assumed of clients,
of the provider, of when a post fails or of how often the process dies, other
than that a behaviour's budget of failures is finite and smaller than the
runs whose window covers a day: if every such run failed, a day would indeed stay
unvalued.  `CronIsQuick` says that a run is over before the next midnight, as its
requests time out after 60 seconds each.  The other modules have nothing
that retries on its own: a request is answered or fails, and clients come and go
as they please.

## Proofs

All theorems hold for every value of the constants that satisfies the named
assumptions of the modules (`JournalAssumption`, `LedgerAssumption`,
`CalendarAssumption` and so on), which say what the code's configuration and
schema say: types, finite sets where the code adds up, trading hours within a day.
`tlapm` checks every leaf.  Thirty-nine of the forty properties of the passing
runs are proved; the rest are listed at the end with the reason.

How a proof goes.  A property that runs check is seldom inductive.  Each family has
an inductive invariant, a conjunction of named parts; there is one lemma for the
initial states and one for each action, and the theorem follows from these and
from a lemma that the invariant implies the property.  Action properties follow
from the invariant and the step.

`Induction`.  The installed provers have no induction over data, so the module
rests everything on one fact about finite sets, that a set of naturals has a least
element.  From it follow `Min` and `Max` of bounded sets, induction over the
naturals and over the subsets of a finite set, and the sums the model is full of:
`SumOn(g, S)` is the community modules' fold, which is a `CHOOSE` of a recursive
function; the module shows that there is one such function, and from that how a
sum changes with an element, splits into parts, scales, is renamed, and ignores
zeros.  Running totals (`Sums`) are treated the same way.

`LedgerProofs` (any books, tickers, threads and requests):

* `TypeCorrect`: `TypeOK` is inductive.  The proof goes through `StepShape`: every
  step creates a book, deletes one, posts a set of events to distinct open books,
  or leaves the tables alone.  All later proofs start from this case split
  instead of from the thirteen actions.
* `RequestsPostOnce`: from the unique key, for every interleaving of lookups and
  INSERTs.
* `NeverOverdrawn`: the covering check is made on the state the posting changes.
* `ProjectionsAreTheJournalsSums`: cash and positions are the sums of the journal.
  The strengthening carries, besides the equality, that a book that is not open
  has an empty journal (a created book starts from zero) and that the running
  total of a journal exists and is unique, so that the total after an `Append` is
  the old total plus one entry.
* `LedgerImplementsAccountBook`: every book, under the mapping that forgets
  requests, reversal marks and transfers, implements `AccountBook`: initial states
  map to initial states, and each step to an opening, an entry, a deletion or a
  stutter.
* `JournalsAreOnlyAppendedTo`: no step changes or removes an event of a book that
  stays open, but for the mark of a reversal.  What a session has read therefore
  stays true while its book exists, which is what the next three rest on.
* `AnswersNameTheirRequests` and `RetriesAreAnswered`: `EventsFit` says that every
  event is what its request asks for, `SessionsFit` what a session may rely on
  between its read and its write: that its book was opened and, while that is
  there, the event it located or was answered with.
* `SecuritiesAreInInvestmentBooks`: a consequence of `EventsFit`; a reversal or an
  unwinding takes the legs of an event that was checked when it was posted.
* `TransfersAreWhole`: `TransfersFit` says that a transfer id names an outgoing half
  that was posted under it, that a book has at most one half of it, that the
  other book was opened, and that the two halves have the same trail of reversals
  while both books are there.

`HoldingsProofs` (any orders, corporate actions and threads):

* `NothingHeldShort`: the inductive invariant `WholeNumbers`, which is `TypeOK` but
  for the averages, and says besides that legs which move shares name the
  security, in the journal and in every preview.  Without the latter a stale
  preview could move a position by legs that do not show in it.
* `RacesAreSafe`: shares and cash are the journal's sums (from `WholeNumbers` and
  running totals, by `StepShape`) and an action is applied once (from the unique
  key on the application, checked again when the row is inserted).
* `HoldingsTypesCorrect`: `TypeOK`, averages included.  A cost is a fraction in
  lowest terms, kept so by a greatest common divisor (`Fractions`), which exists and
  is never zero because a fraction is only made of a denominator that is not: the
  proof is that every division in the code is by shares that are there, also when
  a stale preview is applied to a position that was sold meanwhile.
* `NoCostIsLost`: `CostIsConserved`, if one session posts at a time (`Undisturbed`;
  no trade is of no shares, as the schema says).  Equal costs are equal fractions
  because lowest terms are unique.  The exceptions are stated as conditions on the
  journal (`BasisRemains`), and are among the differences listed below: a split that
  takes shares, whose cost is booked as a loss while the average is set so that none
  is lost; a return of capital beyond the basis, which stops at zero; and the
  reversal of a return of capital, which does not give the basis back.
* `PastIsCovered`: whatever sessions race, no replay of a journal that was posted in
  order shows negative shares or cash (`HistoryIsCovered`).  `Replayed` says what
  folding the first events gives, that there is such a fold and only one; the
  invariant (`Covered`) says that of every prefix of the journal.  A replay sorts
  the events through its cutoff; posted in order, these are a prefix as it lies
  (`ReplayedInOrder`).  The sort is written by the place of each event among the
  others, which is what a stable sort does and is a formula without recursion.
* `JournalTellsAll`: `JournalIsEnough`, if one session posts at a time, events are
  posted in order, and no split took shares and no return of capital was reversed
  (`Ordinary`).  The invariant (`Follows`) is that folding the whole journal gives
  the position and the cash as they are, average cost and realized profit included.
  Its steps: a fold does with the legs of a trade what its posting did
  (`FoldFollowsPosting`), and arrives by itself at the average that the
  application of a corporate action writes (`FoldFollowsApplication`).
* `CapitalAlwaysStands`: `CapitalCountsWhatStands`, the first half of `FlowsAgree`, for
  any number of sessions.  The invariant (`Reversals`) is that a reversal moves the
  opposite cash of an earlier event, that no event is undone twice, and that no capital
  is dated ahead.  The capital of a replay is a sum over events (`CapitalIs`), of which
  a deposit and its reversal are two entries that cancel.
* `FlowsAlwaysAgree`: the other half too, `BucketsMatchReplays`, unless something was
  reversed before it occurred (`UndoneAfterwards`; what happens then is among the
  remarks below).  The journal's events come in turn (`EventsAreOrdered`), so the cursor of the pass only moves forward; `PassIsAt`
  says where it stands after the first events and that every bucket has the flows
  of the events of its window among them (`PassStep`).  Boundaries ascend
  (`BoundariesAre`), and a reversal keeps the type it had in its own window
  (`TypeStands`).

`PerformanceProofs` (any tape of closes, any length of a day), from the inductive
invariant `Measured`: `WholeNumbers`, `Reversals`, and of every snapshot that its cash
is what a set of events by its cutoff moved, as many as it says it knows
(`SnapshotsTaken`).  It holds of `PerformanceSpec`, in which snapshots are taken at any
time between the steps of `Holdings`.

* `GainsAreThePortfolios`: a snapshot that knows as many events as there are by its
  cutoff knows all of them (`FreshIs`).  The cash of two of them then differs by what
  was paid between, which is capital or the portfolio's own (`OwnIsTheRest`); the flows
  of the one pass are that capital (`FlowsBetweenAre`).
* `MeasuredReturnsAlwaysStand`: an event after the last cutoff is in no window and is
  undone by none in one, and the mark of a reversal is not read (`SameReturns`).
* `ReturnsAlwaysAgree`: `GrownPass` says what linking the first days gives.  Without
  flows the product telescopes to the last value over the first (`GrownByValue`,
  `GrowthOfTheValue`); days that do not lose keep it at one or more (`GrownByGain`,
  `NoLossShown`), which is where the refusal of a base that is not positive
  is needed; and what XIRR discounts sums up to the gains (`SameFlowsSeen`).

`CalendarProofs` (any zones, hours and length of a day):

* `CompletedClose`, `NextOpening`: the searches for the last completed close and the
  next opening end at the day they should, and pass over none.  The searches are
  recursive functions on all integers; since a weekend is no longer than two
  days they equal `WeekdayBefore` and `WeekdayAfter`, which are not recursive.

`SnapshotsProofs` (any portfolios, requests, calendar and threads), from the
inductive invariant `Consistent`: a row was made of a prefix of the journal at an
instant that has passed; a valuation under way knows no less than the row it will
replace, and replaces one only by force; the cron's requests are those of clients.

* `SnapshotTypesCorrect`: no rebuild runs past today, whatever range it is asked for.
* `PassedDatesStayValued`: a rebuild's passed dates keep their rows.  `Passed` adds
  that a rebuild only moves to the next date once the date has a row.
* `RevisionsOnlyMoveForward`: a row is replaced by force only, by one that knows no
  fewer events and is as of no earlier instant; the unique key and the deletion
  by id are what make it so.
* `NothingIsForeseen`: `PriceInv` says that a pricer remembers only bars that were
  over at the cutoff of a date before, so that what it hands on to the next date is
  over then too, across midnights; and that what rows were priced with was over.
* `FreshestCloseIsAlwaysUsed`: from `PriceInv` and `CompletedClose`.  A bar that is
  remembered and of the completed day is the freshest; otherwise it is loaded.

`MarketDataProofs` (any markets, months, lifetimes, currencies, rates and requests):

* `SessionsAreToldAlways`, from `NextOpening`; `RecentInSession`, from `QuotesInv`: the
  row and what a reader holds are prices of instants no earlier than they say.
* `ClearedStaysCleared`: once `clear_ticker` is through, what is kept was fetched
  since, or stored within the time of a request by one that had fetched before.
  `Cleared` orders the times: a request began, fetched and stored within
  `FillTicks`, and months still to be deleted are excepted.
* `AnswersAreTheProviders`: an answer has every bar of its range, each as the provider
  had it a lifetime and a request ago or later.  `HistoryInv` says so of every
  bucket and of what every request has gathered.  The theorem assumes that
  the short lifetime is no longer than a day (ten minutes by default, `config.py:27`),
  as an unfinished day might otherwise outlive its month.
* `NewestRateIsUsedAlways`, `PublishedPairsAlwaysConvert`: `Sound` says that the rates
  a report holds were published and that, unless asking failed, it holds all of a
  range it calls covered; a conversion extends a sound service to a sound one,
  through the inverse and any chain of intermediaries.
* `MarketTypesCorrect`: the types of the three, and that a report with uncommitted
  rates holds the write lock.

`ReportsProofs` (any portfolios, lists, transfers, holdings, rates, listings and
threads):

* `MembersAreTheLastAsked`: unless two replacements overlapped, the open rows are
  those of the last one, but for portfolios deleted since.  `GroupsInv` says
  that a portfolio has one open row, that what a live replacement has read is
  what is open, and that no row begins or ends in the future, which is why a
  summary of now and the series see the same members.
* `HistoryStays`: the past of a group is not restated.  `Paced` bounds how far back a
  replacement reaches: it writes within `EditTicks` of its reading the clock, and
  rows it read and others ended since were ended no earlier than that.
* `TypesCorrect`, from `NavInv`, which extends `GroupsInv` to the journal, the stored
  snapshots and the series.
* `CompletePointsCover`, `EqualCountsAreAlike`: an account has begun for good from its
  first event or snapshot on, so the accounts of a later complete point contain
  those of an earlier one, and sets of one size that contain each other are equal.
* `ReportsDropNothing`: the total of a summary is the sum over the currencies of
  rate times exposure, and what did not convert is listed.  `SummaryOK` gives the
  shape of a summary in every turn of its loop; the rest is sums over finite sets,
  taken apart by currency.
* `SummariesAreOfTheirCutoff`: the value of a summary, by currency, is the sum of what
  its portfolios are worth at its cutoff, by portfolio; and so is what is owed.
  `SummaryOK` says that the cash and the debt of every currency are the sums over
  the portfolios read so far (`CashAddsUp`) and that the rows of a portfolio are its
  holdings then (`RowsAreHoldings`).  Both stand while transfers are posted, unless
  one is dated before the cutoff.  The sums by currency and by portfolio are
  exchanged with `SumOnParts`.
* `SeriesAndSummaryAgree`: a stored snapshot was made of as many entries as it says
  (`MadeOf`), so if the journal has no more by the same instant they are the same
  entries; one row for each member makes a sum over rows one over members; and a
  summary read in one go, which is a fold over the members, has read all of them
  (`AtOnceIs`).
* `LastWordWins`: unless two requests wrote one row at a time, what a request has
  read is what the row still is (`ReadsAreCurrent`), so a partial update is a full
  one, and rows tell what was said last.
* `MappingsAgree`: unless two mappings both found no issuer of a name, the name has
  one issuer, and what a mapping found, or did not find, is still so when it
  writes (`LookupsAreCurrent`).  What it read of the listing is the listing's issuer
  or the mapping was overtaken, so that an `issuer_id` that is not written is the
  right one already.

Only model-checked: `EveryDayIsValued` is liveness under fairness, which is out of the prover's reach,
as is ENABLED; the runs check that nothing deadlocks.

## Found while modelling

1. An event can be reversed twice by two concurrent sessions (`postings.py:525`): its
   effect is then mirrored instead of undone (`ledger_double_reversal`).
2. An application posts legs and writes an average cost computed before its session
   held the lock; a trade in between leaves a holding that no preview showed and
   that the application row misstates (`corporate_actions.py:446`,
   `holdings_stale_preview`).
3. The cron does not pick up a late price correction, as its docstring says: a date
   that has a snapshot is skipped (`valuation.py:352`, `snapshots_correction`).
4. The rates a report fetches are flushed and never committed (`fx.py:310`), so
   none is "kept so a conversion can be audited or reproduced" (`fx_kept`).
5. A value point made of a snapshot with an unpriced holding is called complete
   (`nav_series.py:344`, `nav_understated`).

Remarks without a run of their own.

Postings:

* A retried reversal is refused as already reversed (`postings.py:525`), though the
  API promises that a retry of the same body with the same id is safe; and a
  reversal under an id in use is answered with that event (`postings.py:548`), not
  with the promised conflict.  `RetryIsAnswered` and `AnswerNamesTheRequest` are
  therefore stated of postings and transfers.
* After one book of a transfer is deleted, the half in the other book can be
  reversed by no operation (`transfers.py:121`).
* The comment at `postings.py:53-55`, that a new kind of book is refused securities
  by default, is wrong: the test asks for membership in the kinds refused.
* Two replacements of one position's tags leave the union (`services.py:583`).

One book over time:

* Reversing a sale buys the shares back at their sale price and keeps the realized
  profit (`postings.py:556`), against "restores the prior position and cash
  exactly" (`journal.py:295-296`).  Conservation of cost holds all the same.
* A reverse split books the cost of the shares that disappear as a realized loss
  (`corporate_actions.py:301`), and the replayed average cost differs from the live
  one, since the override is not in the journal, though `replay.py:222` wants the
  two to agree.  The instances have only a split that adds shares.
* The income of a reversed dividend is added a second time, because `replay.py:316`
  takes the absolute value of the inverted leg.
* Reversing a return of capital takes the cash back and leaves the reduced average
  cost, which the replay of the reversal does restore: the mix `actions` reverses
  every other type.
* A sale may be dated before the purchase that covers it, since only the live
  position is checked: a replay in between is short, which the comment at
  `replay.py:239` excludes.  `HistoryIsCovered` is therefore stated of journals that
  were posted in order.
* `flows_by_bucket` is not "Equivalent to calling `replay_state(...)`" for each window,
  as its docstring says (`replay.py:153-154`), if an action dated ahead is applied and
  reversed before that date: a replay up to a cutoff in between does not know what the
  reversal undoes and classifies it as unknown, the single pass knows all events
  through the last boundary and takes it for income.  `BucketsMatchReplays` as the
  invariant of `holdings` fails within 250 states of the mix `early`; the need for
  the condition `UndoneAfterwards` in `FlowsAgree` came out of its proof.
* A backdated event against stored snapshots gives a return that never was, and
  `is_reliable` stays true: `GainsComeFromThePortfolio` is stated of snapshots nothing
  has been dated before since.
* A day's return can be below −100 % when a flow is larger than the base, and two
  such days multiply to a gain, against the comment at `performance.py:205`.

Valuation and market data:

* A snapshot taken before its day is over, as the cron's of midnight is, stays until
  a revision is forced.
* History is not fetched "once for the whole range": every date whose last bar is
  older is fetched again (`valuation.py:67-68`, `318-321`).
* The lifetime of a quote is computed when it is read (`sessions.py:10`): a quote
  from before or during the session is served unmarked while the market is closed.
* The month may turn between a fetch and its store (`cache.py:265`): an unfinished
  month is then kept with the long lifetime.  `AnswersMatchTheProvider` leaves out
  the last day of a month.  A clear that races a fill leaves the bars of before
  for a lifetime (`cache.py:308`), and an answer may mix months adjusted before and
  after a split.
* A report that fetched a rate holds the database's write lock until it ends, also
  while it fetches others: postings may give up (`LockedOut`).  A prefetch that
  failed still counts as covering its range (`fx.py:259`), and rates inside it that
  are stored for an earlier day are not asked for again (`fx.py:208`), against the
  comment at `fx.py:260-262`, that a failed prefetch must not suppress "the per-date
  fetch that would have succeeded"; the inverse of a pair is not
  prefetched; and a pair without a rate in one window is failed for the report if
  the provider was asked (`market.py:304`); if the history cache answers from months
  it has, there is no error (`cache.py:225`), and the pair is asked for again.  `Outages`
  has both, alike for all pairs of a conversion.

Reports and identity:

* Replacing members by a list that names a portfolio twice ends in a constraint
  error; overlapping replacements may leave two open rows of one portfolio, of which
  a later removal closes one.  `MembersAreThoseAsked` excepts overlaps.
* One provider gap may leave a ticker priced in one row of a summary and unpriced
  in another.  With debt that does not convert, coverage may exceed the whole:
  `CoverageIsAShare` excepts it.
* Equal numbers of contributing accounts can hide different accounts if snapshots
  of nothing were stored for one before it began; `LikeWithLike` excepts them.
* An override written while a retraction is between its read and its write is lost,
  since only changed columns are written; two mappings of one new name at a time
  create two issuers.  Both are the `raced` exceptions of the properties.  A mapping
  back to the issuer that `map_issuer` read, of a listing that another request mapped
  elsewhere meanwhile, answers with success and writes nothing (`identity.py:451` leaves
  the unchanged column out): the listing stays with the other company, against
  the docstring's "lets issuer-level exposure aggregate".  `WriteIssuer` reproduces
  it, as `lost`, and `ListingsShareTheIssuer` says nothing of that listing until it is
  mapped again.  A first
  lookup of an instrument by two requests collides on its key, and a refresh
  overwrites `is_fund`.

## Not modelled

Technical indicators, annualizing and the root search of XIRR (floating point);
the MCP server (each tool forwards to a route and keeps nothing); the frontend;
schema migrations (run with the service stopped).  Of the HTTP API, routing,
validation, paging and response shapes.  Of books, renaming, tags and the live
summary.  Of groups, renaming and the order of tables.  Of identity, aliases (rows
that are only ever added) and the table from quote types to asset classes.  Decimal rounding at 28 digits, daylight saving, and the encodings of
Redis and of the provider's answers.

## Plan

1. Postings, holdings, snapshots and the cron, market data, reports, performance
   and identity: modelled and checked (done), one theorem module for each family
   (done).
2. The live summary and tags of `services.py`, beside `Ledger`.
3. Proofs of the properties of the passing runs: done but for liveness.  Next, what
   no run asks yet of the modules that are modelled in part: the coverage notes of
   performance, and the weights by asset class of a consolidated summary.
