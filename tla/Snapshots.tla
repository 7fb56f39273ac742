----------------------------- MODULE Snapshots -----------------------------
(***************************************************************************)
(* Valuation snapshots: what a portfolio was worth at the end of a day, or *)
(* so far into it, from a replay of its journal and the closes known then; *)
(* range rebuilds of them, requested by clients and, once a day, by the    *)
(* cron; and the pricer that one rebuild uses for all of its dates.        *)
(*                                                                         *)
(* A portfolio holds one security.  An event of its journal is when it     *)
(* occurred and the shares it adds; Replay shows what a replay of a real   *)
(* journal gives.  A close is a version of itself: 0 while the provider    *)
(* does not have it, 1 and on as it is corrected.                          *)
(***************************************************************************)
EXTENDS Calendar, Sequences, FiniteSets

CONSTANTS
  Portfolios,     \* in the order they were created
  Market,         \* of the security
  ReportZone,     \* distance of the report timezone from UTC
  Workers,        \* request-serving threads
  Requests,       \* the rebuilds clients may ask for
  Lookback,       \* PORTFOLIO_SNAPSHOT_LOOKBACK_DAYS
  FirstDay, LastDay,  \* the days the clock passes through
  Postings,       \* the events clients may post
  Budgets         \* bounds on what happens around the rebuilds in one behaviour

\* Nothing happened before the first day, but the first run of the cron values
\* the days before it.
Days == FirstDay - Lookback .. LastDay
Clock == {t \in FirstDay * DayLength .. (LastDay + 1) * DayLength - 1 : Today(t, ReportZone) <= LastDay}
PortfolioSet == {Portfolios[i] : i \in DOMAIN Portfolios}

\* A rebuild from one day to another, with or without force_revision.
PostingSet == [portfolio: PortfolioSet, occurred: Int, quantity: Int]
BudgetSet == [events: Nat, corrections: Nat, deletions: Nat, requests: Nat, failures: Nat]
RequestSet == [portfolio: PortfolioSet, from: Days, to: Int, force: BOOLEAN]

ASSUME SnapshotsAssumption ==
  /\ FirstDay \in Int /\ LastDay \in Int /\ FirstDay <= LastDay
  /\ ReportZone \in Int /\ Lookback \in Nat /\ FirstDay * DayLength \in Clock
  /\ Portfolios \in Seq(PortfolioSet)
  /\ Requests \subseteq RequestSet
  /\ Postings \subseteq PostingSet
  /\ Budgets \subseteq BudgetSet

VARIABLES
  now,            \* the clock, in UTC
  portfolios,     \* those not deleted
  journal,        \* journal[p]: the events of p, in the order they were posted
  closes,         \* closes[d]: the version of the close of day d the provider has
  snapshots,      \* snapshots[p][d]: the row of p for d
  revision,       \* the id of the next row
  session,        \* session[w]: the rebuild w is serving
  cron,           \* the process of snapshot_cron
  budget          \* what is left of the bounds

vars == <<now, portfolios, journal, closes, snapshots, revision, session, cron, budget>>
environment == <<now, portfolios, journal, closes>>

\* No row has the id 0.
NoRow == [id |-> 0]
\* ReportTime.cutoff is in range: a rebuild stops at today.
Row == [id: Nat \ {0}, asOf: Int, knows: Nat, quantity: Int, priced: BOOLEAN, close: Int, version: Nat]
Pricer == [failed: BOOLEAN, bars: SUBSET (Int \X Nat)]
NewPricer == [failed |-> FALSE, bars |-> {}]

Idle == [at |-> "idle"]
Rebuilds ==
  [at: {"next"}, request: RequestSet, last: {d \in Int : d <= LastDay}, day: Days \cup {LastDay + 1},
   pricer: Pricer]
Valuations ==
  [at: {"value"}, request: RequestSet, last: Days, day: Days, pricer: Pricer,
   existing: {NoRow} \cup Row, asOf: Int, knows: Nat, quantity: Int]

\* The cron is down, sleeps until `wake', or works through the portfolios
\* from todo on; `server' is the thread that serves its open request.
CronStates ==
  [at: {"down"}] \cup [at: {"asleep"}, wake: Int] \cup
  [at: {"start"}] \cup [at: {"loop"}, todo: Nat, day: Int] \cup
  [at: {"request"}, todo: Nat, day: Int, server: Workers]

TypeOK ==
  /\ now \in Clock
  /\ portfolios \subseteq PortfolioSet
  /\ journal \in [PortfolioSet -> Seq([occurred: Int, quantity: Int])]
  /\ closes \in [Days -> Nat]
  /\ snapshots \in [PortfolioSet -> [Days -> {NoRow} \cup Row]]
  /\ revision \in Nat \ {0}
  /\ session \in [Workers -> {Idle} \cup Rebuilds \cup Valuations]
  /\ cron \in CronStates
  /\ budget \in BudgetSet

Init ==
  /\ now = FirstDay * DayLength
  /\ portfolios = PortfolioSet
  /\ journal = [p \in PortfolioSet |-> << >>]
  /\ closes = [d \in Days |-> 0]
  /\ snapshots = [p \in PortfolioSet |-> [d \in Days |-> NoRow]]
  /\ revision = 1
  /\ session = [w \in Workers |-> Idle]
  /\ cron = [at |-> "start"]
  /\ budget \in Budgets

Spend(what) == budget[what] > 0 /\ budget' = [budget EXCEPT ![what] = @ - 1]

-----------------------------------------------------------------------------
(* The world around the rebuilds *)

\* The cron's run, whose requests end after 60 seconds each, is over before the
\* next midnight.
CronIsQuick ==
  Day(now + 1, 0) # Day(now, 0) => cron.at = "asleep" /\ cron.wake > now

Tick ==
  /\ now + 1 \in Clock
  /\ CronIsQuick
  /\ now' = now + 1
  /\ UNCHANGED <<portfolios, journal, closes, snapshots, revision, session, cron, budget>>

\* A client posts an event that occurred now or earlier.
PostEvent(e) ==
  /\ Spend("events")
  /\ e.portfolio \in portfolios /\ e.occurred <= now
  /\ journal' = [journal EXCEPT ![e.portfolio] =
       Append(@, [occurred |-> e.occurred, quantity |-> e.quantity])]
  /\ UNCHANGED <<now, portfolios, closes, snapshots, revision, session, cron>>

\* While a market is open the provider already answers with a bar of the day.
Trades(d) == \E t \in d * DayLength - DayLength .. now : Day(t, MARKET_SESSIONS[Market].zone) = d /\ IsMarketOpen(Market, t)

PublishClose(d) ==
  /\ closes[d] = 0
  /\ Market \in DOMAIN MARKET_SESSIONS => Trades(d)
  /\ Market \notin DOMAIN MARKET_SESSIONS => d <= Day(now, 0)
  /\ closes' = [closes EXCEPT ![d] = 1]
  /\ UNCHANGED <<now, portfolios, journal, snapshots, revision, session, cron, budget>>

CorrectClose(d) ==
  /\ closes[d] > 0
  /\ Spend("corrections")
  /\ closes' = [closes EXCEPT ![d] = @ + 1]
  /\ UNCHANGED <<now, portfolios, journal, snapshots, revision, session, cron>>

\* delete_portfolio: the rows of its snapshots go with it.
DeletePortfolio(p) ==
  /\ Spend("deletions")
  /\ p \in portfolios
  /\ portfolios' = portfolios \ {p}
  /\ snapshots' = [snapshots EXCEPT ![p] = [d \in Days |-> NoRow]]
  /\ UNCHANGED <<now, journal, closes, revision, session, cron>>

-----------------------------------------------------------------------------
(* One rebuild *)

Earlier(x, y) == IF x < y THEN x ELSE y

\* get_portfolio, and the test of the range.
Accepted(request) == request.portfolio \in portfolios /\ request.from <= request.to

\* Mutant: a range may end in the future.
BeginToTheEnd(w, request) ==
  /\ session[w] = Idle
  /\ Accepted(request)
  /\ session' = [session EXCEPT ![w] =
       [at |-> "next", request |-> request, day |-> request.from, last |-> request.to, pricer |-> NewPricer]]

\* rebuild_snapshots up to its loop.
Begin(w, request) ==
  /\ session[w] = Idle
  /\ Accepted(request)
  /\ session' = [session EXCEPT ![w] =
       [at |-> "next", request |-> request, day |-> request.from,
        last |-> Earlier(request.to, Today(now, ReportZone)), pricer |-> NewPricer]]

RequestRebuild(w, request) ==
  /\ Spend("requests")
  /\ Begin(w, request)
  /\ UNCHANGED <<environment, snapshots, revision, cron>>

RefuseRebuild(request) == ~Accepted(request) /\ UNCHANGED vars

\* The loop is done: the answer is sent.
Finish(w) ==
  /\ session[w].at = "next" /\ session[w].day > session[w].last
  /\ session' = [session EXCEPT ![w] = Idle]
  /\ UNCHANGED <<environment, snapshots, revision, cron, budget>>

\* On to the next date of the range, with the pricer as it is by now.
NextDate(s, pricer) ==
  [at |-> "next", request |-> s.request, last |-> s.last, day |-> s.day + 1, pricer |-> pricer]

Gone(w) == session[w].request.portfolio \notin portfolios

\* get_portfolio fails: the date is reported as failed and the next one tried.
FailDate(w) ==
  /\ session[w].at = "next" /\ session[w].day <= session[w].last
  /\ Gone(w)
  /\ session' = [session EXCEPT ![w] = NextDate(@, @.pricer)]
  /\ UNCHANGED <<environment, snapshots, revision, cron, budget>>

\* _existing_snapshot
Existing(w) == snapshots[session[w].request.portfolio][session[w].day]

Skip(w) ==
  /\ session[w].at = "next" /\ session[w].day <= session[w].last
  /\ Existing(w) # NoRow /\ ~session[w].request.force
  /\ session' = [session EXCEPT ![w] = NextDate(@, @.pricer)]
  /\ UNCHANGED <<environment, snapshots, revision, cron, budget>>

Holding(p, cutoff) ==
  LET events == journal[p]
      sum[i \in 0..Len(events)] ==
        IF i = 0 THEN 0 ELSE
        sum[i - 1] + (IF events[i].occurred <= cutoff THEN events[i].quantity ELSE 0)
  IN  sum[Len(events)]

\* create_snapshot up to the prices: the cutoff, the row to replace, the replay.
LookUp(w) ==
  LET s == session[w]
      cutoff == Cutoff(s.day, now, ReportZone)
  IN  /\ s.at = "next" /\ s.day <= s.last
      /\ ~Gone(w)
      /\ Existing(w) # NoRow => s.request.force
      /\ session' = [session EXCEPT ![w] =
           [at |-> "value", request |-> s.request, last |-> s.last, day |-> s.day, pricer |-> s.pricer,
            existing |-> Existing(w), asOf |-> cutoff, knows |-> Len(journal[s.request.portfolio]),
            quantity |-> Holding(s.request.portfolio, cutoff)]]
      /\ UNCHANGED <<environment, snapshots, revision, cron, budget>>

\* Mutant: the day's own bar, be it finished or not.
PriceDateToday(s) == s.day
PriceDate(s) == Earlier(s.day, CompletedPriceDate(s.asOf, Market))

\* HistoricalPricer._load: the provider's bars up to the date, not farther back
\* than the first date of the range and the month before it.
LookbackDays(s) == s.last - s.request.from + 30
Bars(s, date) ==
  {<<d, closes[d]>> : d \in {d \in Days : closes[d] > 0 /\ d <= date /\ d >= date - LookbackDays(s)}}

Loaded(bars) == [failed |-> bars = {}, bars |-> bars]

\* Mutant: what was fetched once is never fetched again.
ReloadsOnce(pricer, date) == ~pricer.failed /\ pricer.bars = {}

\* price_at fetches when it has nothing, or nothing as late as the date.
Reloads(pricer, date) == ~pricer.failed /\ \A bar \in pricer.bars : bar[1] < date

\* The pricer after price_at, the provider being up or not.
Priced(s, up) ==
  IF s.quantity = 0 \/ ~Reloads(s.pricer, PriceDate(s)) THEN s.pricer
  ELSE Loaded(IF up THEN Bars(s, PriceDate(s)) ELSE {})

Usable(s, pricer) == {bar \in pricer.bars : bar[1] <= PriceDate(s)}

\* _build_snapshot.  A price of day 0 stands for none.
NewRow(s, pricer) ==
  LET bars == IF s.quantity = 0 THEN {} ELSE Usable(s, pricer)
      last == CHOOSE bar \in bars : \A other \in bars : other[1] <= bar[1]
  IN  [id |-> revision, asOf |-> s.asOf, knows |-> s.knows, quantity |-> s.quantity,
       priced  |-> bars # {},
       close   |-> IF bars = {} THEN 0 ELSE last[1],
       version |-> IF bars = {} THEN 0 ELSE last[2]]

\* Mutant: a revision replaces whatever row the date has.
StoreReplaces(w, up) ==
  LET s == session[w]
      p == s.request.portfolio
      pricer == Priced(s, up)
  IN  /\ s.at = "value" /\ ~Gone(w)
      /\ up \/ (pricer # s.pricer)
      /\ IF up THEN UNCHANGED budget ELSE Spend("failures")
      /\ snapshots' = [snapshots EXCEPT ![p][s.day] = NewRow(s, pricer)]
      /\ revision' = revision + 1
      /\ session' = [session EXCEPT ![w] = NextDate(s, pricer)]
      /\ UNCHANGED <<environment, cron>>

\* The rest of create_snapshot: prices, then DELETE, INSERT and COMMIT.  The
\* unique key admits one row of a date; the row to replace is deleted by its id.
StoreSnapshot(w, up) ==
  LET s == session[w]
      p == s.request.portfolio
      pricer == Priced(s, up)
  IN  /\ s.at = "value"
      /\ ~Gone(w) /\ snapshots[p][s.day] \in {NoRow, s.existing}
      /\ up \/ (pricer # s.pricer)
      /\ IF up THEN UNCHANGED budget ELSE Spend("failures")
      /\ snapshots' = [snapshots EXCEPT ![p][s.day] = NewRow(s, pricer)]
      /\ revision' = revision + 1
      /\ session' = [session EXCEPT ![w] = NextDate(s, pricer)]
      /\ UNCHANGED <<environment, cron>>

\* Mutant: the old row is deleted in a transaction of its own.
CollideAfterDelete(w) ==
  LET s == session[w]
  IN  /\ s.at = "value"
      /\ Gone(w) \/ (snapshots[s.request.portfolio][s.day] \notin {NoRow, s.existing})
      /\ session' = [session EXCEPT ![w] = Idle]
      /\ snapshots' = [snapshots EXCEPT ![s.request.portfolio][s.day] = NoRow]
      /\ UNCHANGED <<environment, revision, cron, budget>>

\* Another rebuild was faster, or the portfolio is gone: the INSERT fails on the
\* unique or the foreign key, which is no DomainError, and the request ends there.
Collide(w) ==
  LET s == session[w]
  IN  /\ s.at = "value"
      /\ Gone(w) \/ (snapshots[s.request.portfolio][s.day] \notin {NoRow, s.existing})
      /\ session' = [session EXCEPT ![w] = Idle]
      /\ UNCHANGED <<environment, snapshots, revision, cron, budget>>

Serve(w) ==
  \/ Finish(w) \/ FailDate(w) \/ Skip(w) \/ LookUp(w) \/ Collide(w)
  \/ \E up \in BOOLEAN : StoreSnapshot(w, up)

-----------------------------------------------------------------------------
(* The cron *)

\* The first midnight to come.
NextRun == (Day(now, 0) + 1) * DayLength

\* GET of the portfolios, and date.today().
CronAsks ==
  /\ cron.at = "start"
  /\ cron' = [at |-> "loop", todo |-> 1, day |-> Day(now, 0)]
  /\ UNCHANGED <<environment, snapshots, revision, session, budget>>

\* No try surrounds the GET: the process ends, and the container starts again.
CronDies ==
  /\ cron.at = "start"
  /\ Spend("failures")
  /\ cron' = [at |-> "down"]
  /\ UNCHANGED <<environment, snapshots, revision, session>>

CronRestarts ==
  /\ cron.at = "down"
  /\ cron' = [at |-> "start"]
  /\ UNCHANGED <<environment, snapshots, revision, session, budget>>

\* Mutant: a run asks for its own day only.
CronRequestsToday(p) == [portfolio |-> p, from |-> cron.day, to |-> cron.day, force |-> FALSE]
CronRequest(p) == [portfolio |-> p, from |-> cron.day - Lookback, to |-> cron.day, force |-> FALSE]

CronPosts(w) ==
  /\ cron.at = "loop" /\ cron.todo <= Len(Portfolios)
  /\ Begin(w, CronRequest(Portfolios[cron.todo]))
  /\ cron' = [at |-> "request", todo |-> cron.todo, day |-> cron.day, server |-> w]
  /\ UNCHANGED <<environment, snapshots, revision, budget>>

\* The POST does not reach the server, or is answered with an error of its own.
CronPostFails ==
  /\ cron.at = "loop" /\ cron.todo <= Len(Portfolios)
  /\ Spend("failures")
  /\ cron' = [cron EXCEPT !.todo = @ + 1]
  /\ UNCHANGED <<environment, snapshots, revision, session>>

\* The portfolio was deleted since the GET: 404, and on to the next.
CronIsRefused ==
  /\ cron.at = "loop" /\ cron.todo <= Len(Portfolios)
  /\ Portfolios[cron.todo] \notin portfolios
  /\ cron' = [cron EXCEPT !.todo = @ + 1]
  /\ UNCHANGED <<environment, snapshots, revision, session, budget>>

\* The request is answered or has died: on to the next portfolio.
CronGoesOn ==
  /\ cron.at = "request" /\ session[cron.server] = Idle
  /\ cron' = [at |-> "loop", todo |-> cron.todo + 1, day |-> cron.day]
  /\ UNCHANGED <<environment, snapshots, revision, session, budget>>

\* Or 60 seconds have passed: the cron goes on, and so does the server.
CronTimesOut ==
  /\ cron.at = "request" /\ session[cron.server] # Idle
  /\ Spend("failures")
  /\ cron' = [at |-> "loop", todo |-> cron.todo + 1, day |-> cron.day]
  /\ UNCHANGED <<environment, snapshots, revision, session>>

CronSleeps ==
  /\ cron.at = "loop" /\ cron.todo > Len(Portfolios)
  /\ cron' = [at |-> "asleep", wake |-> NextRun]
  /\ UNCHANGED <<environment, snapshots, revision, session, budget>>

CronWakes ==
  /\ cron.at = "asleep" /\ now >= cron.wake
  /\ cron' = [at |-> "start"]
  /\ UNCHANGED <<environment, snapshots, revision, session, budget>>

CronSteps ==
  \/ CronAsks \/ CronRestarts \/ CronIsRefused \/ CronGoesOn \/ CronSleeps \/ CronWakes
  \/ \E w \in Workers : CronPosts(w)

-----------------------------------------------------------------------------
Next ==
  \/ Tick
  \/ \E e \in Postings : PostEvent(e)
  \/ \E p \in PortfolioSet : DeletePortfolio(p)
  \/ \E d \in Days : PublishClose(d) \/ CorrectClose(d)
  \/ \E w \in Workers, r \in Requests : RequestRebuild(w, r)
  \/ \E r \in Requests : RefuseRebuild(r)
  \/ \E w \in Workers : Serve(w)
  \/ CronSteps \/ CronDies \/ CronPostFails \/ CronTimesOut

\* Time passes, threads serve what they began, and the cron does not stop
\* between two of its statements.  Nothing is assumed of clients, of the
\* provider, or of when a request fails.
Fairness ==
  /\ WF_vars(Tick)
  /\ \A w \in Workers : WF_vars(Serve(w))
  /\ WF_vars(CronSteps)

Spec == Init /\ [][Next]_vars
FairSpec == Spec /\ Fairness

-----------------------------------------------------------------------------
(* Properties *)

Rows == {pd \in PortfolioSet \X Days : snapshots[pd[1]][pd[2]] # NoRow}
RowOf(pd) == snapshots[pd[1]][pd[2]]

\* A snapshot uses what was known at its own instant: a close of the date or
\* earlier whose session was over by then, however late it is taken, from a
\* pricer that has seen other dates, and from a provider that answers with
\* the bar of a day that is still trading.
NoLookAhead ==
  \A pd \in Rows :
    LET row == RowOf(pd)
    IN  /\ row.asOf <= now /\ row.asOf <= EndOfDay(pd[2], ReportZone)
        /\ row.priced => (row.close <= pd[2] /\ Over(Market, row.close, row.asOf))

\* The dates that a rebuild has passed stay valued while the portfolio exists:
\* neither a collision with another rebuild nor a forced revision loses a row.
PassedDatesAreValued ==
  \A w \in Workers :
    (session[w] # Idle /\ ~Gone(w)) =>
      \A d \in session[w].request.from .. session[w].day - 1 :
        snapshots[session[w].request.portfolio][d] # NoRow

Replaced(pd) ==
  pd \in Rows /\ RowOf(pd)' # RowOf(pd) /\ pd[1] \in portfolios'

\* A stored value is history: only a rebuild with force_revision replaces it,
\* by one that knows every event the old one knew and is as of no earlier instant.
RevisionsMoveForward ==
  [][\A pd \in PortfolioSet \X Days : Replaced(pd) =>
       /\ \E w \in Workers : session[w] # Idle /\ session[w].request.force /\ session[w].day = pd[2]
       /\ RowOf(pd)' # NoRow
       /\ RowOf(pd)'.knows >= RowOf(pd).knows /\ RowOf(pd)'.asOf >= RowOf(pd).asOf]_vars

\* No newer close that the provider has and the cutoff admits is passed over
\* for an older one the pricer remembers; a holding stays without a price only
\* if a fetch of this rebuild failed or found nothing.
FreshestCloseIsUsed ==
  [][\A pd \in PortfolioSet \X Days :
       (RowOf(pd)' # RowOf(pd) /\ RowOf(pd)' # NoRow) =>
         LET row == RowOf(pd)'
         IN  IF row.priced
             THEN \A d \in Days : (closes[d] > 0 /\ d <= pd[2] /\ Over(Market, d, row.asOf)) => d <= row.close
             ELSE row.quantity # 0 => \E w \in Workers : session'[w] # Idle /\ session'[w].pricer.failed]_vars

\* Every day is valued sooner or later, if a run of its window gets through,
\* although other runs die, fail, time out and collide with clients: what one
\* leaves out a later one fills in.
EveryDayIsValued ==
  \A p \in PortfolioSet, d \in FirstDay .. LastDay - 1 :
    <>(p \notin portfolios \/ snapshots[p][d] # NoRow)

\* The comment of the cron: a late price correction is picked up by the next run.
Outdated(p, d) ==
  p \in portfolios /\ snapshots[p][d] # NoRow /\ snapshots[p][d].priced
  /\ closes[snapshots[p][d].close] > snapshots[p][d].version
NextRunCovers(d) ==
  cron.at = "asleep" /\ Day(cron.wake, 0) <= LastDay /\ d >= Day(cron.wake, 0) - Lookback
LateCorrectionIsPickedUp ==
  \A p \in PortfolioSet, d \in Days :
    (Outdated(p, d) /\ NextRunCovers(d)) ~> ~Outdated(p, d)
=============================================================================
