------------------------------- MODULE Quotes -------------------------------
(***************************************************************************)
(* The quote of one instrument: the row of quote_cache, how long it is     *)
(* served, and the requests that refresh it.                               *)
(*                                                                         *)
(* The tape gives the last trade at every instant; outside the session of  *)
(* the market it does not move.  A request reads the row and the clock,    *)
(* asks the provider, and saves; requests of several threads interleave.   *)
(***************************************************************************)
EXTENDS Calendar

CONSTANTS
  Markets,        \* the markets instruments may be of
  Prices,
  NoQuote,
  OpenTtl,        \* PORTFOLIO_QUOTE_TTL_SECONDS, in ticks
  RequestTicks,   \* the longest a request takes: the provider's time limit
  Starts,         \* the instants at which behaviours begin
  QuoteHorizon,   \* how many ticks they last
  Readers         \* request-serving threads

\* A row of quote_cache.
Quote == [price: Prices, fetchedAt: Int]

ASSUME QuotesAssumption ==
  /\ OpenTtl \in Nat /\ RequestTicks \in Nat /\ QuoteHorizon \in Nat
  /\ Starts \subseteq Int
  /\ NoQuote \notin Quote

VARIABLES
  market,         \* of the instrument
  clock,
  tape,           \* tape[t]: the last trade as of t
  quote,          \* the row of the instrument
  reader          \* reader[r]: the request that r serves

quoteVars == <<market, clock, tape, quote, reader>>

Idle == [at |-> "waiting"]
AskingProvider == [at: {"asking"}, now: Int, row: {NoQuote} \cup Quote]
Fetched == [at: {"fetched"}, now: Int, row: {NoQuote} \cup Quote, price: Prices]
QuoteAnswers == [at: {"answered"}, when: Int, price: Prices, stale: BOOLEAN] \cup [at: {"unavailable"}]

QuotesTypeOK ==
  /\ market \in Markets
  /\ clock \in Int
  /\ \A t \in DOMAIN tape : tape[t] \in Prices
  /\ quote \in {NoQuote} \cup Quote
  /\ reader \in [Readers -> {Idle} \cup AskingProvider \cup Fetched \cup QuoteAnswers]

\* The trades of a behaviour: the price moves only while the market is open.
Tapes(m, from) ==
  {f \in [from .. from + QuoteHorizon -> Prices] :
     \A t \in from + 1 .. from + QuoteHorizon : f[t] # f[t - 1] => IsMarketOpen(m, t)}

QuotesInit ==
  /\ market \in Markets /\ clock \in Starts
  /\ tape \in Tapes(market, clock)
  /\ quote = NoQuote
  /\ reader = [r \in Readers |-> Idle]

Serving(r) == reader[r].at \in {"asking", "fetched"}

\* No request outlives its time limits.
ClockTicks ==
  /\ clock + 1 \in DOMAIN tape
  /\ \A r \in Readers : Serving(r) => clock < reader[r].now + RequestTicks
  /\ clock' = clock + 1
  /\ UNCHANGED <<market, tape, quote, reader>>

\* Mutant: a quote lives until the next opening although the market is open.
TtlOfClosed(m, t) == IF m \in DOMAIN MARKET_SESSIONS THEN SecondsUntilNextOpen(m, t) ELSE OpenTtl
TtlFor(m, t) == QuoteTtlFor(m, t, OpenTtl)

FreshQuote(row, t) == row # NoQuote /\ t - row.fetchedAt <= TtlFor(market, t)

QuoteAnswer(price, stale) == [at |-> "answered", when |-> clock, price |-> price, stale |-> stale]

\* MarketService.get: the row and the clock are read; a fresh row is the answer.
GetQuote(r) ==
  /\ ~Serving(r)
  /\ reader' = [reader EXCEPT ![r] =
       IF FreshQuote(quote, clock) THEN QuoteAnswer(quote.price, FALSE)
       ELSE [at |-> "asking", now |-> clock, row |-> quote]]
  /\ UNCHANGED <<market, clock, tape, quote>>

\* The provider answers with the last trade.
ProviderAnswers(r) ==
  /\ reader[r].at = "asking"
  /\ reader' = [reader EXCEPT ![r] =
       [at |-> "fetched", now |-> reader[r].now, row |-> reader[r].row, price |-> tape[clock]]]
  /\ UNCHANGED <<market, clock, tape, quote>>

\* MarketDataError: the row read before, marked stale, or nothing at all.
ProviderFails(r) ==
  /\ reader[r].at = "asking"
  /\ reader' = [reader EXCEPT ![r] =
       IF reader[r].row = NoQuote THEN [at |-> "unavailable"] ELSE QuoteAnswer(reader[r].row.price, TRUE)]
  /\ UNCHANGED <<market, clock, tape, quote>>

\* _save_quote and the commit.  The UPDATE writes the columns that differ from
\* the row as it was read; an INSERT fails if another request inserted first.
SaveQuote(r) ==
  LET s == reader[r]
      written == [price |-> s.price, fetchedAt |-> s.now]
  IN  /\ s.at = "fetched"
      /\ IF s.row = NoQuote /\ quote # NoQuote
         THEN /\ reader' = [reader EXCEPT ![r] = Idle]
              /\ UNCHANGED quote
         ELSE /\ quote' = IF s.row # NoQuote /\ s.row.price = s.price
                          THEN [quote EXCEPT !.fetchedAt = s.now] ELSE written
              /\ reader' = [reader EXCEPT ![r] = QuoteAnswer(s.price, FALSE)]
      /\ UNCHANGED <<market, clock, tape>>

QuotesNext ==
  \/ ClockTicks
  \/ \E r \in Readers : GetQuote(r) \/ ProviderAnswers(r) \/ ProviderFails(r) \/ SaveQuote(r)

QuotesSpec == QuotesInit /\ [][QuotesNext]_quoteVars

-----------------------------------------------------------------------------
(* Properties *)

\* At every instant at which a market is closed, the lifetime of a quote ends
\* with the opening that really is the next one: across weekends, and before
\* the opening of the same day.
NextOpenIsNext ==
  (market \in DOMAIN MARKET_SESSIONS /\ ~IsMarketOpen(market, clock)) =>
    OpensNext(market, clock, NextOpen(market, clock))

\* At every instant the close a report may use is that of the last day of
\* trading that is over: on weekends, before the close, and in zones in which
\* it is another day.
CompletedCloseIsLast == LastOver(market, clock, CompletedPriceDate(clock, market))

\* The calendar tells the sessions of a market as they are, ahead and behind, at
\* every instant and wherever the market lies.
SessionsAreTold == NextOpenIsNext /\ CompletedCloseIsLast

\* The price that an unmarked answer gives during the session was the last
\* trade no longer ago than the lifetime of a quote and the time of a request,
\* however requests that read, fetch and save at the same time overwrite each
\* other's columns.
InSessionAnswersAreRecent ==
  \A r \in Readers :
    LET a == reader[r]
    IN  (a.at = "answered" /\ a.when = clock /\ ~a.stale /\ IsMarketOpen(market, clock)) =>
          \E t \in clock - OpenTtl - RequestTicks .. clock : t \in DOMAIN tape /\ tape[t] = a.price
=============================================================================
