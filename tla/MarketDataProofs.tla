-------------------------- MODULE MarketDataProofs --------------------------
(***************************************************************************)
(* Proofs about market data, for any sessions, tape, months, lifetimes,    *)
(* currencies, published rates and number of requests: what a quote of a   *)
(* session, an answer of cached bars and the rate of a conversion are      *)
(* worth, whatever the requests beside them do.                            *)
(***************************************************************************)
EXTENDS MarketData, CalendarProofs, Induction

-----------------------------------------------------------------------------
(* Quotes: the inductive invariant *)

\* The price was the last trade at an instant since `from'.
TradedSince(price, from) ==
  \E u \in DOMAIN tape : from <= u /\ u <= clock /\ tape[u] = price

TapeOK ==
  /\ market \in Markets
  /\ clock \in Int /\ clock \in DOMAIN tape /\ DOMAIN tape \subseteq Int
  /\ \A t \in DOMAIN tape : tape[t] \in Prices

\* A request is through within its time limits.
ServingOK(s) == s.now \in Int /\ s.now <= clock /\ clock <= s.now + RequestTicks

\* The price of the row was a trade not long before the row says: another
\* request may have dated the row after it was read.
RowOK ==
  /\ quote \in {NoQuote} \cup Quote
  /\ quote # NoQuote => TradedSince(quote.price, quote.fetchedAt - RequestTicks)

\* What a request has read is still the price of the row, or what replaced it
\* was traded since.
ReadOK(s) ==
  /\ s.row \in {NoQuote} \cup Quote
  /\ s.row # NoQuote =>
       (/\ quote # NoQuote
        /\ quote.price = s.row.price \/ TradedSince(quote.price, s.now - RequestTicks))

AnswerOK(a) ==
  /\ a \in QuoteAnswers
  /\ a.at = "answered" =>
       (/\ a.when <= clock
        /\ (a.when = clock /\ ~a.stale /\ IsMarketOpen(market, clock)) =>
              TradedSince(a.price, clock - OpenTtl - RequestTicks))

ReaderOK(s) ==
  \/ s = Idle
  \/ s \in AskingProvider /\ ServingOK(s) /\ ReadOK(s)
  \/ s \in Fetched /\ ServingOK(s) /\ ReadOK(s) /\ TradedSince(s.price, s.now)
  \/ AnswerOK(s)

QuotesInv ==
  /\ TapeOK /\ RowOK
  /\ DOMAIN reader = Readers /\ reader = [r \in Readers |-> reader[r]]
  /\ \A r \in Readers : ReaderOK(reader[r])

-----------------------------------------------------------------------------
(* Quotes: the steps *)

LEMMA QuotesInvInit == QuotesInit => QuotesInv
<1> SUFFICES ASSUME QuotesInit PROVE QuotesInv
  OBVIOUS
<1>1. tape \in Tapes(market, clock) /\ clock \in Int /\ market \in Markets
  BY QuotesAssumption DEF QuotesInit
<1>2. tape \in [clock .. clock + QuoteHorizon -> Prices]
  BY <1>1 DEF Tapes
<1>3. TapeOK
  BY <1>1, <1>2, QuotesAssumption DEF TapeOK
<1>4. RowOK
  BY DEF QuotesInit, RowOK
<1>5. DOMAIN reader = Readers /\ reader = [r \in Readers |-> reader[r]] /\ \A r \in Readers : ReaderOK(reader[r])
  BY DEF QuotesInit, ReaderOK
<1> QED
  BY <1>3, <1>4, <1>5 DEF QuotesInv

\* Time passes: nothing that was traded since an instant ceases to be.
LEMMA TradedStays ==
  ASSUME TapeOK, clock' \in Int, clock' >= clock, tape' = tape, NEW price, NEW from, TradedSince(price, from), from \in Int
  PROVE  TradedSince(price, from)'
BY DEF TradedSince, TapeOK

LEMMA TradedEarlier ==
  ASSUME TapeOK, NEW price, NEW from \in Int, NEW earlier \in Int, earlier <= from, TradedSince(price, from)
  PROVE  TradedSince(price, earlier)
BY DEF TradedSince, TapeOK

\* One request moves on, and nothing else.
LEMMA ReaderMoves ==
  ASSUME QuotesInv, NEW r \in Readers, NEW s, ReaderOK(s),
         reader' = [reader EXCEPT ![r] = s], UNCHANGED <<market, clock, tape, quote>>
  PROVE  QuotesInv'
<1>1. TapeOK' /\ RowOK'
  BY DEF QuotesInv, TapeOK, RowOK, TradedSince
<1>2. DOMAIN reader' = Readers /\ reader' = [q \in Readers |-> reader'[q]]
      /\ \A q \in Readers : reader'[q] = IF q = r THEN s ELSE reader[q]
  BY DEF QuotesInv
<1>3. ASSUME NEW q \in Readers PROVE ReaderOK(reader[q])'
  <2>1. PICK a : a = reader'[q] /\ ReaderOK(a)
    BY <1>2 DEF QuotesInv
  <2> QED
    BY <2>1 DEF ReaderOK, ServingOK, ReadOK, AnswerOK, TradedSince
<1> QED
  BY <1>1, <1>2, <1>3 DEF QuotesInv

\* What a request that is being served knows.
LEMMA AskingIs ==
  ASSUME QuotesInv, NEW r \in Readers, reader[r].at = "asking"
  PROVE  reader[r] \in AskingProvider /\ ServingOK(reader[r]) /\ ReadOK(reader[r])
BY DEF QuotesInv, ReaderOK, Idle, Fetched, AnswerOK, QuoteAnswers

LEMMA FetchedIs ==
  ASSUME QuotesInv, NEW r \in Readers, reader[r].at = "fetched"
  PROVE  /\ reader[r] \in Fetched /\ ServingOK(reader[r]) /\ ReadOK(reader[r])
         /\ TradedSince(reader[r].price, reader[r].now)
BY DEF QuotesInv, ReaderOK, Idle, AskingProvider, AnswerOK, QuoteAnswers

LEMMA QuoteAnswerOK ==
  ASSUME TapeOK, NEW price \in Prices, NEW stale \in BOOLEAN,
         (~stale /\ IsMarketOpen(market, clock)) => TradedSince(price, clock - OpenTtl - RequestTicks)
  PROVE  ReaderOK(QuoteAnswer(price, stale))
<1> DEFINE a == QuoteAnswer(price, stale)
<1>1. a.at = "answered" /\ a.when = clock /\ a.price = price /\ a.stale = stale
  BY DEF QuoteAnswer
<1>2. a \in QuoteAnswers
  BY DEF QuoteAnswer, QuoteAnswers, TapeOK
<1> HIDE DEF a
<1>3. AnswerOK(a)
  BY <1>1, <1>2 DEF AnswerOK, TapeOK
<1> QED
  BY <1>3 DEF ReaderOK, a

LEMMA ClockStep == ASSUME QuotesInv, ClockTicks PROVE QuotesInv'
<1>1. /\ clock' = clock + 1 /\ clock + 1 \in DOMAIN tape
      /\ UNCHANGED <<market, tape, quote, reader>>
      /\ \A r \in Readers : Serving(r) => clock < reader[r].now + RequestTicks
  BY DEF ClockTicks
<1>2. TapeOK /\ RowOK /\ DOMAIN reader = Readers /\ \A r \in Readers : ReaderOK(reader[r])
  BY DEF QuotesInv
<1>3. clock \in Int /\ clock' \in Int /\ clock' >= clock /\ RequestTicks \in Nat
  BY <1>1, <1>2, QuotesAssumption DEF TapeOK
<1>4. TapeOK'
  BY <1>1, <1>2, <1>3 DEF TapeOK
<1>5. RowOK'
  <2>1. quote' = quote
    BY <1>1
  <2>2. quote # NoQuote => (quote.fetchedAt - RequestTicks \in Int /\ TradedSince(quote.price, quote.fetchedAt - RequestTicks))
    BY <1>2, <1>3 DEF RowOK, Quote
  <2>3. quote # NoQuote => TradedSince(quote.price, quote.fetchedAt - RequestTicks)'
    BY <1>1, <1>2, <1>3, <2>1, <2>2, TradedStays
  <2> QED
    BY <1>2, <2>1, <2>3 DEF RowOK
<1>6. ASSUME NEW r \in Readers, Serving(r), ServingOK(reader[r]), ReadOK(reader[r])
      PROVE  ServingOK(reader[r])' /\ ReadOK(reader[r])'
  <2> DEFINE s == reader[r]
  <2>1. s' = s /\ s.now \in Int
    BY <1>1, <1>6 DEF ServingOK
  <2>2. ServingOK(s)'
    BY <1>1, <1>3, <1>6, <2>1 DEF ServingOK
  <2>3. s.now - RequestTicks \in Int
    BY <1>3, <2>1
  <2>4. TradedSince(quote.price, s.now - RequestTicks) => TradedSince(quote.price, s.now - RequestTicks)'
    BY <1>1, <1>2, <1>3, <2>3, TradedStays
  <2>5. ReadOK(s)'
    BY <1>1, <1>6, <2>1, <2>4 DEF ReadOK
  <2> QED
    BY <2>2, <2>5
<1>7. ASSUME NEW r \in Readers PROVE ReaderOK(reader[r])'
  <2> DEFINE s == reader[r]
  <2>1. s' = s /\ ReaderOK(s)
    BY <1>1, <1>2
  <2>2. CASE s = Idle
    BY <2>1, <2>2 DEF ReaderOK
  <2>3. CASE s \in AskingProvider /\ ServingOK(s) /\ ReadOK(s)
    <3>1. Serving(r)
      BY <2>3 DEF Serving, AskingProvider
    <3> QED
      BY <1>6, <2>1, <2>3, <3>1 DEF ReaderOK
  <2>4. CASE s \in Fetched /\ ServingOK(s) /\ ReadOK(s) /\ TradedSince(s.price, s.now)
    <3>1. Serving(r) /\ s.now \in Int
      BY <2>4 DEF Serving, Fetched
    <3>2. TradedSince(s.price, s.now)'
      BY <1>1, <1>2, <1>3, <2>1, <2>4, <3>1, TradedStays
    <3> QED
      BY <1>6, <2>1, <2>4, <3>1, <3>2 DEF ReaderOK
  <2>5. CASE AnswerOK(s)
    <3>1. s.at = "answered" => s.when \in Int
      BY <2>5 DEF AnswerOK, QuoteAnswers
    <3>2. AnswerOK(s)'
      BY <1>1, <1>3, <2>1, <2>5, <3>1 DEF AnswerOK
    <3> QED
      BY <3>2 DEF ReaderOK
  <2> QED
    BY <2>1, <2>2, <2>3, <2>4, <2>5 DEF ReaderOK
<1> QED
  BY <1>1, <1>4, <1>5, <1>7 DEF QuotesInv

LEMMA GetStep == ASSUME QuotesInv, NEW r \in Readers, GetQuote(r) PROVE QuotesInv'
<1> DEFINE asking == [at |-> "asking", now |-> clock, row |-> quote]
           s == IF FreshQuote(quote, clock) THEN QuoteAnswer(quote.price, FALSE) ELSE asking
<1>1. TapeOK /\ RowOK /\ RequestTicks \in Nat /\ OpenTtl \in Nat /\ clock \in Int
  BY QuotesAssumption DEF QuotesInv, TapeOK
<1>2. reader' = [reader EXCEPT ![r] = s] /\ UNCHANGED <<market, clock, tape, quote>>
  BY DEF GetQuote
<1>3. CASE FreshQuote(quote, clock)
  <2>1. quote \in Quote /\ quote # NoQuote
    BY <1>1, <1>3 DEF RowOK, FreshQuote
  <2>2. quote.price \in Prices /\ quote.fetchedAt \in Int
    BY <2>1 DEF Quote
  <2>3. ASSUME IsMarketOpen(market, clock)
        PROVE  TradedSince(quote.price, clock - OpenTtl - RequestTicks)
    <3>1. clock - quote.fetchedAt <= OpenTtl
      BY <1>3, <2>3 DEF FreshQuote, TtlFor, QuoteTtlFor
    <3>2. /\ quote.fetchedAt - RequestTicks \in Int /\ clock - OpenTtl - RequestTicks \in Int
          /\ clock - OpenTtl - RequestTicks <= quote.fetchedAt - RequestTicks
      BY <1>1, <2>2, <3>1
    <3>3. TradedSince(quote.price, quote.fetchedAt - RequestTicks)
      BY <1>1, <2>1 DEF RowOK
    <3> QED
      BY <1>1, <3>2, <3>3, TradedEarlier
  <2>4. ReaderOK(s)
    BY <1>1, <1>3, <2>2, <2>3, QuoteAnswerOK
  <2> HIDE DEF s
  <2> QED
    BY <1>2, <2>4, ReaderMoves
<1>4. CASE ~FreshQuote(quote, clock)
  <2>1. s = asking /\ asking.now = clock /\ asking.row = quote
    BY <1>4
  <2>2. asking \in AskingProvider
    BY <1>1 DEF AskingProvider, RowOK
  <2> HIDE DEF s, asking
  <2>3. ServingOK(asking) /\ ReadOK(asking)
    BY <1>1, <2>1 DEF ServingOK, ReadOK, RowOK
  <2>4. ReaderOK(s)
    BY <2>1, <2>2, <2>3 DEF ReaderOK
  <2> QED
    BY <1>2, <2>4, ReaderMoves
<1> QED
  BY <1>3, <1>4

LEMMA ProviderStep ==
  ASSUME QuotesInv, NEW r \in Readers, ProviderAnswers(r) \/ ProviderFails(r)
  PROVE  QuotesInv'
<1>1. reader[r].at = "asking" /\ UNCHANGED <<market, clock, tape, quote>>
  BY DEF ProviderAnswers, ProviderFails
<1>2. reader[r] \in AskingProvider /\ ServingOK(reader[r]) /\ ReadOK(reader[r]) /\ TapeOK
  BY <1>1, AskingIs DEF QuotesInv
<1>3. CASE ProviderAnswers(r)
  <2> DEFINE s == [at |-> "fetched", now |-> reader[r].now, row |-> reader[r].row, price |-> tape[clock]]
  <2>1. reader' = [reader EXCEPT ![r] = s]
    BY <1>3 DEF ProviderAnswers
  <2>2. s \in Fetched
    BY <1>2 DEF AskingProvider, Fetched, TapeOK
  <2>3. s.now = reader[r].now /\ s.row = reader[r].row /\ s.price = tape[clock]
    OBVIOUS
  <2> HIDE DEF s
  <2>4. TradedSince(s.price, s.now)
    BY <1>2, <2>3 DEF TradedSince, ServingOK, TapeOK
  <2>5. ReaderOK(s)
    BY <1>2, <2>2, <2>3, <2>4 DEF ReaderOK, ServingOK, ReadOK
  <2> QED
    BY <1>1, <2>1, <2>5, ReaderMoves
<1>4. CASE ProviderFails(r)
  <2> DEFINE unavailable == [at |-> "unavailable"]
             s == IF reader[r].row = NoQuote THEN unavailable ELSE QuoteAnswer(reader[r].row.price, TRUE)
  <2>1. reader' = [reader EXCEPT ![r] = s]
    BY <1>4 DEF ProviderFails
  <2>2. ReaderOK(unavailable)
    BY DEF ReaderOK, AnswerOK, QuoteAnswers
  <2>3. reader[r].row # NoQuote => reader[r].row.price \in Prices
    BY <1>2 DEF AskingProvider, Quote
  <2>4. reader[r].row # NoQuote => ReaderOK(QuoteAnswer(reader[r].row.price, TRUE))
    BY <1>2, <2>3, QuoteAnswerOK
  <2> HIDE DEF unavailable
  <2>5. ReaderOK(s)
    BY <2>2, <2>4
  <2> HIDE DEF s
  <2> QED
    BY <1>1, <2>1, <2>5, ReaderMoves
<1> QED
  BY <1>3, <1>4

\* The row after a save: its price was traded since the request read it, and so
\* not long before any other request that is being served read it.
LEMMA SaveWrites ==
  ASSUME QuotesInv, NEW r \in Readers, SaveQuote(r), quote' # quote
  PROVE  /\ quote' \in Quote
         /\ quote'.fetchedAt = reader[r].now
         /\ quote'.price = reader[r].price
              \/ (quote # NoQuote /\ quote \in Quote /\ quote'.price = quote.price /\ reader[r].row # NoQuote
                  /\ reader[r].row.price = reader[r].price)
<1> DEFINE s == reader[r]
           written == [price |-> s.price, fetchedAt |-> s.now]
<1>1. s.at = "fetched"
  BY DEF SaveQuote
<1>2. s \in Fetched /\ ReadOK(s) /\ RowOK
  BY <1>1, FetchedIs DEF QuotesInv
<1>3. s.price \in Prices /\ s.now \in Int
  BY <1>2 DEF Fetched
<1>4. quote' = IF s.row # NoQuote /\ s.row.price = s.price THEN [quote EXCEPT !.fetchedAt = s.now] ELSE written
  BY DEF SaveQuote
<1>5. CASE s.row # NoQuote /\ s.row.price = s.price
  <2>1. quote # NoQuote /\ quote \in Quote
    BY <1>2, <1>5 DEF ReadOK, RowOK
  <2>2. quote' = [quote EXCEPT !.fetchedAt = s.now]
    BY <1>4, <1>5
  <2>3. quote' \in Quote /\ quote'.fetchedAt = s.now /\ quote'.price = quote.price
    BY <1>3, <2>1, <2>2 DEF Quote
  <2> QED
    BY <1>5, <2>1, <2>3
<1>6. CASE ~(s.row # NoQuote /\ s.row.price = s.price)
  <2>1. quote' = written
    BY <1>4, <1>6
  <2> QED
    BY <1>3, <2>1 DEF Quote
<1> QED
  BY <1>5, <1>6

LEMMA SaveStep == ASSUME QuotesInv, NEW r \in Readers, SaveQuote(r) PROVE QuotesInv'
<1> DEFINE s == reader[r]
           reply == QuoteAnswer(s.price, FALSE)
<1>1. s.at = "fetched" /\ UNCHANGED <<market, clock, tape>>
  BY DEF SaveQuote
<1>2. /\ s \in Fetched /\ ServingOK(s) /\ ReadOK(s) /\ TradedSince(s.price, s.now)
      /\ TapeOK /\ RowOK /\ DOMAIN reader = Readers
  BY <1>1, FetchedIs DEF QuotesInv
<1>3. /\ s.price \in Prices /\ s.now \in Int /\ clock \in Int /\ OpenTtl \in Nat /\ RequestTicks \in Nat
      /\ s.now <= clock /\ clock <= s.now + RequestTicks
  BY <1>2, QuotesAssumption DEF Fetched, TapeOK, ServingOK
<1>4. ReaderOK(reply)
  <2>1. clock - OpenTtl - RequestTicks \in Int /\ clock - OpenTtl - RequestTicks <= s.now
    BY <1>3
  <2>2. TradedSince(s.price, clock - OpenTtl - RequestTicks)
    BY <1>2, <1>3, <2>1, TradedEarlier
  <2> QED
    BY <1>2, <1>3, <2>2, QuoteAnswerOK
<1>5. ReaderOK(Idle)
  BY DEF ReaderOK
<1> HIDE DEF reply
<1>6. CASE quote' = quote
  <2>1. PICK t \in {Idle, reply} : reader' = [reader EXCEPT ![r] = t]
    BY DEF SaveQuote, reply
  <2>2. ReaderOK(t)
    BY <1>4, <1>5, <2>1
  <2> QED
    BY <1>1, <1>6, <2>1, <2>2, ReaderMoves
<1>7. CASE quote' # quote
  <2>1. reader' = [reader EXCEPT ![r] = reply]
    BY <1>7 DEF SaveQuote, reply
  <2>2. /\ quote' \in Quote /\ quote'.fetchedAt = s.now
        /\ quote'.price = s.price
             \/ (quote # NoQuote /\ quote \in Quote /\ quote'.price = quote.price /\ s.row # NoQuote
                 /\ s.row.price = s.price)
    BY <1>7, SaveWrites
  <2>3. TapeOK'
    BY <1>1, <1>2 DEF TapeOK
  <2>4. s.now - RequestTicks \in Int /\ s.now - RequestTicks <= s.now
    BY <1>3
  <2>5. TradedSince(s.price, s.now - RequestTicks)
    BY <1>2, <1>3, <2>4, TradedEarlier
  <2>6. TradedSince(quote'.price, s.now - RequestTicks)
    BY <1>2, <2>2, <2>5 DEF ReadOK
  <2>7. RowOK'
    BY <1>1, <2>2, <2>6 DEF RowOK, TradedSince
  <2>8. DOMAIN reader' = Readers /\ reader' = [q \in Readers |-> reader'[q]]
        /\ \A q \in Readers : reader'[q] = IF q = r THEN reply ELSE reader[q]
    BY <2>1 DEF QuotesInv
  <2>9. ASSUME NEW a, ServingOK(a), ReadOK(a), quote' # NoQuote
        PROVE  a.row # NoQuote => (quote'.price = a.row.price \/ TradedSince(quote'.price, a.now - RequestTicks))
    <3>1. SUFFICES ASSUME a.row # NoQuote
                   PROVE  quote'.price = a.row.price \/ TradedSince(quote'.price, a.now - RequestTicks)
      OBVIOUS
    <3>2. a.now - RequestTicks \in Int /\ a.now - RequestTicks <= s.now
      BY <1>3, <2>9 DEF ServingOK
    <3>3. CASE quote'.price = s.price
      BY <1>2, <1>3, <3>2, <3>3, TradedEarlier
    <3>4. CASE quote'.price = quote.price
      BY <2>9, <3>1, <3>4 DEF ReadOK
    <3> QED
      BY <2>2, <3>3, <3>4
  <2>10. ASSUME NEW q \in Readers PROVE ReaderOK(reader[q])'
    <3>1. PICK a : a = reader'[q] /\ ReaderOK(a)
      BY <1>4, <2>8 DEF QuotesInv
    <3>2. quote' # NoQuote
      BY <2>2, QuotesAssumption
    <3>3. CASE a = Idle
      BY <3>1, <3>3 DEF ReaderOK
    <3>4. CASE ServingOK(a) /\ ReadOK(a)
      <4>1. ServingOK(reader[q])'
        BY <1>1, <3>1, <3>4 DEF ServingOK
      <4>2. a.row # NoQuote => (quote'.price = a.row.price \/ TradedSince(quote'.price, a.now - RequestTicks))
        BY <2>9, <3>2, <3>4
      <4>3. ReadOK(reader[q])'
        BY <1>1, <3>1, <3>2, <3>4, <4>2 DEF ReadOK, TradedSince
      <4>4. TradedSince(a.price, a.now) => TradedSince(a.price, a.now)'
        BY <1>1 DEF TradedSince
      <4>5. a \in AskingProvider \/ (a \in Fetched /\ TradedSince(a.price, a.now)) \/ AnswerOK(a) \/ a = Idle
        BY <3>1 DEF ReaderOK
      <4>6. CASE AnswerOK(a)
        BY <1>1, <3>1, <4>6 DEF ReaderOK, AnswerOK, TradedSince
      <4> QED
        BY <3>1, <3>3, <4>1, <4>3, <4>4, <4>5, <4>6 DEF ReaderOK
    <3>5. CASE AnswerOK(a)
      BY <1>1, <3>1, <3>5 DEF ReaderOK, AnswerOK, TradedSince
    <3> QED
      BY <3>1, <3>3, <3>4, <3>5 DEF ReaderOK
  <2> QED
    BY <2>3, <2>7, <2>8, <2>10 DEF QuotesInv
<1> QED
  BY <1>6, <1>7

LEMMA QuotesInvNext == ASSUME QuotesInv, [QuotesNext]_quoteVars PROVE QuotesInv'
<1>1. CASE UNCHANGED quoteVars
  BY <1>1 DEF quoteVars, QuotesInv, TapeOK, RowOK, ReaderOK, ServingOK, ReadOK, AnswerOK, TradedSince
<1> QED
  BY <1>1, ClockStep, GetStep, ProviderStep, SaveStep DEF QuotesNext

\* The row of the quote and every request for it are dated by prices that were
\* traded, however requests overlap.
THEOREM QuotesAreConsistent == QuotesSpec => []QuotesInv
BY QuotesInvInit, QuotesInvNext, PTL DEF QuotesSpec

LEMMA QuotesTypes == QuotesInv => QuotesTypeOK
<1> SUFFICES ASSUME QuotesInv PROVE QuotesTypeOK
  OBVIOUS
<1>1. \A r \in Readers : reader[r] \in {Idle} \cup AskingProvider \cup Fetched \cup QuoteAnswers
  BY DEF QuotesInv, ReaderOK, AnswerOK
<1>2. reader \in [Readers -> {Idle} \cup AskingProvider \cup Fetched \cup QuoteAnswers]
  BY <1>1 DEF QuotesInv
<1> QED
  BY <1>2 DEF QuotesInv, TapeOK, RowOK, QuotesTypeOK

\* MarketService.get: during the session a price that is not marked stale was
\* traded no longer ago than the lifetime of a quote and the time of a request,
\* although requests that overlap date the row each by its own clock.
THEOREM RecentInSession == QuotesSpec => []InSessionAnswersAreRecent
<1>1. QuotesInv => InSessionAnswersAreRecent
  <2> SUFFICES ASSUME QuotesInv, NEW r \in Readers,
                      reader[r].at = "answered", reader[r].when = clock, ~reader[r].stale, IsMarketOpen(market, clock)
               PROVE  \E t \in clock - OpenTtl - RequestTicks .. clock : t \in DOMAIN tape /\ tape[t] = reader[r].price
    BY DEF InSessionAnswersAreRecent
  <2>1. AnswerOK(reader[r]) /\ TapeOK
    BY DEF QuotesInv, ReaderOK, Idle, AskingProvider, Fetched
  <2>2. TradedSince(reader[r].price, clock - OpenTtl - RequestTicks)
    BY <2>1 DEF AnswerOK
  <2> QED
    BY <2>1, <2>2, QuotesAssumption DEF TradedSince, TapeOK
<1> QED
  BY <1>1, QuotesAreConsistent, PTL

\* Whenever a quote is asked for, the calendar tells the sessions as they are:
\* the lifetime of a quote ends with the opening that is the next one, and the
\* close a report may use is that of the last day of trading that is over.
THEOREM SessionsAreToldAlways == QuotesSpec => []SessionsAreTold
<1>1. QuotesInv => SessionsAreTold
  <2> SUFFICES ASSUME QuotesInv PROVE SessionsAreTold
    OBVIOUS
  <2>1. clock \in Int
    BY DEF QuotesInv, TapeOK
  <2>2. NextOpenIsNext
    BY <2>1, NextOpening DEF NextOpenIsNext
  <2>3. CompletedCloseIsLast
    BY <2>1, CompletedClose DEF CompletedCloseIsLast, LastOver
  <2> QED
    BY <2>2, <2>3 DEF SessionsAreTold
<1> QED
  BY <1>1, QuotesAreConsistent, PTL

-----------------------------------------------------------------------------
(* Bars: what is kept was fetched since the last clearing *)

\* A bucket tells when its bars were fetched and stored, in this order.
BucketTimes ==
  \A m \in MonthSet : buckets[m] # NoBucket =>
    /\ buckets[m].fetched \in Nat /\ buckets[m].stored \in Nat
    /\ buckets[m].fetched <= buckets[m].stored /\ buckets[m].stored <= tick

\* A request is through within FillTicks, and fetches after it began.
RequestTimes ==
  /\ \A c \in Clients : Busy(c) =>
       /\ client[c].since \in Nat
       /\ client[c].since <= tick /\ tick <= client[c].since + FillTicks
  /\ \A c \in Clients : client[c].at = "fetched" =>
       /\ client[c].fetched \in Nat
       /\ client[c].since <= client[c].fetched /\ client[c].fetched <= tick

Shape ==
  /\ tick \in Nat /\ clearedAt \in Int /\ clearedAt <= tick
  /\ DOMAIN buckets = MonthSet /\ DOMAIN client = Clients

\* Fetched since the last clear_ticker, or stored soon after it.
KeptRightly(m) ==
  buckets[m] # NoBucket =>
    \/ buckets[m].fetched >= clearedAt
    \/ buckets[m].stored \in clearedAt .. clearedAt + FillTicks

\* The months that clear_ticker has found and not deleted yet are the exception.
OthersKeptRightly == \A m \in MonthSet \ clearing : KeptRightly(m)

Cleared == Shape /\ BucketTimes /\ RequestTimes /\ OthersKeptRightly

-----------------------------------------------------------------------------
(* Bars: the steps and the clearing *)

\* Of a bucket just stored: the request began, fetched, and stored, in no more than FillTicks.
LEMMA StoredBucketIsKeptRightly ==
  ASSUME NEW c \in Clients, Cleared, client[c].at = "fetched"
  PROVE  \/ client[c].fetched >= clearedAt
         \/ tick \in clearedAt .. clearedAt + FillTicks
<1>1. Busy(c)
  BY DEF Busy
<1>2. /\ client[c].since \in Nat /\ client[c].fetched \in Nat
      /\ client[c].since <= client[c].fetched /\ tick <= client[c].since + FillTicks
  BY <1>1 DEF Cleared, RequestTimes
<1> QED
  BY <1>2, HistoryAssumption DEF Cleared, Shape

LEMMA ClearedInit == HistoryInit => Cleared
<1> SUFFICES ASSUME HistoryInit PROVE Cleared
  OBVIOUS
<1>1. Shape
  BY DEF HistoryInit, Shape
<1>2. BucketTimes /\ OthersKeptRightly
  BY DEF HistoryInit, BucketTimes, OthersKeptRightly, KeptRightly
<1>3. RequestTimes
  BY DEF HistoryInit, RequestTimes, Busy
<1> QED
  BY <1>1, <1>2, <1>3 DEF Cleared

\* A step that leaves the clock, the buckets and the clear alone, and moves one request.
LEMMA RequestMoves ==
  ASSUME Cleared, NEW c \in Clients, NEW s,
         client' = [client EXCEPT ![c] = s],
         UNCHANGED <<tick, buckets, clearedAt, clearing>>,
         s.at \in {"missing", "direct", "fetched"} =>
           (s.since \in Nat /\ s.since <= tick /\ tick <= s.since + FillTicks),
         s.at = "fetched" =>
           (s.fetched \in Nat /\ s.since <= s.fetched /\ s.fetched <= tick)
  PROVE  Cleared'
<1>1. Shape'
  BY DEF Cleared, Shape
<1>2. BucketTimes' /\ OthersKeptRightly'
  BY DEF Cleared, BucketTimes, OthersKeptRightly, KeptRightly
<1>3. \A d \in Clients : client'[d] = IF d = c THEN s ELSE client[d]
  BY DEF Cleared, Shape
<1>4. RequestTimes'
  BY <1>3 DEF Cleared, RequestTimes, Busy
<1> QED
  BY <1>1, <1>2, <1>4 DEF Cleared

LEMMA ClearedNext == (Cleared /\ [HistoryNext]_historyVars) => Cleared'
<1> SUFFICES ASSUME Cleared, [HistoryNext]_historyVars PROVE Cleared'
  OBVIOUS
<1> USE HistoryAssumption
<1>1. CASE TickHistory
  <2>1. Shape'
    BY <1>1 DEF TickHistory, Cleared, Shape
  <2>2. \A m \in MonthSet : buckets'[m] = buckets[m] \/ buckets'[m] = NoBucket
    BY <1>1 DEF TickHistory
  <2>3. BucketTimes'
    BY <1>1, <2>2 DEF TickHistory, Cleared, Shape, BucketTimes
  <2>4. OthersKeptRightly'
    BY <1>1, <2>2 DEF TickHistory, Cleared, OthersKeptRightly, KeptRightly
  <2>5. \A c \in Clients : client'[c] = IF Busy(c) THEN client[c] ELSE [at |-> "idle"]
    BY <1>1 DEF TickHistory
  <2>6. \A c \in Clients : client'[c].at \in {"missing", "direct", "fetched"} =>
          (Busy(c) /\ client'[c] = client[c])
    BY <2>5
  <2>7. RequestTimes'
    BY <1>1, <2>6 DEF TickHistory, Cleared, Shape, RequestTimes, Busy
  <2> QED
    BY <2>1, <2>3, <2>4, <2>7 DEF Cleared
<1>2. CASE ClearTicker
  <2>1. Shape'
    BY <1>2 DEF ClearTicker, Cleared, Shape
  <2>2. BucketTimes' /\ RequestTimes'
    BY <1>2 DEF ClearTicker, Cleared, BucketTimes, RequestTimes, Busy
  <2>3. OthersKeptRightly'
    BY <1>2 DEF ClearTicker, Scanned, OthersKeptRightly, KeptRightly
  <2> QED
    BY <2>1, <2>2, <2>3 DEF Cleared
<1>3. ASSUME NEW m \in MonthSet, DeleteBucket(m) PROVE Cleared'
  <2>1. Shape' /\ \A n \in MonthSet : buckets'[n] = IF n = m THEN NoBucket ELSE buckets[n]
    BY <1>3 DEF DeleteBucket, Cleared, Shape
  <2>2. BucketTimes'
    BY <1>3, <2>1 DEF DeleteBucket, Cleared, BucketTimes
  <2>3. OthersKeptRightly'
    BY <1>3, <2>1 DEF DeleteBucket, Cleared, OthersKeptRightly, KeptRightly
  <2>4. RequestTimes'
    BY <1>3 DEF DeleteBucket, Cleared, RequestTimes, Busy
  <2> QED
    BY <2>1, <2>2, <2>3, <2>4 DEF Cleared
<1>4. ASSUME NEW c \in Clients, NEW r \in Ranges, ReadBuckets(c, r) PROVE Cleared'
  <2> DEFINE missing == {m \in MonthsBetween(r) : buckets[m] = NoBucket}
             cached  == CachedBars(MonthsBetween(r) \ missing)
             s == IF missing = {} THEN Answered(r, tick, cached)
                  ELSE [at |-> "missing", range |-> r, since |-> tick, months |-> missing, cached |-> cached]
  <2>1. client' = [client EXCEPT ![c] = s] /\ UNCHANGED <<tick, buckets, clearedAt, clearing>>
    BY <1>4 DEF ReadBuckets
  <2>2. s.at \in {"answered", "missing"} /\ s.since = tick
    BY DEF Answered
  <2> HIDE DEF s
  <2>3. s.since \in Nat /\ s.since <= tick /\ tick <= s.since + FillTicks
    BY <2>2 DEF Cleared, Shape
  <2> QED
    BY <2>1, <2>2, <2>3, RequestMoves
<1>5. ASSUME NEW c \in Clients, NEW r \in Ranges, ReadFails(c, r) PROVE Cleared'
  <2> DEFINE s == [at |-> "direct", range |-> r, since |-> tick]
  <2>1. client' = [client EXCEPT ![c] = s] /\ UNCHANGED <<tick, buckets, clearedAt, clearing>>
    BY <1>5 DEF ReadFails
  <2>2. s.at = "direct" /\ s.since = tick
    OBVIOUS
  <2> HIDE DEF s
  <2>3. s.since \in Nat /\ s.since <= tick /\ tick <= s.since + FillTicks
    BY <2>2 DEF Cleared, Shape
  <2> QED
    BY <2>1, <2>2, <2>3, RequestMoves
<1>6. ASSUME NEW c \in Clients, NEW ms \in SUBSET MonthSet, FetchMissing(c, ms) PROVE Cleared'
  <2> DEFINE s == [at |-> "fetched", range |-> client[c].range, since |-> client[c].since,
                   months |-> client[c].months, cached |-> client[c].cached,
                   bars |-> InMonths(ProviderBars(FetchStart(c), FetchEnd(c)), ms),
                   to |-> FetchEnd(c), fetched |-> tick]
  <2>1. client' = [client EXCEPT ![c] = s] /\ UNCHANGED <<tick, buckets, clearedAt, clearing>>
    BY <1>6 DEF FetchMissing
  <2>2. s.at = "fetched" /\ s.since = client[c].since /\ s.fetched = tick
    OBVIOUS
  <2> HIDE DEF s
  <2>3. Busy(c)
    BY <1>6 DEF FetchMissing, Busy
  <2>4. /\ s.since \in Nat /\ s.since <= tick /\ tick <= s.since + FillTicks
        /\ s.fetched \in Nat /\ s.since <= s.fetched /\ s.fetched <= tick
    BY <2>2, <2>3 DEF Cleared, RequestTimes, Shape
  <2> QED
    BY <2>1, <2>2, <2>4, RequestMoves
<1>7. ASSUME NEW c \in Clients, NEW ms \in SUBSET MonthSet, StoreMonths(c, ms) PROVE Cleared'
  <2> DEFINE s == client[c]
             reply == Answered(s.range, s.since, s.cached \cup s.bars)
  <2>1. /\ s.at = "fetched" /\ client' = [client EXCEPT ![c] = reply]
        /\ UNCHANGED <<tick, clearedAt, clearing>>
    BY <1>7 DEF StoreMonths
  <2>2. DOMAIN buckets' = MonthSet
    BY <1>7 DEF StoreMonths
  <2>3. \A m \in MonthSet :
          \/ buckets'[m] = buckets[m]
          \/ buckets'[m].fetched = s.fetched /\ buckets'[m].stored = tick
    BY <1>7 DEF StoreMonths
  <2>4. s.fetched \in Nat /\ s.fetched <= tick
    BY <2>1 DEF Cleared, RequestTimes
  <2>5. Shape'
    BY <2>1, <2>2 DEF Cleared, Shape
  <2>6. BucketTimes'
    BY <2>1, <2>3, <2>4 DEF Cleared, Shape, BucketTimes
  <2>7. OthersKeptRightly'
    BY <2>1, <2>3, StoredBucketIsKeptRightly DEF Cleared, OthersKeptRightly, KeptRightly
  <2>8. reply.at = "answered"
    BY DEF Answered
  <2> HIDE DEF reply
  <2>9. \A d \in Clients : client'[d] = IF d = c THEN reply ELSE client[d]
    BY <2>1 DEF Cleared, Shape
  <2>10. RequestTimes'
    BY <2>1, <2>8, <2>9 DEF Cleared, RequestTimes, Busy
  <2> QED
    BY <2>5, <2>6, <2>7, <2>10 DEF Cleared
<1>8. ASSUME NEW c \in Clients, FetchFails(c) PROVE Cleared'
  <2> DEFINE s == [at |-> "direct", range |-> client[c].range, since |-> client[c].since]
  <2>1. client' = [client EXCEPT ![c] = s] /\ UNCHANGED <<tick, buckets, clearedAt, clearing>>
    BY <1>8 DEF FetchFails
  <2>2. s.at = "direct" /\ s.since = client[c].since
    OBVIOUS
  <2> HIDE DEF s
  <2>3. Busy(c)
    BY <1>8 DEF FetchFails, Busy
  <2>4. /\ client[c].since \in Nat /\ client[c].since <= tick
        /\ tick <= client[c].since + FillTicks
    BY <2>3 DEF Cleared, RequestTimes
  <2> QED
    BY <2>1, <2>2, <2>4, RequestMoves
<1>9. ASSUME NEW c \in Clients, AskDirectly(c) PROVE Cleared'
  <2> DEFINE s == Answered(client[c].range, client[c].since,
                           ProviderBars(client[c].range.from, client[c].range.to))
  <2>1. client' = [client EXCEPT ![c] = s] /\ UNCHANGED <<tick, buckets, clearedAt, clearing>>
    BY <1>9 DEF AskDirectly
  <2>2. s.at = "answered"
    BY DEF Answered
  <2> HIDE DEF s
  <2> QED
    BY <2>1, <2>2, RequestMoves
<1>10. ASSUME NEW c \in Clients, DirectFails(c) PROVE Cleared'
  <2> DEFINE s == [at |-> "idle"]
  <2>1. client' = [client EXCEPT ![c] = s] /\ UNCHANGED <<tick, buckets, clearedAt, clearing>>
    BY <1>10 DEF DirectFails
  <2>2. s.at = "idle"
    OBVIOUS
  <2> HIDE DEF s
  <2> QED
    BY <2>1, <2>2, RequestMoves
<1>11. CASE UNCHANGED historyVars
  BY <1>11 DEF historyVars, Cleared, Shape, BucketTimes, RequestTimes, Busy, OthersKeptRightly, KeptRightly
<1> QED
  BY <1>1, <1>2, <1>3, <1>4, <1>5, <1>6, <1>7, <1>8, <1>9, <1>10, <1>11 DEF HistoryNext

\* CachingMarketProvider.clear_ticker: whatever is kept after it was fetched
\* since, or stored shortly after by a request that had fetched before it.
THEOREM ClearedStaysCleared == HistorySpec => []ClearedBarsStayGone
<1>1. HistoryInit => Cleared
  BY ClearedInit
<1>2. (Cleared /\ [HistoryNext]_historyVars) => Cleared'
  BY ClearedNext
<1>3. Cleared => ClearedBarsStayGone
  BY DEF Cleared, OthersKeptRightly, KeptRightly, ClearedBarsStayGone
<1> QED
  BY <1>1, <1>2, <1>3, PTL DEF HistorySpec

-----------------------------------------------------------------------------
(* Bars: days and months *)

LEMMA Division ==
  ASSUME NEW n \in Int, NEW k \in Nat \ {0}
  PROVE  n \div k \in Int /\ k * (n \div k) <= n /\ n < k * (n \div k) + k
OBVIOUS

LEMMA DivisionGrows ==
  ASSUME NEW n \in Int, NEW m \in Int, NEW k \in Nat \ {0}, n <= m
  PROVE  n \div k <= m \div k
<1> DEFINE a == n \div k
           b == m \div k
<1>1. a \in Int /\ k * a <= n /\ b \in Int /\ m < k * b + k
  BY Division
<1> HIDE DEF a, b
<1>2. ~(a >= b + 1)
  <2> SUFFICES ASSUME a >= b + 1 PROVE FALSE
    OBVIOUS
  <2>1. k * a >= k * (b + 1) /\ k * (b + 1) = k * b + k
    BY <1>1
  <2> QED
    BY <1>1, <2>1
<1> QED
  BY <1>1, <1>2 DEF a, b

LEMMA DayOfGrows ==
  ASSUME NEW t \in Int, NEW u \in Int, t <= u
  PROVE  DayOf(t) \in Int /\ DayOf(u) \in Int /\ DayOf(t) <= DayOf(u)
BY Division, DivisionGrows, HistoryAssumption DEF DayOf

LEMMA MonthOfGrows ==
  ASSUME NEW d \in Int, NEW e \in Int, d <= e
  PROVE  MonthOf(d) \in Int /\ MonthOf(e) \in Int /\ MonthOf(d) <= MonthOf(e)
BY Division, DivisionGrows, HistoryAssumption DEF MonthOf

\* A day that is over.
LEMMA DayOver ==
  ASSUME NEW d \in Int, NEW t \in Int, d < DayOf(t)
  PROVE  LastTick(d) \in Int /\ LastTick(d) < t
<1> DEFINE n == DayOf(t)
<1>1. DayTicks \in Nat \ {0} /\ n \in Int /\ DayTicks * n <= t
  BY Division, HistoryAssumption DEF DayOf
<1> HIDE DEF n
<1>2. d + 1 <= n
  BY <1>1 DEF n
<1>3. (d + 1) * DayTicks \in Int /\ (d + 1) * DayTicks <= DayTicks * n
  BY <1>1, <1>2
<1> QED
  BY <1>1, <1>3 DEF LastTick

\* An instant less than a day ago is of this day or the one before.
LEMMA NearDays ==
  ASSUME NEW t \in Int, NEW u \in Int, t - DayTicks <= u
  PROVE  DayOf(t) \in Int /\ DayOf(u) \in Int /\ DayOf(t) - 1 <= DayOf(u)
<1> DEFINE n == DayOf(t)
           m == DayOf(u)
<1>1. /\ DayTicks \in Nat \ {0} /\ n \in Int /\ DayTicks * n <= t
      /\ m \in Int /\ u < DayTicks * m + DayTicks
  BY Division, HistoryAssumption DEF DayOf
<1> HIDE DEF n, m
<1>2. ~(n >= m + 2)
  <2> SUFFICES ASSUME n >= m + 2 PROVE FALSE
    OBVIOUS
  <2>1. DayTicks * n >= DayTicks * (m + 2) /\ DayTicks * (m + 2) = DayTicks * m + DayTicks + DayTicks
    BY <1>1
  <2> QED
    BY <1>1, <2>1
<1> QED
  BY <1>1, <1>2 DEF n, m

\* The days of a month.
LEMMA DaysOfMonth ==
  ASSUME NEW d \in Int, NEW m \in Int
  PROVE  /\ FirstOf(m) \in Int /\ EndOfMonth(m) \in Int
         /\ MonthOf(d) = m <=> (FirstOf(m) <= d /\ d <= EndOfMonth(m))
<1> DEFINE n == MonthOf(d)
           k == MonthDays
<1>1. k \in Nat \ {0} /\ n \in Int /\ k * n <= d /\ d < k * n + k
  BY Division, HistoryAssumption DEF MonthOf
<1>2. FirstOf(m) = m * k /\ EndOfMonth(m) = m * k + k - 1
  BY DEF FirstOf, EndOfMonth
<1> HIDE DEF n, k
<1>3. m * k \in Int /\ m * k = k * m
  BY <1>1
<1>4. CASE n >= m + 1
  <2>1. k * n >= k * (m + 1) /\ k * (m + 1) = k * m + k
    BY <1>1, <1>4
  <2> QED
    BY <1>1, <1>2, <1>3, <1>4, <2>1 DEF n
<1>5. CASE n <= m - 1
  <2>1. k * n <= k * (m - 1) /\ k * (m - 1) = k * m - k
    BY <1>1, <1>5
  <2> QED
    BY <1>1, <1>2, <1>3, <1>5, <2>1 DEF n
<1>6. CASE n = m
  BY <1>1, <1>2, <1>3, <1>6 DEF n
<1> QED
  BY <1>1, <1>4, <1>5, <1>6

LEMMA MonthsInOrder ==
  ASSUME NEW m \in Int, NEW n \in Int, m <= n
  PROVE  /\ FirstOf(m) \in Int /\ FirstOf(n) \in Int /\ FirstOf(m) <= FirstOf(n)
         /\ EndOfMonth(m) \in Int /\ EndOfMonth(n) \in Int /\ EndOfMonth(m) <= EndOfMonth(n)
<1>1. MonthDays \in Nat \ {0}
  BY HistoryAssumption
<1>2. m * MonthDays \in Int /\ n * MonthDays \in Int /\ m * MonthDays <= n * MonthDays
  BY <1>1
<1> QED
  BY <1>1, <1>2 DEF FirstOf, EndOfMonth

-----------------------------------------------------------------------------
(* Bars: what is kept and handed on *)

\* A bucket that lives longer than this may lack a day that is over.
ShortLife == RecentTtl <= DayTicks

\* The property's conditions on a bar and on bars together, for a request that began at `since'.
Recent(bar, since) ==
  bar.day # EndOfMonth(MonthOf(bar.day)) =>
    bar.last >= LastTick(bar.day) \/ bar.last >= since - RecentTtl - FillTicks

HasDay(bars, d) == \E bar \in bars : bar.day = d

GoodBars(bars, since) ==
  /\ bars \subseteq Bar
  /\ \A bar \in bars : Recent(bar, since)
  /\ ShortLife => \A bar \in bars, d \in Nat :
       (MonthOf(d) = MonthOf(bar.day) /\ d < DayOf(since)) => HasDay(bars, d)

GoodAnswer(a) ==
  /\ a.range \in Ranges /\ a.since \in Int
  /\ \A bar \in a.bars : a.range.from <= bar.day /\ bar.day <= a.range.to /\ bar \in Bar /\ Recent(bar, a.since)
  /\ ShortLife => \A bar \in a.bars, d \in a.range.from .. a.range.to :
       (MonthOf(d) = MonthOf(bar.day) /\ d < DayOf(a.since)) => HasDay(a.bars, d)

\* Bars of one call: as of the instant of the call, and of every month it says
\* anything of all days up to `to'.
OfOneFetch(bars, to, fetched) ==
  /\ bars \subseteq Bar
  /\ to \in Int /\ fetched \in Nat /\ to <= DayOf(fetched)
  /\ \A bar \in bars : bar.last >= LastTick(bar.day) \/ bar.last >= fetched
  /\ \A bar \in bars, d \in Nat : (MonthOf(d) = MonthOf(bar.day) /\ d <= to) => HasDay(bars, d)

\* A bucket is of one call that got to the end of the month, or to the day it is stored on.
BucketMade(m, b) ==
  /\ b \in Bucket /\ b.bars # {}
  /\ \A bar \in b.bars : MonthOf(bar.day) = m
  /\ b.fetched <= b.stored /\ b.stored <= b.fetched + FillTicks
  /\ \E to \in Int : OfOneFetch(b.bars, to, b.fetched) /\ (EndOfMonth(m) <= to \/ DayOf(b.stored) <= to)
  /\ b.expires = b.stored + (IF m >= MonthOf(DayOf(b.stored)) THEN RecentTtl ELSE LongTtl)

BucketsOK ==
  /\ tick \in 0..Horizon
  /\ buckets = [m \in MonthSet |-> buckets[m]]
  /\ \A m \in MonthSet : buckets[m] # NoBucket =>
       BucketMade(m, buckets[m]) /\ buckets[m].stored <= tick /\ tick < buckets[m].expires

RequestMade(s) ==
  \/ s.at = "idle"
  \/ s.at = "missing" /\ s.range \in Ranges /\ s.months \subseteq MonthsBetween(s.range) /\ s.months # {} /\ GoodBars(s.cached, s.since)
  \/ s.at = "direct" /\ s.range \in Ranges
  \/ /\ s.at = "fetched" /\ s.range \in Ranges /\ s.months \subseteq MonthsBetween(s.range)
     /\ GoodBars(s.cached, s.since) /\ GoodBars(s.bars, s.since) /\ OfOneFetch(s.bars, s.to, s.fetched)
  \/ s.at = "answered" /\ GoodAnswer(s)

RequestsOK == DOMAIN client = Clients /\ \A c \in Clients : RequestMade(client[c])

ClearingOK == clearing \subseteq MonthSet /\ clearedAt \in -1..Horizon /\ faults \in 0..MaxFaults

HistoryInv == Cleared /\ BucketsOK /\ RequestsOK /\ ClearingOK

-----------------------------------------------------------------------------
(* Bars: what reading and fetching yield *)

LEMMA RangeMonths ==
  ASSUME NEW r \in Ranges
  PROVE  /\ r.from \in Nat /\ r.to \in Nat /\ r.from <= r.to
         /\ MonthsBetween(r) \subseteq MonthSet /\ MonthSet \subseteq Nat
<1>1. r.from \in Nat /\ r.to \in Nat /\ r.from <= r.to /\ MonthOf(r.to) \in MonthSet /\ Months \in Nat
  BY HistoryAssumption
<1>2. MonthOf(0) = 0
  BY HistoryAssumption DEF MonthOf
<1>3. MonthOf(r.from) \in Int /\ MonthOf(0) <= MonthOf(r.from)
  BY <1>1, MonthOfGrows
<1> QED
  BY <1>1, <1>2, <1>3 DEF MonthsBetween, MonthSet

\* A bucket that has not expired is good for a request that begins now.
LEMMA BucketIsGood ==
  ASSUME NEW m \in MonthSet, NEW b, BucketMade(m, b), b.stored <= tick, tick < b.expires, tick \in Nat
  PROVE  GoodBars(b.bars, tick)
<1>1. /\ b.bars \subseteq Bar /\ b.fetched \in Nat /\ b.stored \in Nat /\ b.expires \in Nat
      /\ \A bar \in b.bars : MonthOf(bar.day) = m
      /\ b.fetched <= b.stored /\ b.stored <= b.fetched + FillTicks /\ m \in Int
      /\ RecentTtl \in Nat /\ FillTicks \in Nat
  BY HistoryAssumption DEF BucketMade, Bucket, MonthSet
<1>2. PICK to \in Int : OfOneFetch(b.bars, to, b.fetched) /\ (EndOfMonth(m) <= to \/ DayOf(b.stored) <= to)
  BY DEF BucketMade
<1>3. /\ to <= DayOf(b.fetched)
      /\ \A bar \in b.bars : bar.last >= LastTick(bar.day) \/ bar.last >= b.fetched
      /\ \A bar \in b.bars, d \in Nat : (MonthOf(d) = m /\ d <= to) => HasDay(b.bars, d)
  BY <1>1, <1>2 DEF OfOneFetch
<1>4. /\ DayOf(b.stored) \in Int /\ DayOf(b.fetched) \in Int /\ DayOf(b.fetched) <= DayOf(b.stored)
      /\ FirstOf(m) \in Int /\ EndOfMonth(m) \in Int
  <2>1. DayOf(b.stored) \in Int /\ DayOf(b.fetched) \in Int /\ DayOf(b.fetched) <= DayOf(b.stored)
    BY <1>1, DayOfGrows
  <2>2. FirstOf(m) \in Int /\ EndOfMonth(m) \in Int
    BY <1>1, DaysOfMonth
  <2> QED
    BY <2>1, <2>2
<1>5. \A bar \in b.bars : bar.day \in Nat /\ bar.last \in Nat /\ bar.day <= EndOfMonth(m)
  BY <1>1, DaysOfMonth DEF Bar
<1>6. CASE m >= MonthOf(DayOf(b.stored))
  <2>1. tick - RecentTtl < b.stored
    BY <1>1, <1>6 DEF BucketMade
  <2>2. ASSUME ShortLife PROVE DayOf(tick) \in Int /\ DayOf(tick) - 1 <= DayOf(b.stored)
    <3>1. tick - DayTicks <= b.stored
      BY <1>1, <2>1, <2>2, HistoryAssumption DEF ShortLife
    <3> QED
      BY <1>1, <3>1, NearDays
  <2>3. ShortLife => \A d \in Nat : (MonthOf(d) = m /\ d < DayOf(tick)) => d <= to
    BY <1>1, <1>2, <1>4, <2>2, DaysOfMonth
  <2>4. b.fetched >= tick - RecentTtl - FillTicks
    BY <1>1, <2>1
  <2>5. \A bar \in b.bars : Recent(bar, tick)
    BY <1>1, <1>3, <1>5, <2>4 DEF Recent
  <2> QED
    BY <1>1, <1>3, <2>3, <2>5 DEF GoodBars
<1>7. CASE m < MonthOf(DayOf(b.stored))
  <2>1. EndOfMonth(m) <= DayOf(b.stored)
    <3>1. ~(DayOf(b.stored) <= EndOfMonth(m))
      <4>1. MonthOf(EndOfMonth(m)) = m
        BY <1>1, <1>4, DaysOfMonth, HistoryAssumption DEF FirstOf, EndOfMonth
      <4> QED
        BY <1>1, <1>4, <1>7, <4>1, MonthOfGrows
    <3> QED
      BY <1>4, <3>1
  <2>2. EndOfMonth(m) <= to
    BY <1>2, <1>4, <2>1
  <2>3. \A d \in Nat : MonthOf(d) = m => d <= to
    BY <1>1, <1>2, <1>4, <2>2, DaysOfMonth
  <2>4. ASSUME NEW bar \in b.bars, bar.day # EndOfMonth(m)
        PROVE  bar.last >= LastTick(bar.day)
    <3>1. bar.day < DayOf(b.fetched)
      BY <1>2, <1>3, <1>4, <1>5, <2>2, <2>4
    <3>2. LastTick(bar.day) \in Int /\ LastTick(bar.day) < b.fetched
      BY <1>1, <1>5, <3>1, DayOver
    <3> QED
      BY <1>1, <1>3, <1>5, <3>2
  <2>5. \A bar \in b.bars : Recent(bar, tick)
    BY <1>1, <2>4 DEF Recent
  <2> QED
    BY <1>1, <1>3, <2>3, <2>5 DEF GoodBars
<1>8. MonthOf(DayOf(b.stored)) \in Int
  BY <1>4, MonthOfGrows
<1> QED
  BY <1>1, <1>6, <1>7, <1>8

LEMMA CachedAreGood ==
  ASSUME Cleared, BucketsOK, NEW months \in SUBSET MonthSet,
         \A m \in months : buckets[m] # NoBucket
  PROVE  GoodBars(CachedBars(months), tick)
<1>1. tick \in Nat
  BY DEF Cleared, Shape
<1>2. \A m \in months : GoodBars(buckets[m].bars, tick)
  BY <1>1, BucketIsGood DEF BucketsOK
<1>3. \A bar \in CachedBars(months) : \E m \in months : bar \in buckets[m].bars
  BY DEF CachedBars
<1>4. \A m \in months : buckets[m].bars \subseteq CachedBars(months)
  BY DEF CachedBars
<1> HIDE DEF CachedBars
<1>5. CachedBars(months) \subseteq Bar /\ \A bar \in CachedBars(months) : Recent(bar, tick)
  BY <1>2, <1>3 DEF GoodBars
<1>6. ASSUME ShortLife, NEW bar \in CachedBars(months), NEW d \in Nat, MonthOf(d) = MonthOf(bar.day), d < DayOf(tick)
      PROVE  HasDay(CachedBars(months), d)
  <2>1. PICK m \in months : bar \in buckets[m].bars
    BY <1>3
  <2>2. HasDay(buckets[m].bars, d)
    BY <1>2, <1>6, <2>1 DEF GoodBars
  <2> QED
    BY <1>4, <2>2 DEF HasDay
<1> QED
  BY <1>5, <1>6 DEF GoodBars

\* An answer is what lies in its range of bars that are good within it.
LEMMA AnsweredIsGood ==
  ASSUME NEW r \in Ranges, NEW since \in Int, NEW bars \in SUBSET Bar, \A bar \in bars : Recent(bar, since),
         ShortLife => \A bar \in bars, d \in r.from .. r.to :
           (MonthOf(d) = MonthOf(bar.day) /\ d < DayOf(since)) => HasDay(bars, d)
  PROVE  GoodAnswer(Answered(r, since, bars))
<1> DEFINE a == Answered(r, since, bars)
<1>1. a.range = r /\ a.since = since /\ a.bars = {bar \in bars : r.from <= bar.day /\ bar.day <= r.to}
  BY DEF Answered
<1> HIDE DEF a
<1>2. ASSUME ShortLife, NEW bar \in a.bars, NEW d \in r.from .. r.to, MonthOf(d) = MonthOf(bar.day), d < DayOf(since)
      PROVE  HasDay(a.bars, d)
  <2>1. HasDay(bars, d)
    BY <1>1, <1>2
  <2> QED
    BY <1>1, <2>1 DEF HasDay
<1> QED
  BY <1>1, <1>2 DEF GoodAnswer, a

LEMMA GoodBarsAnswer ==
  ASSUME NEW r \in Ranges, NEW since \in Int, NEW bars, GoodBars(bars, since)
  PROVE  GoodAnswer(Answered(r, since, bars))
<1>1. r.from .. r.to \subseteq Nat
  BY RangeMonths
<1> QED
  BY <1>1, AnsweredIsGood DEF GoodBars

LEMMA GoodUnion ==
  ASSUME NEW bars, NEW more, NEW since, GoodBars(bars, since), GoodBars(more, since)
  PROVE  GoodBars(bars \cup more, since)
BY DEF GoodBars, HasDay

\* What the provider has.
LEMMA ProviderHas ==
  ASSUME tick \in Nat, NEW from \in Nat, NEW to \in Int
  PROVE  /\ ProviderBars(from, to) \subseteq Bar
         /\ \A bar \in ProviderBars(from, to) :
              from <= bar.day /\ bar.day <= to /\ (bar.last >= LastTick(bar.day) \/ bar.last >= tick)
         /\ \A d \in Nat : (from <= d /\ d <= to /\ d <= DayOf(tick)) => HasDay(ProviderBars(from, to), d)
<1> DEFINE last(d) == Min({tick, LastTick(d)})
           days == from .. Min({to, DayOf(tick)})
<1>1. DayOf(tick) \in Int /\ DayTicks \in Nat \ {0}
  BY DayOfGrows, HistoryAssumption
<1>2. Min({to, DayOf(tick)}) = IF to <= DayOf(tick) THEN to ELSE DayOf(tick)
  BY <1>1, MinOfTwo
<1>3. \A d \in days : d \in Nat /\ from <= d /\ d <= to
  BY <1>1, <1>2
<1>4. \A d \in Nat : (from <= d /\ d <= to /\ d <= DayOf(tick)) => d \in days
  BY <1>1, <1>2
<1>5. \A d \in Nat : LastTick(d) \in Nat /\ last(d) = IF tick <= LastTick(d) THEN tick ELSE LastTick(d)
  <2>1. ASSUME NEW d \in Nat PROVE LastTick(d) \in Nat
    <3>1. (d + 1) * DayTicks >= DayTicks /\ (d + 1) * DayTicks \in Int
      BY <1>1
    <3> QED
      BY <1>1, <3>1 DEF LastTick
  <2> QED
    BY <2>1, MinOfTwo
<1>6. ProviderBars(from, to) = {[day |-> d, last |-> last(d)] : d \in days}
  BY DEF ProviderBars
<1> HIDE DEF last, days
<1>7. \A d \in Nat : last(d) \in Nat /\ (last(d) >= LastTick(d) \/ last(d) >= tick)
  BY <1>5
<1>8. \A bar \in ProviderBars(from, to) : \E d \in days : bar = [day |-> d, last |-> last(d)]
  BY <1>6
<1>9. \A d \in days : [day |-> d, last |-> last(d)] \in ProviderBars(from, to)
  BY <1>6
<1>10. ASSUME NEW bar \in ProviderBars(from, to)
       PROVE  bar \in Bar /\ from <= bar.day /\ bar.day <= to /\ (bar.last >= LastTick(bar.day) \/ bar.last >= tick)
  <2>1. PICK d \in days : bar = [day |-> d, last |-> last(d)]
    BY <1>8
  <2>2. bar.day = d /\ bar.last = last(d)
    BY <2>1
  <2> QED
    BY <1>3, <1>7, <2>1, <2>2 DEF Bar
<1>11. \A d \in days : HasDay(ProviderBars(from, to), d)
  BY <1>9 DEF HasDay
<1> QED
  BY <1>4, <1>10, <1>11

\* What a call that spans the missing months brings of some of them.
LEMMA FetchBrings ==
  ASSUME Cleared, RequestsOK, NEW c \in Clients, client[c].at = "missing", NEW ms \in SUBSET client[c].months
  PROVE  LET bars == InMonths(ProviderBars(FetchStart(c), FetchEnd(c)), ms)
         IN  OfOneFetch(bars, FetchEnd(c), tick) /\ GoodBars(bars, client[c].since)
<1> DEFINE s == client[c]
           from == FetchStart(c)
           to == FetchEnd(c)
           all == ProviderBars(from, to)
           bars == InMonths(all, ms)
           low == Min(s.months)
           high == Max(s.months)
<1>1. tick \in Nat /\ s.since \in Nat /\ s.since <= tick
  BY DEF Cleared, Shape, RequestTimes, Busy
<1>2. s.range \in Ranges /\ s.months \subseteq MonthsBetween(s.range) /\ s.months # {}
  BY DEF RequestsOK, RequestMade
<1>3. /\ MonthOf(s.range.from) \in Nat /\ MonthOf(s.range.to) \in Int
      /\ s.months \subseteq MonthOf(s.range.from) .. MonthOf(s.range.to)
  <2>1. MonthOf(s.range.from) \in Int /\ MonthOf(s.range.to) \in Int /\ MonthOf(s.range.from) <= MonthOf(s.range.to)
    BY <1>2, RangeMonths, MonthOfGrows
  <2>2. MonthOf(s.range.from) \in MonthsBetween(s.range)
    BY <2>1 DEF MonthsBetween
  <2> QED
    BY <1>2, <2>1, <2>2, RangeMonths DEF MonthsBetween
<1>4. low \in s.months /\ \A m \in s.months : low <= m
  <2>1. s.months \in SUBSET Int /\ \A m \in s.months : MonthOf(s.range.from) <= m
    BY <1>3
  <2>2. MonthOf(s.range.from) \in Int /\ s.months # {}
    BY <1>2, <1>3
  <2> HIDE DEF s
  <2> QED
    BY <2>1, <2>2, MinIs
<1>5. high \in s.months /\ \A m \in s.months : m <= high
  <2>1. s.months \in SUBSET Int /\ \A m \in s.months : m <= MonthOf(s.range.to)
    BY <1>3
  <2>2. MonthOf(s.range.to) \in Int /\ s.months # {}
    BY <1>2, <1>3
  <2> HIDE DEF s
  <2> QED
    BY <2>1, <2>2, MaxIs
<1>6. s.months \subseteq Nat
  BY <1>3
<1> HIDE DEF low, high
<1>7. from = FirstOf(low) /\ from \in Nat
  <2>1. from = FirstOf(low)
    BY DEF FetchStart, low
  <2>2. low * MonthDays \in Nat
    BY <1>4, <1>6, HistoryAssumption
  <2> QED
    BY <2>1, <2>2 DEF FirstOf
<1>8. EndOfMonth(high) \in Int /\ DayOf(tick) \in Int /\ DayOf(s.since) \in Int /\ DayOf(s.since) <= DayOf(tick)
  <2>1. high \in Int
    BY <1>5, <1>6
  <2>2. EndOfMonth(high) \in Int
    BY <2>1, MonthsInOrder
  <2>3. s.since \in Int /\ tick \in Int /\ s.since <= tick
    BY <1>1
  <2> QED
    BY <2>2, <2>3, DayOfGrows
<1>9. to = IF EndOfMonth(high) <= DayOf(tick) THEN EndOfMonth(high) ELSE DayOf(tick)
  BY <1>8, MinOfTwo DEF FetchEnd, high
<1>10. /\ all \subseteq Bar
       /\ \A bar \in all : bar.last >= LastTick(bar.day) \/ bar.last >= tick
       /\ \A d \in Nat : (from <= d /\ d <= to /\ d <= DayOf(tick)) => HasDay(all, d)
  <2>1. to \in Int
    BY <1>8, <1>9
  <2> HIDE DEF from, to
  <2> QED
    BY <1>1, <1>7, <2>1, ProviderHas
<1> HIDE DEF from, to, all
<1>11. bars = {bar \in all : MonthOf(bar.day) \in ms}
  BY DEF InMonths
<1>12. ASSUME NEW d \in Nat, MonthOf(d) \in ms
       PROVE  from <= d /\ d <= EndOfMonth(high)
  <2>1. low <= MonthOf(d) /\ MonthOf(d) <= high /\ MonthOf(d) \in Nat /\ low \in Int /\ high \in Int
    BY <1>4, <1>5, <1>6, <1>12
  <2>2. FirstOf(MonthOf(d)) <= d /\ d <= EndOfMonth(MonthOf(d)) /\ FirstOf(MonthOf(d)) \in Int /\ EndOfMonth(MonthOf(d)) \in Int
    BY <2>1, DaysOfMonth
  <2>3. FirstOf(low) \in Int /\ FirstOf(low) <= FirstOf(MonthOf(d)) /\ EndOfMonth(MonthOf(d)) <= EndOfMonth(high)
    BY <2>1, MonthsInOrder
  <2> QED
    BY <1>7, <1>8, <2>2, <2>3
<1>13. ASSUME NEW bar \in bars, NEW d \in Nat, MonthOf(d) = MonthOf(bar.day), d <= to
       PROVE  HasDay(bars, d)
  <2>1. MonthOf(d) \in ms
    BY <1>11, <1>13
  <2>2. HasDay(all, d)
    BY <1>8, <1>9, <1>10, <1>12, <1>13, <2>1
  <2> QED
    BY <1>11, <2>1, <2>2 DEF HasDay
<1> HIDE DEF bars
<1>14. bars \subseteq Bar /\ \A bar \in bars : bar.last >= LastTick(bar.day) \/ bar.last >= tick
  BY <1>10, <1>11
<1>15. OfOneFetch(bars, to, tick)
  BY <1>1, <1>8, <1>9, <1>13, <1>14 DEF OfOneFetch
<1>16. \A bar \in bars : Recent(bar, s.since)
  <2>1. tick >= s.since - RecentTtl - FillTicks /\ s.since - RecentTtl - FillTicks \in Int
    BY <1>1, HistoryAssumption
  <2>2. \A bar \in bars : bar.last \in Nat
    BY <1>14 DEF Bar
  <2> QED
    BY <1>1, <1>14, <2>1, <2>2 DEF Recent
<1>17. ASSUME NEW bar \in bars, NEW d \in Nat, MonthOf(d) = MonthOf(bar.day), d < DayOf(s.since)
       PROVE  d <= to
  <2>1. MonthOf(d) \in ms
    BY <1>11, <1>17
  <2> QED
    BY <1>8, <1>9, <1>12, <1>17, <2>1
<1>18. GoodBars(bars, s.since)
  BY <1>13, <1>14, <1>16, <1>17 DEF GoodBars
<1> QED
  BY <1>15, <1>18 DEF bars, all, from, to

-----------------------------------------------------------------------------
(* Bars: the steps *)

LEMMA HistoryInvInit == HistoryInit => HistoryInv
<1> SUFFICES ASSUME HistoryInit PROVE HistoryInv
  OBVIOUS
<1>1. Horizon \in Nat
  <2>1. Months * MonthDays \in Nat \ {0}
    BY HistoryAssumption
  <2>2. Months * MonthDays * DayTicks \in Nat \ {0}
    BY <2>1, HistoryAssumption
  <2> QED
    BY <2>2 DEF Horizon
<1>2. BucketsOK
  BY <1>1 DEF HistoryInit, BucketsOK
<1>3. RequestsOK
  BY DEF HistoryInit, RequestsOK, RequestMade
<1>4. ClearingOK
  BY <1>1, HistoryAssumption DEF HistoryInit, ClearingOK
<1> QED
  BY <1>2, <1>3, <1>4, ClearedInit DEF HistoryInv

\* One request moves on.
LEMMA OneRequestMoves ==
  ASSUME HistoryInv, NEW c \in Clients, NEW s, RequestMade(s), client' = [client EXCEPT ![c] = s],
         UNCHANGED <<tick, buckets, clearedAt, clearing>>, faults' \in 0..MaxFaults
  PROVE  BucketsOK' /\ RequestsOK' /\ ClearingOK'
<1>1. BucketsOK'
  BY DEF HistoryInv, BucketsOK
<1>2. DOMAIN client' = Clients /\ \A d \in Clients : client'[d] = IF d = c THEN s ELSE client[d]
  BY DEF HistoryInv, RequestsOK
<1>3. RequestsOK'
  <2> SUFFICES ASSUME NEW d \in Clients PROVE RequestMade(client[d])'
    BY <1>2 DEF RequestsOK
  <2>1. PICK a : a = client'[d] /\ RequestMade(a)
    BY <1>2 DEF HistoryInv, RequestsOK
  <2> QED
    BY <2>1 DEF RequestMade
<1>4. ClearingOK'
  BY DEF HistoryInv, ClearingOK
<1> QED
  BY <1>1, <1>3, <1>4

LEMMA FaultsOK == ASSUME HistoryInv, Fault \/ UNCHANGED faults PROVE faults' \in 0..MaxFaults
BY HistoryAssumption DEF HistoryInv, ClearingOK, Fault

LEMMA TickKeeps == ASSUME HistoryInv, TickHistory PROVE BucketsOK' /\ RequestsOK' /\ ClearingOK'
<1>1. /\ tick < Horizon /\ tick' = tick + 1 /\ UNCHANGED <<clearedAt, clearing, faults>>
      /\ client' = [c \in Clients |-> IF Busy(c) THEN client[c] ELSE [at |-> "idle"]]
      /\ buckets' = [m \in MonthSet |->
           IF buckets[m] # NoBucket /\ buckets[m].expires <= tick + 1 THEN NoBucket ELSE buckets[m]]
  BY DEF TickHistory
<1>2. tick \in Nat /\ BucketsOK /\ RequestsOK /\ ClearingOK
  BY DEF HistoryInv, Cleared, Shape
<1>3. ASSUME NEW m \in MonthSet, buckets'[m] # NoBucket
      PROVE  BucketMade(m, buckets[m])' /\ buckets'[m].stored <= tick' /\ tick' < buckets'[m].expires
  <2>1. buckets'[m] = buckets[m] /\ ~(buckets[m].expires <= tick + 1)
    BY <1>1, <1>3
  <2>2. BucketMade(m, buckets[m]) /\ buckets[m].stored <= tick
    BY <1>2, <1>3, <2>1 DEF BucketsOK
  <2>3. buckets[m].expires \in Nat /\ buckets[m].stored \in Nat
    BY <2>2 DEF BucketMade, Bucket
  <2>4. BucketMade(m, buckets[m])'
    BY <2>1, <2>2 DEF BucketMade
  <2> QED
    BY <1>1, <1>2, <2>1, <2>2, <2>3, <2>4
<1>4. BucketsOK'
  <2>1. buckets' = [m \in MonthSet |-> buckets'[m]]
    BY <1>1
  <2>2. tick' \in 0..Horizon
    <3>1. Horizon \in Int
      BY HistoryAssumption DEF Horizon
    <3>2. tick + 1 \in Nat /\ tick + 1 <= Horizon
      BY <1>1, <1>2, <3>1
    <3> QED
      BY <1>1, <3>1, <3>2
  <2> QED
    BY <1>3, <2>1, <2>2 DEF BucketsOK
<1>5. RequestsOK'
  <2> SUFFICES ASSUME NEW c \in Clients PROVE RequestMade(client[c])'
    BY <1>1 DEF RequestsOK
  <2>1. client'[c] = client[c] \/ client'[c].at = "idle"
    BY <1>1
  <2>2. RequestMade(client[c])
    BY <1>2 DEF RequestsOK
  <2>3. CASE client'[c] = client[c]
    BY <2>2, <2>3 DEF RequestMade
  <2>4. CASE client'[c].at = "idle"
    BY <2>4 DEF RequestMade
  <2> QED
    BY <2>1, <2>3, <2>4
<1>6. ClearingOK'
  BY <1>1, <1>2 DEF ClearingOK
<1> QED
  BY <1>4, <1>5, <1>6

LEMMA ClearKeeps ==
  ASSUME HistoryInv, ClearTicker \/ \E m \in MonthSet : DeleteBucket(m)
  PROVE  BucketsOK' /\ RequestsOK' /\ ClearingOK'
<1>1. tick \in 0..Horizon /\ BucketsOK /\ RequestsOK /\ ClearingOK
  BY DEF HistoryInv, BucketsOK
<1>2. CASE ClearTicker
  <2>1. BucketsOK' /\ RequestsOK'
    BY <1>1, <1>2 DEF ClearTicker, BucketsOK, RequestsOK
  <2>2. ClearingOK'
    BY <1>1, <1>2 DEF ClearTicker, ClearingOK, Scanned
  <2> QED
    BY <2>1, <2>2
<1>3. ASSUME NEW m \in MonthSet, DeleteBucket(m)
      PROVE  BucketsOK' /\ RequestsOK' /\ ClearingOK'
  <2>1. \A n \in MonthSet : buckets'[n] = IF n = m THEN NoBucket ELSE buckets[n]
    BY <1>1, <1>3 DEF DeleteBucket, BucketsOK
  <2>2. buckets' = [n \in MonthSet |-> buckets'[n]] /\ tick' = tick
    BY <1>1, <1>3 DEF DeleteBucket, BucketsOK
  <2>3. ASSUME NEW n \in MonthSet, buckets'[n] # NoBucket
        PROVE  BucketMade(n, buckets[n])' /\ buckets'[n].stored <= tick' /\ tick' < buckets'[n].expires
    <3>1. buckets'[n] = buckets[n]
      BY <2>1, <2>3
    <3> QED
      BY <1>1, <2>2, <2>3, <3>1 DEF BucketsOK, BucketMade
  <2>4. BucketsOK'
    BY <1>1, <2>2, <2>3 DEF BucketsOK
  <2>5. RequestsOK' /\ ClearingOK'
    BY <1>1, <1>3 DEF DeleteBucket, RequestsOK, ClearingOK
  <2> QED
    BY <2>4, <2>5
<1> QED
  BY <1>2, <1>3

LEMMA ReadKeeps ==
  ASSUME HistoryInv, NEW c \in Clients, NEW r \in Ranges, ReadBuckets(c, r)
  PROVE  BucketsOK' /\ RequestsOK' /\ ClearingOK'
<1> DEFINE missing == {m \in MonthsBetween(r) : buckets[m] = NoBucket}
           cached  == CachedBars(MonthsBetween(r) \ missing)
           asking == [at |-> "missing", range |-> r, since |-> tick, months |-> missing, cached |-> cached]
           s == IF missing = {} THEN Answered(r, tick, cached) ELSE asking
<1>1. client' = [client EXCEPT ![c] = s] /\ UNCHANGED <<tick, buckets, clearedAt, clearing, faults>>
  BY DEF ReadBuckets
<1>2. MonthsBetween(r) \ missing \in SUBSET MonthSet /\ \A m \in MonthsBetween(r) \ missing : buckets[m] # NoBucket
  BY RangeMonths
<1>3. missing \subseteq MonthsBetween(r)
  OBVIOUS
<1> HIDE DEF missing
<1>4. GoodBars(cached, tick)
  BY <1>2, CachedAreGood DEF HistoryInv
<1> HIDE DEF cached
<1>5. RequestMade(Answered(r, tick, cached))
  <2>1. tick \in Int
    BY DEF HistoryInv, Cleared, Shape
  <2> QED
    BY <1>4, <2>1, GoodBarsAnswer DEF RequestMade, Answered
<1>6. missing # {} => RequestMade(asking)
  BY <1>3, <1>4 DEF RequestMade
<1> HIDE DEF asking
<1>7. RequestMade(s)
  BY <1>5, <1>6
<1> HIDE DEF s
<1> QED
  BY <1>1, <1>7, FaultsOK, OneRequestMoves

\* A failure of Redis or of the provider: the provider is asked directly, or the request fails.
LEMMA FailureKeeps ==
  ASSUME HistoryInv, NEW c \in Clients,
         (\E r \in Ranges : ReadFails(c, r)) \/ FetchFails(c) \/ DirectFails(c)
  PROVE  BucketsOK' /\ RequestsOK' /\ ClearingOK'
<1>1. Fault /\ UNCHANGED <<tick, buckets, clearedAt, clearing>>
  BY DEF ReadFails, FetchFails, DirectFails
<1>2. ASSUME NEW r \in Ranges, ReadFails(c, r)
      PROVE  BucketsOK' /\ RequestsOK' /\ ClearingOK'
  <2> DEFINE s == [at |-> "direct", range |-> r, since |-> tick]
  <2>1. client' = [client EXCEPT ![c] = s]
    BY <1>2 DEF ReadFails
  <2>2. RequestMade(s)
    BY DEF RequestMade
  <2> HIDE DEF s
  <2> QED
    BY <1>1, <2>1, <2>2, FaultsOK, OneRequestMoves
<1>3. CASE FetchFails(c)
  <2> DEFINE s == [at |-> "direct", range |-> client[c].range, since |-> client[c].since]
  <2>1. client' = [client EXCEPT ![c] = s] /\ client[c].at = "missing"
    BY <1>3 DEF FetchFails
  <2>2. RequestMade(s)
    BY <2>1 DEF HistoryInv, RequestsOK, RequestMade
  <2> HIDE DEF s
  <2> QED
    BY <1>1, <2>1, <2>2, FaultsOK, OneRequestMoves
<1>4. CASE DirectFails(c)
  <2> DEFINE s == [at |-> "idle"]
  <2>1. client' = [client EXCEPT ![c] = s]
    BY <1>4 DEF DirectFails
  <2>2. RequestMade(s)
    BY DEF RequestMade
  <2> HIDE DEF s
  <2> QED
    BY <1>1, <2>1, <2>2, FaultsOK, OneRequestMoves
<1> QED
  BY <1>2, <1>3, <1>4

LEMMA FetchKeeps ==
  ASSUME HistoryInv, NEW c \in Clients, NEW ms \in SUBSET MonthSet, FetchMissing(c, ms)
  PROVE  BucketsOK' /\ RequestsOK' /\ ClearingOK'
<1> DEFINE bars == InMonths(ProviderBars(FetchStart(c), FetchEnd(c)), ms)
           s == [at |-> "fetched", range |-> client[c].range, since |-> client[c].since,
                 months |-> client[c].months, cached |-> client[c].cached,
                 bars |-> bars, to |-> FetchEnd(c), fetched |-> tick]
<1>1. /\ client[c].at = "missing" /\ ms \subseteq client[c].months /\ client' = [client EXCEPT ![c] = s]
      /\ UNCHANGED <<tick, buckets, clearedAt, clearing>> /\ (Fault \/ UNCHANGED faults)
  BY DEF FetchMissing
<1>2. OfOneFetch(bars, FetchEnd(c), tick) /\ GoodBars(bars, client[c].since)
  BY <1>1, FetchBrings DEF HistoryInv
<1>3. client[c].range \in Ranges /\ client[c].months \subseteq MonthsBetween(client[c].range) /\ GoodBars(client[c].cached, client[c].since)
  BY <1>1 DEF HistoryInv, RequestsOK, RequestMade
<1> HIDE DEF bars
<1>4. RequestMade(s)
  BY <1>2, <1>3 DEF RequestMade
<1> HIDE DEF s
<1> QED
  BY <1>1, <1>4, FaultsOK, OneRequestMoves

LEMMA DirectKeeps ==
  ASSUME HistoryInv, NEW c \in Clients, AskDirectly(c)
  PROVE  BucketsOK' /\ RequestsOK' /\ ClearingOK'
<1> DEFINE r == client[c].range
           since == client[c].since
           bars == ProviderBars(r.from, r.to)
<1>1. /\ client[c].at = "direct" /\ client' = [client EXCEPT ![c] = Answered(r, since, bars)]
      /\ UNCHANGED <<tick, buckets, clearedAt, clearing, faults>>
  BY DEF AskDirectly
<1>2. r \in Ranges
  BY <1>1 DEF HistoryInv, RequestsOK, RequestMade
<1>3. r.from \in Nat /\ r.to \in Nat
  BY <1>2, RangeMonths
<1>4. tick \in Nat /\ since \in Nat /\ since <= tick
  BY <1>1 DEF HistoryInv, Cleared, Shape, RequestTimes, Busy
<1>5. DayOf(since) \in Int /\ DayOf(tick) \in Int /\ DayOf(since) <= DayOf(tick)
  BY <1>4, DayOfGrows
<1>6. /\ bars \subseteq Bar
      /\ \A bar \in bars : bar.last >= LastTick(bar.day) \/ bar.last >= tick
      /\ \A d \in Nat : (r.from <= d /\ d <= r.to /\ d <= DayOf(tick)) => HasDay(bars, d)
  BY <1>3, <1>4, ProviderHas
<1> HIDE DEF bars, r, since
<1>7. \A bar \in bars : Recent(bar, since)
  <2>1. tick >= since - RecentTtl - FillTicks /\ since - RecentTtl - FillTicks \in Int
    BY <1>4, HistoryAssumption
  <2>2. \A bar \in bars : bar.last \in Nat
    BY <1>6 DEF Bar
  <2> QED
    BY <1>4, <1>6, <2>1, <2>2 DEF Recent
<1>8. \A d \in r.from .. r.to : d < DayOf(since) => HasDay(bars, d)
  BY <1>3, <1>5, <1>6
<1>9. GoodAnswer(Answered(r, since, bars))
  BY <1>2, <1>4, <1>6, <1>7, <1>8, AnsweredIsGood
<1>10. RequestMade(Answered(r, since, bars))
  BY <1>9 DEF RequestMade, Answered
<1> QED
  BY <1>1, <1>10, FaultsOK, OneRequestMoves

\* A month that is stored makes a bucket.
LEMMA StoredIsMade ==
  ASSUME HistoryInv, NEW c \in Clients, client[c].at = "fetched", NEW m \in MonthSet, Storable(c, m)
  PROVE  BucketMade(m, [bars |-> InMonths(client[c].bars, {m}), expires |-> tick + Ttl(m),
                        fetched |-> client[c].fetched, stored |-> tick])
<1> DEFINE s == client[c]
           bars == InMonths(s.bars, {m})
           b == [bars |-> bars, expires |-> tick + Ttl(m), fetched |-> s.fetched, stored |-> tick]
<1>1. /\ s.since \in Nat /\ tick <= s.since + FillTicks /\ tick \in Nat
      /\ s.fetched \in Nat /\ s.since <= s.fetched /\ s.fetched <= tick
  BY DEF HistoryInv, Cleared, Shape, RequestTimes, Busy
<1>2. OfOneFetch(s.bars, s.to, s.fetched)
  BY DEF HistoryInv, RequestsOK, RequestMade
<1>3. bars # {} /\ Complete(c, m)
  BY DEF Storable
<1>4. bars = {bar \in s.bars : MonthOf(bar.day) = m}
  BY DEF InMonths
<1>5. s.to \in Int /\ DayOf(tick) \in Int /\ EndOfMonth(m) \in Int /\ m \in Int
  BY <1>1, <1>2, DayOfGrows, DaysOfMonth DEF OfOneFetch, MonthSet
<1>6. EndOfMonth(m) <= s.to \/ DayOf(tick) <= s.to
  BY <1>3, <1>5, MinOfTwo DEF Complete
<1> HIDE DEF bars
<1>7. OfOneFetch(bars, s.to, s.fetched)
  <2>1. bars \subseteq Bar /\ \A bar \in bars : bar.last >= LastTick(bar.day) \/ bar.last >= s.fetched
    BY <1>2, <1>4 DEF OfOneFetch
  <2>2. ASSUME NEW bar \in bars, NEW d \in Nat, MonthOf(d) = MonthOf(bar.day), d <= s.to
        PROVE  HasDay(bars, d)
    <3>1. HasDay(s.bars, d)
      BY <1>2, <1>4, <2>2 DEF OfOneFetch
    <3> QED
      BY <1>4, <2>2, <3>1 DEF HasDay
  <2> QED
    BY <1>2, <2>1, <2>2 DEF OfOneFetch
<1>8. Ttl(m) \in Nat /\ Ttl(m) = IF m >= MonthOf(DayOf(tick)) THEN RecentTtl ELSE LongTtl
  BY HistoryAssumption DEF Ttl
<1> HIDE DEF s
<1>9. b.bars = bars /\ b.expires = tick + Ttl(m) /\ b.fetched = s.fetched /\ b.stored = tick
  OBVIOUS
<1>10. b \in Bucket
  BY <1>1, <1>7, <1>8 DEF Bucket, OfOneFetch
<1> HIDE DEF b
<1>11. tick <= s.fetched + FillTicks
  BY <1>1, HistoryAssumption
<1>12. BucketMade(m, b)
  BY <1>1, <1>3, <1>4, <1>5, <1>6, <1>7, <1>8, <1>9, <1>10, <1>11 DEF BucketMade
<1> QED
  BY <1>12 DEF b, bars, s

LEMMA StoreKeeps ==
  ASSUME HistoryInv, NEW c \in Clients, NEW ms \in SUBSET MonthSet, StoreMonths(c, ms)
  PROVE  BucketsOK' /\ RequestsOK' /\ ClearingOK'
<1> DEFINE s == client[c]
           reply == Answered(s.range, s.since, s.cached \cup s.bars)
           New(m) == [bars |-> InMonths(s.bars, {m}), expires |-> tick + Ttl(m), fetched |-> s.fetched, stored |-> tick]
<1>1. /\ s.at = "fetched" /\ client' = [client EXCEPT ![c] = reply]
      /\ UNCHANGED <<tick, clearedAt, clearing>> /\ (Fault \/ UNCHANGED faults)
      /\ buckets' = [m \in MonthSet |-> IF m \in ms THEN New(m) ELSE buckets[m]]
      /\ \A m \in ms : Storable(c, m)
  BY DEF StoreMonths
<1>2. tick \in Nat /\ BucketsOK /\ RequestsOK /\ ClearingOK
  BY DEF HistoryInv, Cleared, Shape
<1>3. RequestMade(reply)
  <2>1. s.range \in Ranges /\ GoodBars(s.cached, s.since) /\ GoodBars(s.bars, s.since)
    BY <1>1, <1>2 DEF RequestsOK, RequestMade
  <2>2. s.since \in Int
    BY <1>1 DEF HistoryInv, Cleared, RequestTimes, Busy
  <2>3. GoodBars(s.cached \cup s.bars, s.since)
    BY <2>1, GoodUnion
  <2>4. GoodAnswer(reply)
    BY <2>1, <2>2, <2>3, GoodBarsAnswer
  <2> QED
    BY <2>4 DEF RequestMade, Answered
<1>4. ASSUME NEW m \in MonthSet, buckets'[m] # NoBucket
      PROVE  BucketMade(m, buckets[m])' /\ buckets'[m].stored <= tick' /\ tick' < buckets'[m].expires
  <2>1. CASE m \in ms
    <3>1. buckets'[m] = New(m)
      BY <1>1, <2>1
    <3>2. BucketMade(m, New(m))
      BY <1>1, <2>1, StoredIsMade
    <3>3. New(m).stored = tick /\ New(m).expires = tick + Ttl(m)
      OBVIOUS
    <3> HIDE DEF New
    <3>4. Ttl(m) \in Nat \ {0}
      BY HistoryAssumption DEF Ttl
    <3>5. BucketMade(m, buckets[m])'
      BY <3>1, <3>2 DEF BucketMade
    <3> QED
      BY <1>1, <1>2, <3>1, <3>3, <3>4, <3>5
  <2>2. CASE m \notin ms
    <3>1. buckets'[m] = buckets[m]
      BY <1>1, <2>2
    <3> QED
      BY <1>1, <1>2, <1>4, <3>1 DEF BucketsOK, BucketMade
  <2> QED
    BY <2>1, <2>2
<1>5. BucketsOK'
  <2>1. buckets' = [m \in MonthSet |-> buckets'[m]]
    BY <1>1
  <2>2. tick' \in 0..Horizon
    BY <1>1, <1>2 DEF BucketsOK
  <2> QED
    BY <1>4, <2>1, <2>2 DEF BucketsOK
<1> HIDE DEF reply
<1>6. RequestsOK'
  <2>1. DOMAIN client' = Clients /\ \A d \in Clients : client'[d] = IF d = c THEN reply ELSE client[d]
    BY <1>1, <1>2 DEF RequestsOK
  <2> SUFFICES ASSUME NEW d \in Clients PROVE RequestMade(client[d])'
    BY <2>1 DEF RequestsOK
  <2>2. PICK a : a = client'[d] /\ RequestMade(a)
    BY <1>2, <1>3, <2>1 DEF RequestsOK
  <2> QED
    BY <2>2 DEF RequestMade
<1>7. ClearingOK'
  BY <1>1, <1>2, FaultsOK DEF ClearingOK
<1> QED
  BY <1>5, <1>6, <1>7

LEMMA HistoryInvNext ==
  ASSUME HistoryInv, [HistoryNext]_historyVars PROVE HistoryInv'
<1>1. Cleared'
  BY ClearedNext DEF HistoryInv
<1>2. CASE UNCHANGED historyVars
  <2>1. BucketsOK' /\ RequestsOK' /\ ClearingOK'
    BY <1>2 DEF historyVars, HistoryInv, BucketsOK, RequestsOK, ClearingOK
  <2> QED
    BY <1>1, <2>1 DEF HistoryInv
<1>3. CASE HistoryNext
  <2>1. BucketsOK' /\ RequestsOK' /\ ClearingOK'
    BY <1>3, TickKeeps, ClearKeeps, ReadKeeps, FailureKeeps, FetchKeeps, DirectKeeps, StoreKeeps DEF HistoryNext
  <2> QED
    BY <1>1, <2>1 DEF HistoryInv
<1> QED
  BY <1>2, <1>3

LEMMA GivenAnswersAreGood == ASSUME ShortLife PROVE HistoryInv => AnswersMatchTheProvider
<1> SUFFICES ASSUME HistoryInv, NEW a \in GivenAnswers
             PROVE  /\ \A bar \in a.bars : a.range.from <= bar.day /\ bar.day <= a.range.to
                    /\ \A m \in MonthsBetween(a.range) : InMonths(a.bars, {m}) # {} =>
                         \A d \in a.range.from .. a.range.to :
                           (MonthOf(d) = m /\ d < DayOf(a.since)) => \E bar \in a.bars : bar.day = d
                    /\ \A bar \in a.bars : bar.day # EndOfMonth(MonthOf(bar.day)) =>
                         bar.last >= Min({LastTick(bar.day), a.since - RecentTtl - FillTicks})
  BY DEF AnswersMatchTheProvider, AnswersAreWhole, AnswersAreRecent
<1>1. PICK c \in Clients : a = client[c] /\ a.at = "answered"
  BY DEF GivenAnswers
<1>2. GoodAnswer(a)
  BY <1>1 DEF HistoryInv, RequestsOK, RequestMade
<1>3. \A bar \in a.bars : a.range.from <= bar.day /\ bar.day <= a.range.to /\ bar \in Bar
  BY <1>2 DEF GoodAnswer
<1>4. ASSUME NEW m \in MonthsBetween(a.range), InMonths(a.bars, {m}) # {}, NEW d \in a.range.from .. a.range.to,
             MonthOf(d) = m, d < DayOf(a.since)
      PROVE  \E bar \in a.bars : bar.day = d
  <2>1. PICK bar \in a.bars : MonthOf(bar.day) = m
    BY <1>4 DEF InMonths
  <2> QED
    BY <1>2, <1>4, <2>1 DEF GoodAnswer, HasDay
<1>5. ASSUME NEW bar \in a.bars, bar.day # EndOfMonth(MonthOf(bar.day))
      PROVE  bar.last >= Min({LastTick(bar.day), a.since - RecentTtl - FillTicks})
  <2>1. LastTick(bar.day) \in Int /\ a.since - RecentTtl - FillTicks \in Int /\ bar.last \in Int
    BY <1>2, <1>3, HistoryAssumption DEF GoodAnswer, Bar, LastTick
  <2>2. bar.last >= LastTick(bar.day) \/ bar.last >= a.since - RecentTtl - FillTicks
    BY <1>2, <1>5 DEF GoodAnswer, Recent
  <2> QED
    BY <2>1, <2>2, MinOfTwo
<1> QED
  BY <1>3, <1>4, <1>5

LEMMA HistoryTypes == HistoryInv => HistoryTypeOK
<1> SUFFICES ASSUME HistoryInv PROVE HistoryTypeOK
  OBVIOUS
<1>1. BucketsOK /\ RequestsOK /\ ClearingOK
  BY DEF HistoryInv
<1>2. \A m \in MonthSet : buckets[m] # NoBucket =>
        buckets[m] \in Bucket /\ buckets[m].bars # {} /\ buckets[m].expires > tick
  <2> SUFFICES ASSUME NEW m \in MonthSet, buckets[m] # NoBucket
               PROVE  buckets[m] \in Bucket /\ buckets[m].bars # {} /\ buckets[m].expires > tick
    OBVIOUS
  <2>1. BucketMade(m, buckets[m]) /\ tick < buckets[m].expires
    BY <1>1 DEF BucketsOK
  <2>2. buckets[m] \in Bucket /\ buckets[m].bars # {} /\ buckets[m].expires \in Nat
    BY <2>1 DEF BucketMade, Bucket
  <2>3. tick \in Int
    BY DEF HistoryInv, Cleared, Shape
  <2> QED
    BY <2>1, <2>2, <2>3
<1>3. buckets \in [MonthSet -> {NoBucket} \cup Bucket]
  BY <1>1, <1>2 DEF BucketsOK
<1>4. \A c \in Clients : client[c].at \in {"idle", "missing", "direct", "fetched", "answered"}
  BY <1>1 DEF RequestsOK, RequestMade
<1> QED
  BY <1>1, <1>2, <1>3, <1>4 DEF HistoryTypeOK, BucketsOK, ClearingOK

\* Buckets, fetched bars and answers are what the provider had when they say they
\* were fetched, through expiry, clearing and failures.
THEOREM HistoryIsConsistent == HistorySpec => []HistoryInv
<1>1. HistoryInv /\ [HistoryNext]_historyVars => HistoryInv'
  BY HistoryInvNext
<1> QED
  BY <1>1, HistoryInvInit, PTL DEF HistorySpec

\* CachingMarketProvider.get_history: an answer put together from buckets of
\* several ages and a fetch is one the provider might have given a short while
\* ago.  The lifetime of the buckets of the running month is no more than a day:
\* it is ten minutes unless it is configured otherwise, and a bucket that lives
\* longer may lack a day that is over.
THEOREM AnswersAreTheProviders ==
  ASSUME RecentTtl <= DayTicks
  PROVE  HistorySpec => []AnswersMatchTheProvider
<1>1. HistoryInv => AnswersMatchTheProvider
  BY GivenAnswersAreGood DEF ShortLife
<1> QED
  BY <1>1, HistoryIsConsistent, PTL

-----------------------------------------------------------------------------
(* Exchange rates: the inductive invariant *)

Services ==
  [rates: Rates, failed: SUBSET Pairs, covered: [Pairs -> {NotCovered} \cup Days \X Days], missed: SUBSET Pairs]

\* A session holds published rates only; a range counts as covered when all
\* its rates are there, or when asking for the pair failed.
Sound(svc) ==
  /\ svc \in Services
  /\ svc.failed \subseteq svc.missed
  /\ \A p \in Pairs :
       /\ svc.rates[p] \subseteq published[p]
       /\ svc.covered[p] = NotCovered \/ p \in svc.missed
            \/ published[p] \cap svc.covered[p][1] .. svc.covered[p][2] \subseteq svc.rates[p]

\* What a conversion does to a session: it adds rates and failures.
Extends(old, svc) ==
  /\ Sound(svc)
  /\ old.missed \subseteq svc.missed /\ svc.covered = old.covered

\* The day of a rate is right for a date.
DayIsRight(svc, p, day, asOf) ==
  /\ day \in Int /\ day <= asOf
  /\ day >= Newest(svc, p, asOf) \/ p \in svc.missed

RightLegs(svc, legs, asOf) ==
  \A i \in DOMAIN legs : legs[i].pair \in Pairs /\ DayIsRight(svc, legs[i].pair, legs[i].day, asOf)

\* What resolving a pair gives.
ResultOK(old, result, asOf) ==
  /\ Extends(old, result.svc)
  /\ result.found \in BOOLEAN /\ RightLegs(result.svc, result.legs, asOf)
  /\ result.legs \in Seq([pair: Pairs, day: Int])

\* A published pair is used as it is, unless asking for it failed.
UsesThePair(svc, base, target, asOf, found, legs) ==
  (base # target /\ Newest(svc, <<base, target>>, asOf) # NoRate /\ <<base, target>> \notin svc.missed)
    => (found /\ \E i \in DOMAIN legs : legs[i].pair = <<base, target>>)

Told(a) == a.state \in {"converted", "unavailable"}
AnswerIsRight(svc, a) ==
  /\ a.state \in {"none", "converted", "unavailable", "locked"}
  /\ Told(a) => (/\ RightLegs(svc, a.legs, a.asOf)
                 /\ UsesThePair(svc, a.base, a.quote, a.asOf, a.state = "converted", a.legs))

FxInv ==
  /\ published \in PublishedRates /\ fxRates = [p \in Pairs |-> {}]
  /\ service = [r \in Reports |-> service[r]] /\ answer = [r \in Reports |-> answer[r]]
  /\ \A r \in Reports :
       /\ Sound(service[r]) /\ AnswerIsRight(service[r], answer[r])
       /\ service[r].rates # Opened.rates => writer = r
  /\ writer \in {Nobody} \cup Reports /\ downs \in 0..MaxDown

-----------------------------------------------------------------------------
(* Resolving a pair *)

World == published \in PublishedRates /\ fxRates = [p \in Pairs |-> {}]

LEMMA DaysAre == /\ \A d \in Days : d \in Int /\ d >= 0
                 /\ \A c \in Days \X Days : c[1] \in Int /\ c[2] \in Int
<1>1. \A d \in Days : d \in Nat
  BY FxAssumption
<1>2. \A n \in Nat : n \in Int /\ n >= 0
  OBVIOUS
<1>3. \A d \in Days : d \in Int /\ d >= 0
  BY <1>1, <1>2
<1>4. ASSUME NEW c \in Days \X Days PROVE c[1] \in Int /\ c[2] \in Int
  <2>1. c[1] \in Days /\ c[2] \in Days
    OBVIOUS
  <2> QED
    BY <1>3, <2>1
<1> QED
  BY <1>3, <1>4

LEMMA WorldIs ==
  ASSUME World, NEW p \in Pairs
  PROVE  published[p] \in SUBSET Int /\ published[p] \in SUBSET Nat /\ published[p] \subseteq Days /\ fxRates[p] = {}
<1>1. published \in [Pairs -> SUBSET Days]
  BY FxAssumption DEF World
<1>2. published[p] \subseteq Days /\ fxRates[p] = {}
  BY <1>1 DEF World
<1>3. \A d \in Days : d \in Nat /\ d \in Int
  BY FxAssumption
<1>4. published[p] \subseteq Nat /\ published[p] \subseteq Int
  BY <1>2, <1>3
<1> QED
  BY <1>2, <1>4

\* The newest day of a set at or before a date.
LEMMA NewestOf ==
  ASSUME NEW S \in SUBSET Nat, NEW asOf \in Int
  PROVE  LET days == {d \in S : d <= asOf}
             day == IF days = {} THEN NoRate ELSE Max(days)
         IN  /\ day \in Int /\ (day = NoRate <=> days = {}) /\ \A d \in days : d <= day
             /\ (day = NoRate \/ day \in days) /\ day >= NoRate
<1> DEFINE days == {d \in S : d <= asOf}
<1>1. days \in SUBSET Int /\ \A d \in days : d <= asOf /\ d >= 0
  <2>1. \A d \in S : d \in Int /\ d >= 0
    OBVIOUS
  <2> QED
    BY <2>1
<1>2. CASE days = {}
  BY <1>2 DEF NoRate
<1>3. CASE days # {}
  <2> HIDE DEF days
  <2>1. Max(days) \in days /\ \A d \in days : d <= Max(days)
    BY <1>1, <1>3, MaxIs
  <2>2. Max(days) \in Int /\ Max(days) >= 0
    BY <1>1, <2>1
  <2> QED
    BY <1>3, <2>1, <2>2 DEF days, NoRate
<1> QED
  BY <1>2, <1>3

LEMMA StoredIs ==
  ASSUME World, NEW svc, Sound(svc), NEW p \in Pairs, NEW asOf \in Int, asOf >= 0
  PROVE  /\ Stored(svc, p, asOf) \in Int /\ Stored(svc, p, asOf) <= asOf /\ Stored(svc, p, asOf) >= NoRate
         /\ \A d \in svc.rates[p] : d <= asOf => d <= Stored(svc, p, asOf)
<1>1. svc.rates[p] \in SUBSET Nat /\ fxRates[p] \cup svc.rates[p] = svc.rates[p]
  BY WorldIs DEF Sound
<1> DEFINE S == svc.rates[p]
           days == {d \in S : d <= asOf}
           day == IF days = {} THEN NoRate ELSE Max(days)
<1>2. Stored(svc, p, asOf) = day
  BY <1>1 DEF Stored
<1>3. /\ day \in Int /\ (day = NoRate <=> days = {}) /\ \A d \in days : d <= day
      /\ (day = NoRate \/ day \in days) /\ day >= NoRate
  <2> HIDE DEF S
  <2> QED
    BY <1>1, NewestOf DEF S
<1> HIDE DEF day
<1>4. day <= asOf
  BY <1>3 DEF NoRate
<1> QED
  BY <1>2, <1>3, <1>4

LEMMA NewestIs ==
  ASSUME World, NEW svc, NEW p \in Pairs, NEW asOf \in Int, Window(svc, p, asOf) \subseteq {d \in Int : d <= asOf}
  PROVE  /\ Newest(svc, p, asOf) \in Int /\ Newest(svc, p, asOf) >= NoRate
         /\ Newest(svc, p, asOf) # NoRate => Newest(svc, p, asOf) \in published[p] \cap Window(svc, p, asOf)
<1> DEFINE S == published[p] \cap Window(svc, p, asOf)
           days == {d \in S : d <= asOf}
           day == IF days = {} THEN NoRate ELSE Max(days)
<1>1. S \in SUBSET Nat /\ days = S
  BY WorldIs
<1>2. Newest(svc, p, asOf) = day
  BY <1>1 DEF Newest
<1>3. /\ day \in Int /\ (day = NoRate <=> days = {}) /\ \A d \in days : d <= day
      /\ (day = NoRate \/ day \in days) /\ day >= NoRate
  <2> HIDE DEF S
  <2> QED
    BY <1>1, NewestOf
<1> HIDE DEF day
<1> QED
  BY <1>1, <1>2, <1>3

LEMMA WindowIs ==
  ASSUME NEW svc, Sound(svc), NEW p \in Pairs, NEW asOf \in Int
  PROVE  Window(svc, p, asOf) \subseteq {d \in Int : d <= asOf}
<1>1. LookbackDays \in Nat
  BY FxAssumption
<1>2. CASE IsCovered(svc, p, asOf)
  <2>1. svc.covered[p] \in Days \X Days
    BY <1>2 DEF IsCovered, Sound, Services
  <2>2. svc.covered[p][1] \in Int
    BY <2>1, DaysAre
  <2> QED
    BY <1>2, <2>2 DEF Window
<1>3. CASE ~IsCovered(svc, p, asOf)
  BY <1>1, <1>3 DEF Window
<1> QED
  BY <1>2, <1>3

\* A right day stays right while the session learns more.
LEMMA RightStays ==
  ASSUME NEW old, NEW svc, Extends(old, svc), NEW p, NEW day, NEW asOf, DayIsRight(old, p, day, asOf)
  PROVE  DayIsRight(svc, p, day, asOf)
<1>1. Newest(svc, p, asOf) = Newest(old, p, asOf)
  BY DEF Extends, Newest, Window, IsCovered
<1> QED
  BY <1>1 DEF Extends, DayIsRight

LEMMA RightLegsStay ==
  ASSUME NEW old, NEW svc, Extends(old, svc), NEW legs, NEW asOf, RightLegs(old, legs, asOf)
  PROVE  RightLegs(svc, legs, asOf)
BY RightStays DEF RightLegs

LEMMA ExtendsOn ==
  ASSUME NEW a, NEW b, NEW c, Extends(a, b), Extends(b, c)
  PROVE  Extends(a, c)
BY DEF Extends

\* A fetch of the days before a date.
LEMMA FetchIs ==
  ASSUME World, NEW svc, Sound(svc), NEW p \in Pairs, NEW from, NEW to, NEW outage
  PROVE  LET next == Fetch(svc, p, from, to, outage)
         IN  /\ Extends(svc, next)
             /\ p \in next.missed \/ published[p] \cap from .. to \subseteq next.rates[p]
<1> DEFINE next == Fetch(svc, p, from, to, outage)
           bars == Bars(p, from, to, outage)
           fails == Fails(p, from, to, outage)
<1>1. bars \subseteq published[p] /\ (~fails => bars = published[p] \cap from .. to)
  BY DEF Bars, Fails
<1>2. svc \in Services /\ svc.failed \subseteq svc.missed
  BY DEF Sound
<1>3. published[p] \subseteq Days
  BY WorldIs
<1>4. CASE fails
  <2>1. next = [svc EXCEPT !.failed = @ \cup {p}, !.missed = @ \cup {p}]
    BY <1>4 DEF Fetch
  <2> HIDE DEF next
  <2>2. /\ next.failed = svc.failed \cup {p} /\ next.missed = svc.missed \cup {p}
        /\ next.rates = svc.rates /\ next.covered = svc.covered
    BY <1>2, <2>1 DEF Services
  <2>3. next \in Services
    BY <1>2, <2>1 DEF Services
  <2>4. Sound(next)
    BY <1>2, <2>2, <2>3 DEF Sound
  <2> QED
    BY <2>2, <2>4 DEF Extends, next
<1>5. CASE ~fails
  <2> HIDE DEF bars
  <2>1. next = [svc EXCEPT !.rates[p] = @ \cup bars]
    BY <1>5 DEF Fetch, bars
  <2> HIDE DEF fails
  <2>2. svc.rates \in [Pairs -> SUBSET Days] /\ bars \subseteq Days
    BY <1>1, <1>2, <1>3 DEF Services, Rates
  <2>3. /\ next.failed = svc.failed /\ next.missed = svc.missed /\ next.covered = svc.covered
        /\ next.rates = [svc.rates EXCEPT ![p] = @ \cup bars]
    BY <1>2, <2>1 DEF Services
  <2>4. next.rates \in [Pairs -> SUBSET Days]
    BY <2>2, <2>3
  <2>5. next = [rates |-> next.rates, failed |-> next.failed, covered |-> next.covered, missed |-> next.missed]
    BY <1>2, <2>1 DEF Services
  <2> HIDE DEF next
  <2>6. next \in Services
    BY <1>2, <2>3, <2>4, <2>5 DEF Services, Rates
  <2>7. \A q \in Pairs : next.rates[q] = IF q = p THEN svc.rates[q] \cup bars ELSE svc.rates[q]
    BY <2>2, <2>3
  <2>8. Sound(next)
    BY <1>1, <2>3, <2>6, <2>7 DEF Sound
  <2> QED
    BY <1>1, <1>5, <2>3, <2>7, <2>8 DEF Extends, next
<1> QED
  BY <1>4, <1>5

LEMMA ObservedIs ==
  ASSUME World, NEW svc, Sound(svc), NEW p \in Pairs, NEW asOf \in Days, NEW outage
  PROVE  LET o == Observed(svc, p, asOf, outage)
         IN  Extends(svc, o.svc) /\ DayIsRight(o.svc, p, o.day, asOf)
<1> DEFINE o == Observed(svc, p, asOf, outage)
<1>1. asOf \in Int /\ asOf >= 0
  BY FxAssumption
<1>2. Extends(svc, svc)
  BY DEF Extends
<1>3. /\ Newest(svc, p, asOf) \in Int /\ Newest(svc, p, asOf) >= NoRate
      /\ Newest(svc, p, asOf) # NoRate => Newest(svc, p, asOf) \in published[p] \cap Window(svc, p, asOf)
  BY <1>1, WindowIs, NewestIs
<1>4. Window(svc, p, asOf) \subseteq {d \in Int : d <= asOf}
  BY <1>1, WindowIs
<1>5. CASE Stored(svc, p, asOf) = asOf \/ IsCovered(svc, p, asOf) \/ p \in svc.failed
  <2>1. o = [svc |-> svc, day |-> Stored(svc, p, asOf)]
    BY <1>5 DEF Observed
  <2>2. /\ Stored(svc, p, asOf) \in Int /\ Stored(svc, p, asOf) <= asOf /\ Stored(svc, p, asOf) >= NoRate
        /\ \A d \in svc.rates[p] : d <= asOf => d <= Stored(svc, p, asOf)
    BY <1>1, StoredIs
  <2>3. Stored(svc, p, asOf) >= Newest(svc, p, asOf) \/ p \in svc.missed
    <3>1. CASE Newest(svc, p, asOf) = NoRate
      BY <2>2, <3>1
    <3>2. CASE Newest(svc, p, asOf) # NoRate
      <4>1. Newest(svc, p, asOf) <= asOf
        BY <1>3, <1>4, <3>2
      <4>2. CASE Stored(svc, p, asOf) = asOf
        BY <4>1, <4>2
      <4>3. CASE IsCovered(svc, p, asOf) /\ p \notin svc.missed
        <5>1. published[p] \cap svc.covered[p][1] .. svc.covered[p][2] \subseteq svc.rates[p]
          BY <4>3 DEF Sound, IsCovered
        <5>2. svc.covered[p] \in Days \X Days
          BY <4>3 DEF IsCovered, Sound, Services
        <5>3. svc.covered[p][1] \in Int /\ svc.covered[p][2] \in Int
          BY <5>2, DaysAre
        <5>4. Window(svc, p, asOf) = svc.covered[p][1] .. asOf /\ asOf <= svc.covered[p][2]
          BY <4>3 DEF Window, IsCovered
        <5>5. Newest(svc, p, asOf) \in svc.rates[p]
          BY <1>1, <1>3, <3>2, <5>1, <5>3, <5>4
        <5> QED
          BY <2>2, <4>1, <5>5
      <4>4. CASE p \in svc.failed
        BY <4>4 DEF Sound
      <4> QED
        BY <1>5, <4>2, <4>3, <4>4
    <3> QED
      BY <3>1, <3>2
  <2> QED
    BY <1>2, <2>1, <2>2, <2>3 DEF DayIsRight
<1>6. CASE ~(Stored(svc, p, asOf) = asOf \/ IsCovered(svc, p, asOf) \/ p \in svc.failed)
  <2> DEFINE next == Fetch(svc, p, asOf - LookbackDays, asOf, outage)
  <2>1. o = [svc |-> next, day |-> Stored(next, p, asOf)]
    BY <1>6 DEF Observed
  <2>2. Extends(svc, next) /\ (p \in next.missed \/ published[p] \cap asOf - LookbackDays .. asOf \subseteq next.rates[p])
    BY FetchIs
  <2> HIDE DEF next
  <2>3. Sound(next)
    BY <2>2 DEF Extends
  <2>4. /\ Stored(next, p, asOf) \in Int /\ Stored(next, p, asOf) <= asOf /\ Stored(next, p, asOf) >= NoRate
        /\ \A d \in next.rates[p] : d <= asOf => d <= Stored(next, p, asOf)
    BY <1>1, <2>3, StoredIs
  <2>5. Newest(next, p, asOf) = Newest(svc, p, asOf) /\ Window(svc, p, asOf) = asOf - LookbackDays .. asOf
    BY <1>6, <2>2 DEF Extends, Newest, Window, IsCovered
  <2>6. Stored(next, p, asOf) >= Newest(next, p, asOf) \/ p \in next.missed
    <3>1. CASE Newest(svc, p, asOf) = NoRate
      BY <2>4, <2>5, <3>1
    <3>2. CASE Newest(svc, p, asOf) # NoRate /\ p \notin next.missed
      <4>1. Newest(svc, p, asOf) \in next.rates[p] /\ Newest(svc, p, asOf) <= asOf
        BY <1>3, <1>4, <2>2, <2>5, <3>2
      <4> QED
        BY <2>4, <2>5, <4>1
    <3> QED
      BY <3>1, <3>2
  <2> QED
    BY <2>1, <2>2, <2>4, <2>6 DEF DayIsRight
<1> QED
  BY <1>5, <1>6

LEMMA OneLeg ==
  ASSUME NEW pair \in Pairs, NEW day \in Int, NEW legs, legs = <<[pair |-> pair, day |-> day]>>
  PROVE  /\ DOMAIN legs = {1} /\ legs[1].pair = pair /\ legs[1].day = day
         /\ legs \in Seq([pair: Pairs, day: Int])
OBVIOUS

\* A pair or its inverse.
LEMMA LegIs ==
  ASSUME World, NEW svc, Sound(svc), NEW base \in Currencies, NEW target \in Currencies,
         NEW asOf \in Days, NEW outage
  PROVE  LET leg == Leg(svc, base, target, asOf, outage)
         IN  ResultOK(svc, leg, asOf) /\ UsesThePair(leg.svc, base, target, asOf, leg.found, leg.legs)
<1> DEFINE leg == Leg(svc, base, target, asOf, outage)
           direct == Observed(svc, <<base, target>>, asOf, outage)
           inverse == Observed(direct.svc, <<target, base>>, asOf, outage)
<1>1. asOf \in Int
  BY DaysAre
<1>2. ASSUME base = target
      PROVE  ResultOK(svc, leg, asOf) /\ UsesThePair(leg.svc, base, target, asOf, leg.found, leg.legs)
  <2>1. leg = [svc |-> svc, found |-> TRUE, legs |-> <<>>]
    BY <1>2 DEF Leg
  <2> HIDE DEF leg
  <2>2. leg.svc = svc /\ leg.found = TRUE /\ leg.legs = <<>>
    BY <2>1
  <2>3. DOMAIN leg.legs = {} /\ leg.legs \in Seq([pair: Pairs, day: Int])
    BY <2>2
  <2> QED
    BY <1>2, <2>2, <2>3 DEF ResultOK, Extends, RightLegs, UsesThePair
<1>3. ASSUME base # target
      PROVE  ResultOK(svc, leg, asOf) /\ UsesThePair(leg.svc, base, target, asOf, leg.found, leg.legs)
  <2> DEFINE there == <<base, target>>
             back == <<target, base>>
  <2>1. there \in Pairs /\ back \in Pairs
    BY <1>3 DEF Pairs
  <2>2. Extends(svc, direct.svc) /\ DayIsRight(direct.svc, there, direct.day, asOf)
    BY <2>1, ObservedIs
  <2>3. Sound(direct.svc)
    BY <2>2 DEF Extends
  <2>4. Extends(direct.svc, inverse.svc) /\ DayIsRight(inverse.svc, back, inverse.day, asOf)
    <3> HIDE DEF direct
    <3> QED
      BY <2>1, <2>3, ObservedIs
  <2>5. leg = IF direct.day # NoRate
              THEN [svc |-> direct.svc, found |-> TRUE, legs |-> <<[pair |-> there, day |-> direct.day]>>]
              ELSE [svc |-> inverse.svc, found |-> inverse.day # NoRate,
                    legs |-> IF inverse.day = NoRate THEN <<>> ELSE <<[pair |-> back, day |-> inverse.day]>>]
    BY <1>3 DEF Leg
  <2> HIDE DEF leg, direct, inverse, there, back
  <2>7. CASE direct.day # NoRate
    <3>1. leg.svc = direct.svc /\ leg.found = TRUE /\ leg.legs = <<[pair |-> there, day |-> direct.day]>>
      BY <2>5, <2>7
    <3>2. direct.day \in Int
      BY <2>2 DEF DayIsRight
    <3>3. /\ DOMAIN leg.legs = {1} /\ leg.legs[1].pair = there /\ leg.legs[1].day = direct.day
          /\ leg.legs \in Seq([pair: Pairs, day: Int])
      BY <2>1, <3>1, <3>2, OneLeg
    <3>4. RightLegs(leg.svc, leg.legs, asOf)
      BY <2>1, <2>2, <3>1, <3>3 DEF RightLegs
    <3>5. UsesThePair(leg.svc, base, target, asOf, leg.found, leg.legs)
      BY <3>1, <3>3 DEF UsesThePair, there
    <3> QED
      BY <2>2, <3>1, <3>3, <3>4, <3>5 DEF ResultOK
  <2>8. CASE direct.day = NoRate
    <3>1. leg.svc = inverse.svc /\ leg.found = (inverse.day # NoRate)
          /\ leg.legs = IF inverse.day = NoRate THEN <<>> ELSE <<[pair |-> back, day |-> inverse.day]>>
      BY <2>5, <2>8
    <3>2. inverse.day \in Int
      BY <2>4 DEF DayIsRight
    <3>3. RightLegs(leg.svc, leg.legs, asOf) /\ leg.legs \in Seq([pair: Pairs, day: Int])
      <4>1. CASE inverse.day = NoRate
        BY <3>1, <4>1 DEF RightLegs
      <4>2. CASE inverse.day # NoRate
        <5>1. /\ DOMAIN leg.legs = {1} /\ leg.legs[1].pair = back /\ leg.legs[1].day = inverse.day
              /\ leg.legs \in Seq([pair: Pairs, day: Int])
          BY <2>1, <3>1, <3>2, <4>2, OneLeg
        <5> QED
          BY <2>1, <2>4, <3>1, <5>1 DEF RightLegs
      <4> QED
        BY <4>1, <4>2
    <3>4. Extends(svc, leg.svc)
      BY <2>2, <2>4, <3>1, ExtendsOn
    <3>5. UsesThePair(leg.svc, base, target, asOf, leg.found, leg.legs)
      <4>1. DayIsRight(leg.svc, there, NoRate, asOf)
        BY <2>2, <2>4, <2>8, <3>1, RightStays
      <4>2. /\ Newest(leg.svc, there, asOf) \in Int
            /\ Newest(leg.svc, there, asOf) >= NoRate
        <5>1. Sound(leg.svc)
          BY <3>4 DEF Extends
        <5> QED
          BY <1>1, <2>1, <5>1, WindowIs, NewestIs
      <4>3. Newest(leg.svc, there, asOf) = NoRate \/ there \in leg.svc.missed
        BY <4>1, <4>2 DEF DayIsRight, NoRate
      <4> QED
        BY <4>3 DEF UsesThePair, there
    <3>6. leg.found \in BOOLEAN
      BY <3>1
    <3> QED
      BY <3>3, <3>4, <3>5, <3>6 DEF ResultOK
  <2> QED
    BY <2>7, <2>8
<1> QED
  BY <1>2, <1>3

\* One intermediary.
LEMMA ThroughIs ==
  ASSUME World, NEW svc, NEW sofar, NEW asOf \in Days, ResultOK(svc, sofar, asOf),
         NEW base \in Currencies, NEW middle \in Currencies, NEW target \in Currencies, NEW outage
  PROVE  ResultOK(svc, Through(sofar, base, middle, target, asOf, outage), asOf)
<1> DEFINE first == Leg(sofar.svc, base, middle, asOf, outage)
           second == Leg(first.svc, middle, target, asOf, outage)
           next == [svc |-> second.svc, found |-> first.found /\ second.found,
                    legs |-> IF first.found /\ second.found THEN first.legs \o second.legs ELSE <<>>]
<1>1. Extends(svc, sofar.svc) /\ Sound(sofar.svc)
  BY DEF ResultOK, Extends
<1>2. ResultOK(sofar.svc, first, asOf)
  BY <1>1, LegIs
<1>3. Sound(first.svc)
  BY <1>2 DEF ResultOK, Extends
<1>4. ResultOK(first.svc, second, asOf)
  <2> HIDE DEF first
  <2> QED
    BY <1>3, LegIs
<1>5. Through(sofar, base, middle, target, asOf, outage) = IF sofar.found \/ middle \in {base, target} THEN sofar ELSE next
  BY DEF Through
<1> HIDE DEF first, second
<1>6. Extends(sofar.svc, first.svc) /\ Extends(first.svc, second.svc) /\ first.found \in BOOLEAN /\ second.found \in BOOLEAN
  BY <1>2, <1>4 DEF ResultOK
<1>7. Extends(svc, second.svc)
  BY <1>1, <1>6, ExtendsOn
<1>8. first.legs \in Seq([pair: Pairs, day: Int]) /\ second.legs \in Seq([pair: Pairs, day: Int])
  BY <1>2, <1>4 DEF ResultOK
<1>9. RightLegs(second.svc, first.legs, asOf) /\ RightLegs(second.svc, second.legs, asOf)
  BY <1>2, <1>4, <1>6, RightLegsStay DEF ResultOK
<1>10. RightLegs(second.svc, first.legs \o second.legs, asOf) /\ first.legs \o second.legs \in Seq([pair: Pairs, day: Int])
  <2> DEFINE both == first.legs \o second.legs
  <2>1. both \in Seq([pair: Pairs, day: Int])
    BY <1>8
  <2>2. ASSUME NEW i \in DOMAIN both
        PROVE  \/ i \in DOMAIN first.legs /\ both[i] = first.legs[i]
               \/ \E j \in DOMAIN second.legs : both[i] = second.legs[j]
    <3>1. i \in 1 .. Len(first.legs) + Len(second.legs)
      <4>1. Len(both) = Len(first.legs) + Len(second.legs) /\ DOMAIN both = 1..Len(both)
        BY <1>8, <2>1
      <4> QED
        BY <2>2, <4>1
    <3>2. CASE i <= Len(first.legs)
      BY <1>8, <3>1, <3>2
    <3>3. CASE i > Len(first.legs)
      <4>1. i - Len(first.legs) \in DOMAIN second.legs /\ both[i] = second.legs[i - Len(first.legs)]
        <5> DEFINE s == first.legs
                   t == second.legs
        <5>1. s \in Seq([pair: Pairs, day: Int]) /\ t \in Seq([pair: Pairs, day: Int])
          BY <1>8
        <5>2. i \in 1 .. Len(s) + Len(t) /\ i > Len(s)
          BY <3>1, <3>3
        <5> HIDE DEF s, t
        <5>3. Len(s) \in Nat /\ Len(t) \in Nat /\ DOMAIN t = 1..Len(t)
          BY <5>1
        <5>4. (s \o t)[i] = t[i - Len(s)]
          BY <5>1, <5>2, <5>3
        <5> QED
          <6>1. i - Len(s) \in DOMAIN t
            BY <5>2, <5>3
          <6> QED
            BY <5>4, <6>1 DEF s, t
      <4> QED
        BY <4>1
    <3> QED
      BY <1>8, <3>1, <3>2, <3>3
  <2> HIDE DEF both
  <2>3. RightLegs(second.svc, both, asOf)
    BY <1>9, <2>2 DEF RightLegs
  <2> QED
    BY <2>1, <2>3 DEF both
<1>11. RightLegs(second.svc, <<>>, asOf) /\ <<>> \in Seq([pair: Pairs, day: Int])
  BY DEF RightLegs
<1>12. ResultOK(svc, next, asOf)
  <2>1. next.svc = second.svc /\ next.found = (first.found /\ second.found)
        /\ next.legs = IF first.found /\ second.found THEN first.legs \o second.legs ELSE <<>>
    OBVIOUS
  <2> HIDE DEF next
  <2>2. next.found \in BOOLEAN
    BY <1>6, <2>1
  <2>3. RightLegs(next.svc, next.legs, asOf) /\ next.legs \in Seq([pair: Pairs, day: Int])
    BY <1>10, <1>11, <2>1
  <2> QED
    BY <1>7, <2>1, <2>2, <2>3 DEF ResultOK
<1> QED
  BY <1>5, <1>12

\* All of them, in their order.
LEMMA CrossIs ==
  ASSUME World, NEW svc, Sound(svc), NEW asOf \in Days,
         NEW base \in Currencies, NEW target \in Currencies, NEW outage
  PROVE  ResultOK(svc, Cross(svc, base, target, asOf, outage), asOf)
<1> DEFINE none == [svc |-> svc, found |-> FALSE, legs |-> <<>>]
           step(i, sofar) == Through(sofar, base, CROSS_CURRENCIES[i], target, asOf, outage)
           Is(g, S) == g = [i \in S |-> IF i = 0 THEN none ELSE step(i, g[i - 1])]
           last == Len(CROSS_CURRENCIES)
<1>1. last \in Nat /\ \A i \in 1..last : CROSS_CURRENCIES[i] \in Currencies
  <2>1. CROSS_CURRENCIES \in Seq(Currencies)
    BY FxAssumption
  <2> QED
    BY <2>1
<1>2. ResultOK(svc, none, asOf)
  <2>1. none.svc = svc /\ none.found = FALSE /\ none.legs = <<>>
    OBVIOUS
  <2> HIDE DEF none
  <2>2. DOMAIN none.legs = {} /\ none.legs \in Seq([pair: Pairs, day: Int])
    BY <2>1
  <2> QED
    BY <2>1, <2>2 DEF ResultOK, Extends, RightLegs
<1>3. ASSUME NEW i \in 1..last, NEW sofar, ResultOK(svc, sofar, asOf)
      PROVE  ResultOK(svc, step(i, sofar), asOf)
  BY <1>1, <1>3, ThroughIs
<1>4. Cross(svc, base, target, asOf, outage) = (CHOOSE g : Is(g, 0..last))[last]
  BY DEF Cross
<1> HIDE DEF none, step, last
<1>5. \E g : Is(g, 0..last)
  <2> DEFINE Good == {n \in Nat : \E g : Is(g, 0..n)}
  <2>1. 0 \in Good
    <3>1. Is([i \in 0..0 |-> none], 0..0)
      OBVIOUS
    <3> QED
      BY <3>1
  <2>2. ASSUME NEW n \in Nat, n \in Good PROVE n + 1 \in Good
    <3>1. PICK g : Is(g, 0..n)
      BY <2>2
    <3> DEFINE h == [i \in 0..n + 1 |-> IF i = n + 1 THEN step(n + 1, g[n]) ELSE g[i]]
    <3>2. \A i \in 0..n : g[i] = IF i = 0 THEN none ELSE step(i, g[i - 1])
      BY <3>1
    <3>3. ASSUME NEW i \in 0..n + 1 PROVE h[i] = IF i = 0 THEN none ELSE step(i, h[i - 1])
      <4>1. CASE i = n + 1
        <5>1. i # 0 /\ i - 1 = n /\ n \in 0..n + 1 /\ n # n + 1
          BY <4>1
        <5>2. h[n] = g[n] /\ h[i] = step(n + 1, g[n])
          BY <4>1, <5>1
        <5> QED
          BY <4>1, <5>1, <5>2
      <4>2. CASE i # n + 1
        <5>1. i \in 0..n /\ (i # 0 => i - 1 \in 0..n + 1 /\ i - 1 # n + 1)
          BY <4>2
        <5>2. h[i] = g[i] /\ (i # 0 => h[i - 1] = g[i - 1])
          BY <4>2, <5>1
        <5> QED
          BY <3>2, <5>1, <5>2
      <4> QED
        BY <4>1, <4>2
    <3>4. Is(h, 0..n + 1)
      <4>1. h = [i \in 0..n + 1 |-> h[i]]
        OBVIOUS
      <4> HIDE DEF h
      <4> QED
        BY <3>3, <4>1
    <3>5. \E f : Is(f, 0..n + 1)
      <4> HIDE DEF h, Is
      <4> QED
        BY <3>4
    <3> QED
      BY <3>5
  <2> HIDE DEF Good
  <2>3. Nat \subseteq Good
    BY <2>1, <2>2, NaturalInduction
  <2> QED
    BY <1>1, <2>3 DEF Good
<1> DEFINE after == CHOOSE g : Is(g, 0..last)
<1>6. Is(after, 0..last)
  <2> HIDE DEF Is
  <2> QED
    BY <1>5
<1> HIDE DEF after
<1>7. \A i \in 0..last : after[i] = IF i = 0 THEN none ELSE step(i, after[i - 1])
  BY <1>6
<1> DEFINE Good == {n \in Nat : n <= last => ResultOK(svc, after[n], asOf)}
<1>8. 0 \in Good
  <2>1. 0 \in 0..last
    BY <1>1
  <2>2. after[0] = none
    BY <1>7, <2>1
  <2> QED
    BY <1>2, <2>2
<1>9. ASSUME NEW n \in Nat, n \in Good PROVE n + 1 \in Good
  <2> SUFFICES ASSUME n + 1 <= last PROVE ResultOK(svc, after[n + 1], asOf)
    OBVIOUS
  <2>1. n + 1 \in 1..last /\ n + 1 \in 0..last /\ (n + 1) - 1 = n /\ n + 1 # 0 /\ n <= last
    BY <1>1
  <2>2. after[n + 1] = step(n + 1, after[n])
    BY <1>7, <2>1
  <2>3. ResultOK(svc, after[n], asOf)
    BY <1>9, <2>1
  <2> QED
    BY <1>3, <2>1, <2>2, <2>3
<1> HIDE DEF Good
<1>10. Nat \subseteq Good
  BY <1>8, <1>9, NaturalInduction
<1> QED
  BY <1>1, <1>4, <1>10 DEF Good, after

LEMMA ResolveIs ==
  ASSUME World, NEW svc, Sound(svc), NEW asOf \in Days,
         NEW base \in Currencies, NEW target \in Currencies, NEW outage
  PROVE  LET result == Resolve(svc, base, target, asOf, outage)
         IN  ResultOK(svc, result, asOf) /\ UsesThePair(result.svc, base, target, asOf, result.found, result.legs)
<1> DEFINE result == Resolve(svc, base, target, asOf, outage)
           plain == Leg(svc, base, target, asOf, outage)
           crossed == Cross(plain.svc, base, target, asOf, outage)
<1>1. ResultOK(svc, plain, asOf) /\ UsesThePair(plain.svc, base, target, asOf, plain.found, plain.legs)
  BY LegIs
<1>2. Extends(svc, plain.svc) /\ Sound(plain.svc)
  BY <1>1 DEF ResultOK, Extends
<1>3. result = IF plain.found THEN plain ELSE crossed
  BY DEF Resolve
<1>4. ResultOK(plain.svc, crossed, asOf)
  <2> HIDE DEF plain
  <2> QED
    BY <1>2, CrossIs
<1> HIDE DEF result, plain, crossed
<1>5. CASE plain.found
  BY <1>1, <1>3, <1>5 DEF result
<1>6. CASE ~plain.found
  <2>1. result = crossed
    BY <1>3, <1>6
  <2>2. ResultOK(svc, crossed, asOf)
    BY <1>2, <1>4, ExtendsOn DEF ResultOK
  <2>3. Extends(plain.svc, crossed.svc)
    BY <1>4 DEF ResultOK
  <2>4. Newest(crossed.svc, <<base, target>>, asOf) = Newest(plain.svc, <<base, target>>, asOf)
    BY <2>3 DEF Extends, Newest, Window, IsCovered
  <2>5. UsesThePair(crossed.svc, base, target, asOf, crossed.found, crossed.legs)
    BY <1>1, <1>6, <2>3, <2>4 DEF UsesThePair, Extends
  <2> QED
    BY <2>1, <2>2, <2>5 DEF result
<1> QED
  BY <1>5, <1>6

-----------------------------------------------------------------------------
(* The steps of a report *)

LEMMA OpenedIsSound == World => Sound(Opened)
<1> SUFFICES ASSUME World PROVE Sound(Opened)
  OBVIOUS
<1>1. /\ Opened.rates = [p \in Pairs |-> {}] /\ Opened.failed = {} /\ Opened.missed = {}
      /\ Opened.covered = [p \in Pairs |-> NotCovered] /\ Opened \in Services
  BY DEF Opened, Services, Rates
<1> QED
  BY <1>1 DEF Sound

LEMMA FxInvInit == FxInit => FxInv
<1> SUFFICES ASSUME FxInit PROVE FxInv
  OBVIOUS
<1>1. World
  BY DEF FxInit, World
<1>2. \A r \in Reports : service[r] = Opened /\ answer[r].state = "none"
  BY DEF FxInit, NoAnswer
<1>3. \A r \in Reports : Sound(service[r]) /\ AnswerIsRight(service[r], answer[r])
  BY <1>1, <1>2, OpenedIsSound DEF AnswerIsRight, Told
<1>4. 0 \in 0..MaxDown
  BY FxAssumption
<1> QED
  BY <1>1, <1>2, <1>3, <1>4 DEF FxInit, FxInv, World

\* What a step of one report has to keep.
LEMMA OneReport ==
  ASSUME FxInv, NEW r \in Reports, NEW next, NEW told,
         published' = published, fxRates' = fxRates,
         service' = [service EXCEPT ![r] = next], answer' = [answer EXCEPT ![r] = told],
         Sound(next), AnswerIsRight(next, told),
         writer' \in {Nobody} \cup Reports, downs' \in 0..MaxDown,
         next.rates # Opened.rates => writer' = r,
         writer \notin {Nobody, r} => writer' = writer
  PROVE  FxInv'
<1>1. \A q \in Reports : service'[q] = (IF q = r THEN next ELSE service[q])
                         /\ answer'[q] = (IF q = r THEN told ELSE answer[q])
  BY DEF FxInv
<1>2. ASSUME NEW svc, Sound(svc) PROVE Sound(svc)'
  BY <1>2 DEF Sound
<1>3. ASSUME NEW svc, NEW a, AnswerIsRight(svc, a) PROVE AnswerIsRight(svc, a)'
  BY <1>3 DEF AnswerIsRight, RightLegs, DayIsRight, UsesThePair, Newest, Window, IsCovered, Told
<1>4. ASSUME NEW q \in Reports
      PROVE  /\ Sound(service[q])' /\ AnswerIsRight(service[q], answer[q])'
             /\ (service[q].rates # Opened.rates => writer = q)'
  <2>1. PICK svc : svc = service'[q] /\ Sound(svc)
    BY <1>1 DEF FxInv
  <2>2. PICK a : a = answer'[q] /\ AnswerIsRight(svc, a)
    BY <1>1, <2>1 DEF FxInv
  <2>3. Sound(svc)' /\ AnswerIsRight(svc, a)'
    BY <1>2, <1>3, <2>1, <2>2
  <2>4. Sound(service[q])'
    BY <2>1, <2>3 DEF Sound
  <2>5. AnswerIsRight(service[q], answer[q])'
    <3>1. ASSUME NEW p, NEW day, NEW asOf, DayIsRight(svc, p, day, asOf) PROVE DayIsRight(service[q], p, day, asOf)'
      BY <2>1, <3>1 DEF DayIsRight, Newest, Window, IsCovered
    <3>2. RightLegs(svc, a.legs, a.asOf) => RightLegs(service[q], a.legs, a.asOf)'
      BY <2>1, <3>1 DEF RightLegs
    <3>3. ASSUME NEW base, NEW target, NEW asOf, NEW found, NEW legs, UsesThePair(svc, base, target, asOf, found, legs)
          PROVE  UsesThePair(service[q], base, target, asOf, found, legs)'
      BY <2>1, <3>3 DEF UsesThePair, Newest, Window, IsCovered
    <3>4. Told(a) => UsesThePair(service[q], a.base, a.quote, a.asOf, a.state = "converted", a.legs)'
      BY <2>2, <3>3 DEF AnswerIsRight
    <3>5. AnswerIsRight(service[q], a)'
      BY <2>2, <3>2, <3>4 DEF AnswerIsRight, Told
    <3> QED
      BY <2>2, <3>5 DEF AnswerIsRight, RightLegs, UsesThePair, Told
  <2>6. service'[q].rates # Opened.rates => writer' = q
    <3>1. CASE q = r
      BY <1>1, <3>1
    <3>2. CASE q # r
      <4>1. service[q].rates # Opened.rates => writer = q
        BY DEF FxInv
      <4>2. Nobody \notin Reports
        BY FxAssumption
      <4> QED
        BY <1>1, <3>2, <4>1, <4>2
    <3> QED
      BY <3>1, <3>2
  <2> QED
    BY <2>4, <2>5, <2>6 DEF Opened
<1>5. (service = [q \in Reports |-> service[q]] /\ answer = [q \in Reports |-> answer[q]])'
  BY DEF FxInv
<1>6. (published \in PublishedRates /\ fxRates = [p \in Pairs |-> {}])'
  BY DEF FxInv, Pairs
<1> QED
  BY <1>4, <1>5, <1>6 DEF FxInv

\* A flush keeps the lock for whoever has rates.
LEMMA FlushKeepsTheLock ==
  ASSUME FxInv, NEW r \in Reports, NEW next, Flush(r, next)
  PROVE  /\ writer' \in {Nobody} \cup Reports
         /\ next.rates # Opened.rates => writer' = r
         /\ writer \notin {Nobody, r} => writer' = writer
BY DEF FxInv, Flush, WritesRates

LEMMA DownStays ==
  ASSUME FxInv, NEW outage, Down(outage)
  PROVE  downs' \in 0..MaxDown
BY FxAssumption DEF FxInv, Down

LEMMA ConvertKeepsInv ==
  ASSUME FxInv, NEW r \in Reports, NEW outage, NEW want \in Wanted, Convert(r, want, outage)
  PROVE  FxInv'
<1> DEFINE asOf == AsOf(want)
           result == Resolve(service[r], want.base, want.quote, asOf, outage)
           told == [state |-> IF result.found THEN "converted" ELSE "unavailable",
                    base |-> want.base, quote |-> want.quote, asOf |-> asOf, legs |-> result.legs]
<1>1. /\ asOf \in Days /\ Down(outage) /\ Flush(r, result.svc)
      /\ answer' = [answer EXCEPT ![r] = told] /\ published' = published /\ fxRates' = fxRates
  BY DEF Convert
<1>2. want.base \in Currencies /\ want.quote \in Currencies
  BY FxAssumption
<1>3. World /\ Sound(service[r])
  BY DEF FxInv, World
<1>4. /\ ResultOK(service[r], result, asOf)
      /\ UsesThePair(result.svc, want.base, want.quote, asOf, result.found, result.legs)
  <2> HIDE DEF asOf
  <2> QED
    BY <1>1, <1>2, <1>3, ResolveIs
<1>5. /\ told.state = (IF result.found THEN "converted" ELSE "unavailable")
      /\ told.base = want.base /\ told.quote = want.quote /\ told.asOf = asOf /\ told.legs = result.legs
  OBVIOUS
<1> HIDE DEF asOf, result, told
<1>6. Sound(result.svc) /\ result.found \in BOOLEAN /\ RightLegs(result.svc, result.legs, asOf)
  BY <1>4 DEF ResultOK, Extends
<1>7. (told.state = "converted") = result.found
  BY <1>5, <1>6
<1>8. AnswerIsRight(result.svc, told)
  BY <1>4, <1>5, <1>6, <1>7 DEF AnswerIsRight, Told
<1>9. service' = [service EXCEPT ![r] = result.svc]
  BY <1>1 DEF Flush
<1>10. /\ writer' \in {Nobody} \cup Reports
       /\ result.svc.rates # Opened.rates => writer' = r
       /\ writer \notin {Nobody, r} => writer' = writer
  BY <1>1, FlushKeepsTheLock
<1>11. downs' \in 0..MaxDown
  BY <1>1, DownStays
<1> QED
  BY <1>1, <1>6, <1>8, <1>9, <1>10, <1>11, OneReport

\* The pairs of a series: a currency is not converted to itself.
LEMMA PairsOfIs ==
  ASSUME NEW span \in Spans
  PROVE  PairsOf(span) \subseteq Pairs
<1>1. span.base \in Currencies /\ span.quote \in Currencies /\ span.base # span.quote
  BY FxAssumption
<1>2. \A m \in Range(CROSS_CURRENCIES) : m \in Currencies
  <2>1. CROSS_CURRENCIES \in Seq(Currencies)
    BY FxAssumption
  <2> QED
    BY <2>1 DEF Range
<1> QED
  BY <1>1, <1>2 DEF PairsOf, Pairs

LEMMA PrefetchedIs ==
  ASSUME World, NEW svc, Sound(svc), NEW span \in Spans, NEW outage
  PROVE  Sound(Prefetched(svc, span, outage))
<1> DEFINE asked == PairsOf(span)
           bars == [p \in Pairs |-> IF p \in asked THEN Bars(p, span.from, span.to, outage) ELSE {}]
           failing == {p \in asked : Fails(p, span.from, span.to, outage)}
           next == Prefetched(svc, span, outage)
<1>1. asked \subseteq Pairs
  BY PairsOfIs
<1>2. span.from \in Days /\ span.to \in Days
  BY FxAssumption
<1>3. /\ \A p \in Pairs : bars[p] \subseteq published[p]
      /\ \A p \in asked : p \in failing \/ bars[p] = published[p] \cap span.from .. span.to
  BY <1>1 DEF Bars, Fails
<1>4. \A p \in Pairs : published[p] \subseteq Days
  BY WorldIs
<1>5. /\ next.rates = [p \in Pairs |-> svc.rates[p] \cup bars[p]]
      /\ next.failed = svc.failed \ asked
      /\ next.covered = [p \in Pairs |-> IF p \in asked THEN <<span.from, span.to>> ELSE svc.covered[p]]
      /\ next.missed = svc.missed \cup failing /\ failing \subseteq asked
      /\ next = [rates |-> next.rates, failed |-> next.failed, covered |-> next.covered, missed |-> next.missed]
  BY DEF Prefetched
<1> HIDE DEF asked, bars, failing, next
<1>6. svc \in Services /\ svc.failed \subseteq svc.missed
  BY DEF Sound
<1>7. next.rates \in Rates
  <2>1. svc.rates \in [Pairs -> SUBSET Days]
    BY <1>6 DEF Services, Rates
  <2>2. \A p \in Pairs : svc.rates[p] \cup bars[p] \in SUBSET Days
    BY <1>3, <1>4, <2>1
  <2> QED
    BY <1>5, <2>2 DEF Rates
<1>8. next.covered \in [Pairs -> {NotCovered} \cup Days \X Days]
  <2>1. svc.covered \in [Pairs -> {NotCovered} \cup Days \X Days]
    BY <1>6 DEF Services
  <2>2. <<span.from, span.to>> \in Days \X Days
    BY <1>2
  <2> QED
    BY <1>5, <2>1, <2>2
<1>9. next.failed \subseteq Pairs /\ next.missed \subseteq Pairs /\ next.failed \subseteq next.missed
  BY <1>1, <1>5, <1>6 DEF Services
<1>10. next \in Services
  BY <1>5, <1>7, <1>8, <1>9 DEF Services
<1>11. ASSUME NEW p \in Pairs
       PROVE  /\ next.rates[p] \subseteq published[p]
              /\ next.covered[p] = NotCovered \/ p \in next.missed
                   \/ published[p] \cap next.covered[p][1] .. next.covered[p][2] \subseteq next.rates[p]
  <2>1. /\ svc.rates[p] \subseteq published[p]
        /\ svc.covered[p] = NotCovered \/ p \in svc.missed
             \/ published[p] \cap svc.covered[p][1] .. svc.covered[p][2] \subseteq svc.rates[p]
    BY DEF Sound
  <2>2. CASE p \in asked
    <3>1. next.rates[p] = svc.rates[p] \cup bars[p] /\ next.covered[p] = <<span.from, span.to>>
      BY <1>5, <2>2
    <3>2. next.covered[p][1] = span.from /\ next.covered[p][2] = span.to
      BY <3>1
    <3>3. p \in failing => p \in next.missed
      BY <1>5
    <3> QED
      BY <1>3, <2>1, <2>2, <3>1, <3>2, <3>3
  <2>3. CASE p \notin asked
    BY <1>3, <1>5, <2>1, <2>3
  <2> QED
    BY <2>2, <2>3
<1> QED
  BY <1>9, <1>10, <1>11 DEF Sound, next

LEMMA PrefetchKeepsInv ==
  ASSUME FxInv, NEW r \in Reports, NEW outage, NEW span \in Spans, PrefetchRange(r, span, outage)
  PROVE  FxInv'
<1> DEFINE next == Prefetched(service[r], span, outage)
<1>1. /\ answer[r] = NoAnswer /\ Down(outage) /\ Flush(r, next)
      /\ answer' = answer /\ published' = published /\ fxRates' = fxRates
  BY DEF PrefetchRange
<1>2. World /\ Sound(service[r]) /\ answer = [q \in Reports |-> answer[q]]
  BY DEF FxInv, World
<1>3. Sound(next)
  BY <1>2, PrefetchedIs
<1> HIDE DEF next
<1>4. answer' = [answer EXCEPT ![r] = answer[r]]
  BY <1>1, <1>2
<1>5. AnswerIsRight(next, answer[r])
  BY <1>1 DEF AnswerIsRight, NoAnswer, Told
<1>6. service' = [service EXCEPT ![r] = next]
  BY <1>1 DEF Flush
<1>7. /\ writer' \in {Nobody} \cup Reports
      /\ next.rates # Opened.rates => writer' = r
      /\ writer \notin {Nobody, r} => writer' = writer
  BY <1>1, FlushKeepsTheLock
<1>8. downs' \in 0..MaxDown
  BY <1>1, DownStays
<1> QED
  BY <1>1, <1>3, <1>4, <1>5, <1>6, <1>7, <1>8, OneReport

LEMMA LockedOutKeepsInv ==
  ASSUME FxInv, NEW r \in Reports, LockedOut(r)
  PROVE  FxInv'
<1> DEFINE told == [state |-> "locked"]
<1>1. /\ answer' = [answer EXCEPT ![r] = told] /\ writer \notin {Nobody, r}
      /\ published' = published /\ fxRates' = fxRates /\ service' = service /\ writer' = writer /\ downs' = downs
  BY DEF LockedOut
<1>2. AnswerIsRight(service[r], told)
  BY DEF AnswerIsRight, Told
<1> HIDE DEF told
<1>3. service' = [service EXCEPT ![r] = service[r]] /\ Sound(service[r])
  BY <1>1 DEF FxInv
<1>4. service[r].rates # Opened.rates => writer' = r
  BY <1>1 DEF FxInv
<1>5. writer' \in {Nobody} \cup Reports /\ downs' \in 0..MaxDown
  BY <1>1 DEF FxInv
<1> QED
  BY <1>1, <1>2, <1>3, <1>4, <1>5, OneReport

LEMMA EndReportKeepsInv ==
  ASSUME FxInv, NEW r \in Reports, EndReport(r)
  PROVE  FxInv'
<1>1. /\ answer' = [answer EXCEPT ![r] = NoAnswer] /\ service' = [service EXCEPT ![r] = Opened]
      /\ writer' = (IF writer = r THEN Nobody ELSE writer)
      /\ published' = published /\ fxRates' = fxRates /\ downs' = downs
  BY DEF EndReport
<1>2. AnswerIsRight(Opened, NoAnswer)
  BY DEF AnswerIsRight, Told, NoAnswer
<1>3. Sound(Opened)
  <2>1. World
    BY DEF FxInv, World
  <2> QED
    BY <2>1, OpenedIsSound
<1>4. writer' \in {Nobody} \cup Reports /\ downs' \in 0..MaxDown /\ (writer \notin {Nobody, r} => writer' = writer)
  BY <1>1 DEF FxInv
<1> QED
  BY <1>1, <1>2, <1>3, <1>4, OneReport

LEMMA FxStepKeepsInv ==
  ASSUME FxInv, [FxNext]_fxVars
  PROVE  FxInv'
<1>1. CASE FxNext
  <2>1. ASSUME NEW r \in Reports, NEW outage \in Outages, NEW want \in Wanted, Convert(r, want, outage) PROVE FxInv'
    BY <2>1, ConvertKeepsInv
  <2>2. ASSUME NEW r \in Reports, NEW outage \in Outages, NEW span \in Spans, PrefetchRange(r, span, outage) PROVE FxInv'
    BY <2>2, PrefetchKeepsInv
  <2>3. ASSUME NEW r \in Reports, LockedOut(r) PROVE FxInv'
    BY <2>3, LockedOutKeepsInv
  <2>4. ASSUME NEW r \in Reports, EndReport(r) PROVE FxInv'
    BY <2>4, EndReportKeepsInv
  <2> QED
    BY <1>1, <2>1, <2>2, <2>3, <2>4 DEF FxNext
<1>2. CASE UNCHANGED fxVars
  <2>1. /\ published' = published /\ fxRates' = fxRates /\ service' = service /\ answer' = answer
        /\ writer' = writer /\ downs' = downs
    BY <1>2 DEF fxVars
  <2>2. CASE Reports = {}
    BY <2>1, <2>2 DEF FxInv, Pairs
  <2>3. CASE Reports # {}
    <3>1. PICK r \in Reports : TRUE
      BY <2>3
    <3>2. service' = [service EXCEPT ![r] = service[r]] /\ answer' = [answer EXCEPT ![r] = answer[r]]
      BY <2>1 DEF FxInv
    <3>3. /\ Sound(service[r]) /\ AnswerIsRight(service[r], answer[r]) /\ (service[r].rates # Opened.rates => writer' = r)
          /\ writer' \in {Nobody} \cup Reports /\ downs' \in 0..MaxDown
      BY <2>1 DEF FxInv
    <3> QED
      BY <2>1, <3>2, <3>3, OneReport
  <2> QED
    BY <2>2, <2>3
<1> QED
  BY <1>1, <1>2

-----------------------------------------------------------------------------
(* What a report may rely on *)

\* For any published rates: a session holds published rates only, all those of a
\* range that counts as covered, and adds to them under the write lock.
THEOREM RatesAreConsistent == FxSpec => []FxInv
<1> USE DEF FxSpec
<1>1. FxInit => FxInv
  BY FxInvInit
<1>2. FxInv /\ [FxNext]_fxVars => FxInv'
  BY FxStepKeepsInv
<1> QED
  BY <1>1, <1>2, PTL

LEMMA FxTypes == FxInv => FxTypeOK
<1> SUFFICES ASSUME FxInv PROVE FxTypeOK
  OBVIOUS
<1>1. fxRates \in Rates
  BY DEF FxInv, Rates
<1>2. ASSUME NEW r \in Reports
      PROVE  /\ service[r].rates \in Rates /\ service[r].failed \subseteq Pairs /\ service[r].missed \subseteq Pairs
             /\ \A p \in Pairs : service[r].covered[p] = NotCovered \/ service[r].covered[p] \in Days \X Days
  <2>1. service[r] \in Services
    BY DEF FxInv, Sound
  <2> QED
    BY <2>1 DEF Services
<1> QED
  BY <1>1, <1>2 DEF FxInv, FxTypeOK, AnswerIsRight

\* The rate of every conversion is the newest one, or asking for it failed.
THEOREM NewestRateIsUsedAlways == FxSpec => []NewestRateIsUsed
<1>1. FxInv => NewestRateIsUsed
  BY DEF FxInv, NewestRateIsUsed, AnswerIsRight, RightLegs, DayIsRight, Converted, Told
<1> QED
  BY <1>1, RatesAreConsistent, PTL

\* A published pair is used, or asking for it failed.
THEOREM PublishedPairsAlwaysConvert == FxSpec => []PublishedPairsConvert
<1>1. FxInv => PublishedPairsConvert
  BY DEF FxInv, PublishedPairsConvert, AnswerIsRight, UsesThePair, Told
<1> QED
  BY <1>1, RatesAreConsistent, PTL

\* QuoteCache, the buckets of bars and fx_rates keep their types, each table has
\* a row for a key once, and rates are flushed under the lock.
THEOREM MarketTypesCorrect == MarketSpec => []TypesOK
<1>1. QuotesInv /\ HistoryInv /\ FxInv => TypesOK
  BY QuotesTypes, HistoryTypes, FxTypes DEF TypesOK
<1> QED
  BY <1>1, QuotesAreConsistent, HistoryIsConsistent, RatesAreConsistent, PTL DEF MarketSpec

=============================================================================
