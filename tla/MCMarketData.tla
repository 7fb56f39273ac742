---------------------------- MODULE MCMarketData ----------------------------
(***************************************************************************)
(* Quotes, the cache of daily bars and exchange rates, on small instances. *)
(* They share nothing but the provider, so in a behaviour one of them      *)
(* moves, the `focus' it begins with; the trading calendar is looked at    *)
(* over two weeks during which only the clock of the quotes moves.         *)
(***************************************************************************)
EXTENDS MarketData, TLC

CONSTANTS r1, r2

\* Ticks of three hours: New York is six hours behind UTC, Taipei nine ahead.
WorldSessions ==
  [US |-> [zone |-> -2, opens |-> 3, closes |-> 6], TW |-> [zone |-> 3, opens |-> 3, closes |-> 4]]
SomeMarkets == {"US", "TW", "CRYPTO"}
\* Friday, half a day before the session of New York.
QuoteStarts == {36}

\* Months of two days of two ticks.
SomeRanges == {[from |-> 0, to |-> 0], [from |-> 1, to |-> 3]}

SomeCurrencies == {"USD", "EUR", "TWD", "JPY"}
UsdThenEur == <<"USD", "EUR">>
World(days) ==
  [p \in {p \in SomeCurrencies \X SomeCurrencies : p[1] # p[2]} |-> IF p \in DOMAIN days THEN days[p] ELSE {}]
\* TWD and JPY cross through USD, or through EUR and, on two days, are
\* published themselves; or the direct pair is there and an old USD leg.
SomeWorlds ==
  {World(<<"USD", "TWD">> :> {0, 1, 3} @@ <<"USD", "JPY">> :> {0, 2, 3}),
   World(<<"JPY", "TWD">> :> {0, 2} @@ <<"TWD", "EUR">> :> {0, 3} @@ <<"EUR", "JPY">> :> {0, 1, 2, 3}),
   World(<<"JPY", "TWD">> :> {0, 1, 2, 3} @@ <<"USD", "TWD">> :> {1})}
SomeConversions ==
  {[base |-> "JPY", quote |-> "TWD", day |-> 1, cutoff |-> 4],
   [base |-> "JPY", quote |-> "TWD", day |-> 3, cutoff |-> 4],
   [base |-> "JPY", quote |-> "TWD", day |-> 3, cutoff |-> 3],
   [base |-> "USD", quote |-> "TWD", day |-> 2, cutoff |-> 4]}
SomeSpans ==
  {[base |-> "JPY", quote |-> "TWD", from |-> f, to |-> t] : f \in {0, 1}, t \in {2, 3}}

VARIABLE focus
vars == <<focus, quoteVars, historyVars, fxVars>>

Init ==
  /\ focus \in {"calendar", "quotes", "history", "rates"}
  /\ IF focus = "calendar"
     THEN market \in Markets /\ clock = 0 /\ tape = <<>> /\ quote = NoQuote /\ reader = [r \in Readers |-> Idle]
     ELSE QuotesInit /\ (focus # "quotes" => \A t \in DOMAIN tape : tape[t] = 1) /\ (focus # "quotes" => market = "US")
  /\ HistoryInit
  /\ FxInit
  /\ focus # "rates" => published = CHOOSE w \in SomeWorlds : TRUE

\* Every tick of two weeks.
CalendarTicks == clock < 14 * DayLength /\ clock' = clock + 1 /\ UNCHANGED <<market, tape, quote, reader>>

Next ==
  \/ focus = "calendar" /\ CalendarTicks /\ UNCHANGED <<focus, historyVars, fxVars>>
  \/ focus = "quotes" /\ QuotesNext /\ UNCHANGED <<focus, historyVars, fxVars>>
  \/ focus = "history" /\ HistoryNext /\ UNCHANGED <<focus, quoteVars, fxVars>>
  \/ focus = "rates" /\ FxNext /\ UNCHANGED <<focus, quoteVars, historyVars>>

Spec == Init /\ [][Next]_vars

RequestSymmetry == Permutations(Readers)
=============================================================================
