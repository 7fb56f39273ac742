---------------------------- MODULE Consolidation ----------------------------
(***************************************************************************)
(* The consolidated summary of a group: the cash and the holdings of its   *)
(* members, converted where a rate is known, with what could not be.       *)
(*                                                                         *)
(* A summary reads its members once and then replays one portfolio after   *)
(* another, each by a query of its own, while transfers are posted.        *)
(* Amounts are whole numbers; a rate says what a unit is worth in the      *)
(* reporting currency.                                                     *)
(***************************************************************************)
EXTENDS Groups

CONSTANTS
  Currencies,
  BaseCurrency,   \* BaseCurrency[p]: of the cash of portfolio p
  Liabilities,    \* the portfolios of the liability kind
  Opening,        \* Opening[p]: the cash p was opened with
  Holding,        \* Holding[p]: the holdings of p: [ticker, currency, value]
  Movements,      \* the transfers clients post: [from, to, paid, received, back]
  MaxPosts,       \* bound on transfers
  RateTables,     \* currency |-> rate, or NoRate
  PriceGaps       \* the sets of tickers the provider may not answer for

NoRate == 0

ASSUME ConsolidationAssumption ==
  /\ IsFiniteSet(Portfolios) /\ IsFiniteSet(Currencies) /\ Liabilities \subseteq Portfolios
  /\ BaseCurrency \in [Portfolios -> Currencies] /\ Opening \in [Portfolios -> Int]
  /\ RateTables \subseteq [Currencies -> Nat]
  /\ \A p \in Portfolios : \A h \in Holding[p] : h.currency = BaseCurrency[p] /\ h.value \in Nat
  /\ \A p \in Portfolios : IsFiniteSet(Holding[p]) /\ \A g, h \in Holding[p] : g.ticker = h.ticker => g = h
  /\ \A p \in Liabilities : Holding[p] = {}
  /\ \A m \in Movements : /\ m.from \in Portfolios /\ m.to \in Portfolios
                          /\ m.paid \in Int /\ m.received \in Int /\ m.back \in Nat
  /\ MaxPosts \in Nat

VARIABLES
  entries,        \* the cash movements of the journals
  posting,        \* a transfer between its reading of the clock and its commit
  summary         \* the summary that is being made, or was made last

reportVars == <<entries, posting, summary>>
consolidationVars == <<groupVars, reportVars>>

NoPosting == [at |-> "none"]
NoSummary == [at |-> "none"]
Nothing == [c \in Currencies |-> 0]

ReportsInit == entries = {} /\ posting = NoPosting /\ summary = NoSummary

SumOf(f(_), S) == MapThenSumSet(f, S)

-----------------------------------------------------------------------------
(* Transfers *)

StampTransfer(m) ==
  /\ posting = NoPosting /\ Cardinality(entries) < 2 * MaxPosts
  /\ {m.from, m.to} \subseteq existing /\ moment >= m.back
  /\ posting' = [at |-> "stamped", move |-> m, when |-> moment - m.back]
  /\ UNCHANGED <<entries, summary>>

\* Both halves, in one commit.  A summary that is reading at the time may have
\* read one of the two portfolios before.
CommitTransfer ==
  LET m == posting.move
      n == Cardinality(entries)
      Half(i, p, amount) == [id |-> n + i, portfolio |-> p, amount |-> amount, at |-> posting.when]
  IN  /\ posting.at = "stamped" /\ {m.from, m.to} \subseteq existing
      /\ entries' = entries \cup {Half(1, m.from, -m.paid), Half(2, m.to, m.received)}
      /\ posting' = NoPosting
      /\ summary' = IF summary.at = "reading" /\ posting.when <= summary.cutoff
                    THEN [summary EXCEPT !.disturbed = TRUE] ELSE summary

\* One of the portfolios was deleted in between.
AbandonTransfer ==
  /\ posting.at = "stamped" /\ ~({posting.move.from, posting.move.to} \subseteq existing)
  /\ posting' = NoPosting
  /\ UNCHANGED <<entries, summary>>

-----------------------------------------------------------------------------
(* A summary *)

Transferred(p, cutoff) == SumOf(LAMBDA e : e.amount, {e \in entries : e.portfolio = p /\ e.at <= cutoff})
\* Mutant: the portfolio as it is now.
CashOfToday(p, cutoff) == Opening[p] + Transferred(p, moment)
\* replay_state: what had happened by the cutoff.
CashAt(p, cutoff) == (IF created_at[p] <= cutoff THEN Opening[p] ELSE 0) + Transferred(p, cutoff)
HoldingAt(p, cutoff) == IF created_at[p] <= cutoff THEN Holding[p] ELSE {}

\* The cutoff, the members, and the rates the report will find: a pair that
\* was resolved, or could not be, stays so for the report.
Begun(ids, cutoff, rates) ==
  [at |-> "reading", cutoff |-> cutoff, rates |-> rates, unpriced |-> {},
   ids |-> ids, left |-> ids, read |-> {},
   cash |-> Nothing, debt |-> Nothing, positions |-> {}, disturbed |-> FALSE]

BeginSummary(cutoff, rates) ==
  /\ summary.at # "reading" /\ group /\ cutoff <= moment
  /\ summary' = Begun(MembersAt(cutoff), cutoff, rates)
  /\ UNCHANGED <<entries, posting>>

Converts(s, currency) == s.rates[currency] # NoRate

\* _consolidate_position: no price, no value; no rate, no reporting value.
Position(s, p, h, unpriced) ==
  [portfolio |-> p, ticker |-> h.ticker, currency |-> h.currency,
   priced |-> h.ticker \notin unpriced,
   value |-> IF h.ticker \in unpriced THEN 0 ELSE h.value,
   converted |-> h.ticker \notin unpriced /\ Converts(s, h.currency)]

\* One turn of the loop: the replay of a portfolio and its prices.  A ticker the
\* provider fails on once has no price in this report from then on, though a
\* portfolio read before may have got one.
WithPortfolio(s, p, gaps) ==
  LET unpriced == s.unpriced \cup (gaps \cap {h.ticker : h \in HoldingAt(p, s.cutoff)})
      Add(amounts) == [amounts EXCEPT ![BaseCurrency[p]] = @ + CashAt(p, s.cutoff)]
  IN  [s EXCEPT
        !.left = @ \ {p}, !.read = @ \cup {p}, !.unpriced = unpriced,
        !.cash = Add(@), !.debt = IF p \in Liabilities THEN Add(@) ELSE @,
        !.positions = @ \cup {Position(s, p, h, unpriced) : h \in HoldingAt(p, s.cutoff)}]

\* A portfolio that was deleted since is passed over.
ReadPortfolio(p, gaps) ==
  /\ summary.at = "reading" /\ p \in summary.left
  /\ summary' = IF p \in existing THEN WithPortfolio(summary, p, gaps)
                ELSE [summary EXCEPT !.left = @ \ {p}]
  /\ UNCHANGED <<entries, posting>>

FinishSummary ==
  /\ summary.at = "reading" /\ summary.left = {}
  /\ summary' = [summary EXCEPT !.at = "done"]
  /\ UNCHANGED <<entries, posting>>

\* What the summary reports.
Securities(s) == SumOf(LAMBDA row : s.rates[row.currency] * row.value, {row \in s.positions : row.converted})
\* _consolidate_cash.
CashValue(s) == SumOf(LAMBDA c : s.rates[c] * s.cash[c], {c \in Currencies : Converts(s, c)})
TotalValue(s) == Securities(s) + CashValue(s)
\* _converted_debt.
LiabilitiesValue(s) == SumOf(LAMBDA c : s.rates[c] * s.debt[c], {c \in Currencies : Converts(s, c)})
AssetsValue(s) == TotalValue(s) - LiabilitiesValue(s)

\* Mutant: cash that does not convert is left out.
UnconvertedHoldings(s) == SumOf(LAMBDA row : row.value, {row \in s.positions : row.priced /\ ~row.converted})
\* What is listed as unconverted, in whatever currencies, added up.
UnconvertedValue(s) ==
  SumOf(LAMBDA row : row.value, {row \in s.positions : row.priced /\ ~row.converted})
  + SumOf(LAMBDA c : s.cash[c], {c \in Currencies : ~Converts(s, c)})

\* coverage_percent, before the division.
CoverageOf(total, unconverted) ==
  IF total + unconverted = 0 THEN [part |-> 1, whole |-> 1] ELSE [part |-> total, whole |-> total + unconverted]
Coverage(s) == CoverageOf(TotalValue(s), UnconvertedValue(s))

\* _currency_exposure.
ExposureLocal(s, c) == s.cash[c] + SumOf(LAMBDA row : row.value, {row \in s.positions : row.currency = c})

TransfersNext == CommitTransfer \/ AbandonTransfer \/ \E m \in Movements : StampTransfer(m)
SummaryNext ==
  \/ \E cutoff \in 0..moment, rates \in RateTables : BeginSummary(cutoff, rates)
  \/ \E p \in Portfolios, gaps \in PriceGaps : ReadPortfolio(p, gaps)
  \/ FinishSummary

\* delete_portfolio: its journal goes with it, and the other half of a transfer stays.
DeletePortfolio(p) ==
  /\ DeleteMember(p)
  /\ entries' = {e \in entries : e.portfolio # p}
  /\ UNCHANGED <<posting, summary>>

-----------------------------------------------------------------------------
(* Properties *)

Done == summary.at = "done"

\* What portfolio p is worth at an instant, as one look at the journal tells.
Worth(s, p) ==
  (IF Converts(s, BaseCurrency[p]) THEN s.rates[BaseCurrency[p]] * CashAt(p, s.cutoff) ELSE 0)
  + SumOf(LAMBDA h : s.rates[h.currency] * h.value,
          {h \in HoldingAt(p, s.cutoff) :
             \E row \in s.positions : row.portfolio = p /\ row.ticker = h.ticker /\ row.priced})

Settled == summary.read \subseteq existing /\ ~summary.disturbed

\* A summary is one of its cutoff, although its portfolios are read one after
\* another while transfers go on: only a transfer that is dated before the
\* cutoff and committed during the reading shows in half.  And what is owned and
\* what is owed, told apart by a second pass over the rates, are those of the
\* accounts of either kind, each converted where its own currency converts.
SummaryIsOfItsCutoff ==
  [][(summary.at = "reading" /\ summary'.at = "done" /\ Settled) =>
       /\ AssetsValue(summary) = SumOf(LAMBDA p : Worth(summary, p), summary.read \ Liabilities)
       /\ LiabilitiesValue(summary) = SumOf(LAMBDA p : Worth(summary, p), summary.read \cap Liabilities)
    ]_consolidationVars

\* No value is dropped silently: what is priced is in the total at the rate of
\* its currency, or listed as unconverted.
NothingIsLost ==
  Done =>
    /\ TotalValue(summary) =
         SumOf(LAMBDA c : summary.rates[c] * ExposureLocal(summary, c), Currencies)
    /\ UnconvertedValue(summary) =
         SumOf(LAMBDA c : ExposureLocal(summary, c), {c \in Currencies : ~Converts(summary, c)})

\* coverage_percent is documented as a share: it is one, and whole only if all
\* value converted, as long as nothing owed is left unconverted.
CoverageIsAShare ==
  (Done /\ TotalValue(summary) >= 0
   /\ \A c \in Currencies : Converts(summary, c) \/ ExposureLocal(summary, c) >= 0) =>
    LET share == Coverage(summary)
    IN  /\ 0 <= share.part /\ share.part <= share.whole
        /\ (share.part = share.whole) <=>
             (\A c \in Currencies : Converts(summary, c) \/ ExposureLocal(summary, c) = 0)

\* What a summary shows, and what it says it could not show, are all there is.
ReportAddsUp == NothingIsLost /\ CoverageIsAShare
=============================================================================
