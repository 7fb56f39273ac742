------------------------------ MODULE NavSeries ------------------------------
(***************************************************************************)
(* The value of a group over time, from the snapshots that are stored.     *)
(*                                                                         *)
(* A series takes the members of today, each from its own first event on.  *)
(* It reads the members, their snapshots and, after the rates were fetched,*)
(* their first events, by queries of their own.  A snapshot is taken here  *)
(* in one step; Snapshots shows the steps.  Series are asked for the whole *)
(* history: a range only leaves out the points outside of it.              *)
(***************************************************************************)
EXTENDS Consolidation

CONSTANTS
  DayTicks,       \* ticks of a day: day d begins at the instant d * DayTicks
  MaxSnapshots    \* bound on the rows

ASSUME NavSeriesAssumption == DayTicks \in Nat \ {0} /\ MaxSnapshots \in Nat

VARIABLES
  stored,         \* portfolio_valuation_snapshots
  series          \* the series that is being made, or was made last

navVars == <<stored, series>>

NoSeries == [at |-> "none"]
DayOf(t) == t \div DayTicks
DayEnd(d) == (d + 1) * DayTicks - 1
Total(row) == row.cash + row.securities

\* One row of a portfolio and a day.
NavTypeOK ==
  /\ \A row \in stored :
       /\ row.portfolio \in existing /\ row.day \in Nat /\ row.asOf \in 0..moment
       /\ row.cash \in Int /\ row.securities \in Nat /\ row.partial \in BOOLEAN /\ row.knows \in Nat
  /\ \A a, b \in stored : (a.portfolio = b.portfolio /\ a.day = b.day) => a = b
  /\ series.at \in {"none", "members", "snapshots", "done"}

\* The types of the tables, and their unique keys.
TypesOK == GroupsTypeOK /\ NavTypeOK

NavInit == stored = {} /\ series = NoSeries

EntriesKnown(p, t) == Cardinality({e \in entries : e.portfolio = p /\ e.at <= t})

-----------------------------------------------------------------------------
(* Snapshots *)

Unstored(p, d) == \A row \in stored : row.portfolio # p \/ row.day # d

\* create_snapshot of a day that has none.  Tickers in gaps have no price.
TakeSnapshot(p, d, gaps) ==
  LET asOf == Min({DayEnd(d), moment})
      holding == HoldingAt(p, asOf)
  IN  /\ p \in existing /\ Cardinality(stored) < MaxSnapshots /\ Unstored(p, d)
      /\ stored' = stored \cup
           {[portfolio |-> p, day |-> d, asOf |-> asOf, knows |-> EntriesKnown(p, asOf), cash |-> CashAt(p, asOf),
             securities |-> SumOf(LAMBDA h : h.value, {h \in holding : h.ticker \notin gaps}),
             partial |-> \E h \in holding : h.ticker \in gaps]}
      /\ UNCHANGED series

-----------------------------------------------------------------------------
(* A series *)

\* _current_members.
BeginSeries ==
  /\ series.at \in {"none", "done"} /\ group
  /\ series' = [at |-> "members", members |-> CurrentMembers]
  /\ UNCHANGED stored

\* _snapshots_by_date, and the rates the series will find.  Without members or
\* snapshots there is no series.
ReadSnapshots(rates) ==
  LET found == {row \in stored : row.portfolio \in series.members}
  IN  /\ series.at = "members"
      /\ series' = IF found = {} THEN NoSeries
                   ELSE [at |-> "snapshots", members |-> series.members, found |-> found, rates |-> rates]
      /\ UNCHANGED stored

\* first_event_dates.
FirstEvents(p) ==
  {DayOf(e.at) : e \in {e \in entries : e.portfolio = p}}
  \cup (IF p \in existing /\ Opening[p] # 0 THEN {DayOf(created_at[p])} ELSE {})
FirstSnapshots(found, p) == {row.day : row \in {row \in found : row.portfolio = p}}

\* Mutant: an account begins with its first snapshot.
EnteredBySnapshot(found, p) == FirstSnapshots(found, p)
\* _account_entries: with its first event, or else its first snapshot.
Entered(found, p) == IF FirstEvents(p) # {} THEN FirstEvents(p) ELSE FirstSnapshots(found, p)

FinishSeries ==
  LET begun == {p \in series.members : Entered(series.found, p) # {}}
  IN  /\ series.at = "snapshots"
      /\ series' = [at |-> "done", members |-> series.members, found |-> series.found, rates |-> series.rates,
                    entered |-> [p \in begun |-> Min(Entered(series.found, p))]]
      /\ UNCHANGED stored

\* The point of a day.
RowsOf(s, d) == {row \in s.found : row.day = d}
Counted(s, d) == {row \in RowsOf(s, d) : Converts(s, BaseCurrency[row.portfolio])}
Excluded(s, d) == {row \in RowsOf(s, d) \ Counted(s, d) : Total(row) # 0}
WorthOf(s, row) == s.rates[BaseCurrency[row.portfolio]] * Total(row)
NetValue(s, d) == SumOf(LAMBDA row : WorthOf(s, row), Counted(s, d))

\* Mutant: what is owed is told by its sign.
OwedBySign(s, d) == SumOf(LAMBDA row : WorthOf(s, row), {row \in Counted(s, d) : Total(row) < 0})
\* What is owned and what is owed are told apart by the kind of the account.
Owed(s, d) == SumOf(LAMBDA row : WorthOf(s, row), {row \in Counted(s, d) : row.portfolio \in Liabilities})

Started(s, d) == {p \in DOMAIN s.entered : s.entered[p] <= d}
Missing(s, d) == Started(s, d) \ {row.portfolio : row \in RowsOf(s, d)}

\* Mutant: a missing account is listed, and the point is complete.
CompleteIfConverted(s, d) == Excluded(s, d) = {}
\* The status of a point.
Complete(s, d) == Excluded(s, d) = {} /\ Missing(s, d) = {}

Points(s) == {row.day : row \in s.found}

SeriesNext ==
  \/ \E p \in Portfolios, gaps \in PriceGaps : \E d \in 0 .. DayOf(moment) : TakeSnapshot(p, d, gaps)
  \/ \E rates \in RateTables : ReadSnapshots(rates)
  \/ BeginSeries \/ FinishSeries

\* delete_portfolio: the rows of several tables go with a portfolio.
DeletesPortfolio(p) ==
  /\ DeletePortfolio(p)
  /\ stored' = {row \in stored : row.portfolio # p}
  /\ UNCHANGED series

\* Members, transfers, summaries, snapshots and series, all at once.
NavNext ==
  \/ MembershipNext /\ UNCHANGED <<reportVars, navVars>>
  \/ (TransfersNext \/ SummaryNext) /\ UNCHANGED <<groupVars, navVars>>
  \/ SeriesNext /\ UNCHANGED <<groupVars, reportVars>>
  \/ \E p \in Portfolios : DeletesPortfolio(p)

NavSpec == GroupsInit /\ ReportsInit /\ NavInit /\ [][NavNext]_<<groupVars, reportVars, navVars>>

-----------------------------------------------------------------------------
(* Properties *)

\* A point that is called complete is the sum of every member that had an event
\* by that day, also of events that were posted while the series was being made,
\* and of members whose snapshots begin later than their events.
CompletePointsCoverTheStarted ==
  [][(series.at = "snapshots" /\ series'.at = "done") =>
       \A d \in Points(series') : Complete(series', d) =>
         \A p \in series'.members :
           (\E first \in FirstEvents(p) : first <= d) => \E row \in RowsOf(series', d) : row.portfolio = p]_navVars

\* The comment of SeriesPoint: whether a comparison of two dates is between like
\* and like shows in the number of accounts they cover.  It does for complete
\* points, if nothing was stored for an account from before it began.
Covered(s, d) == {row.portfolio : row \in Counted(s, d)}
LikeWithLike ==
  series.at = "done" =>
    \A c, d \in {d \in Points(series) :
                   Complete(series, d) /\ RowsOf(series, d) = Counted(series, d)
                   /\ \A row \in RowsOf(series, d) : row.portfolio \in Started(series, d)} :
      (c < d /\ Cardinality(Covered(series, c)) = Cardinality(Covered(series, d)))
        => Covered(series, c) = Covered(series, d)

\* The snapshot is of the cutoff, and the journal has no more to say about it.
Current(row, cutoff) ==
  row.asOf = cutoff /\ row.knows = EntriesKnown(row.portfolio, cutoff) /\ ~row.partial

\* The two ways to value a group agree where they answer the same question: the
\* same members, rates and cutoff, and snapshots that are current.  One replays
\* and converts by currency, the other adds stored totals by account.
AtOnce(ids, cutoff, rates) ==
  FoldSet(LAMBDA p, s : WithPortfolio(s, p, {}), Begun(ids, cutoff, rates), ids)
SeriesAgreesWithSummary ==
  series.at = "done" =>
    \A d \in Points(series) :
      (/\ Cardinality(RowsOf(series, d)) = Cardinality(series.members)
       /\ \A row \in RowsOf(series, d) : row \in stored /\ Current(row, DayEnd(d)))
      => LET other == AtOnce(series.members, DayEnd(d), series.rates)
         IN  /\ NetValue(series, d) = TotalValue(other)
             /\ Owed(series, d) = LiabilitiesValue(other)
             /\ SumOf(Total, Excluded(series, d)) = UnconvertedValue(other)

\* The description of a point's status: partial when the date is understated.
UnderstatedPointsArePartial ==
  series.at = "done" =>
    \A d \in Points(series) : Complete(series, d) => \A row \in RowsOf(series, d) : ~row.partial
=============================================================================
