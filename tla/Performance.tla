----------------------------- MODULE Performance -----------------------------
(***************************************************************************)
(* The returns of a book between its stored valuation snapshots.           *)
(*                                                                         *)
(* A snapshot is taken here in one step; Snapshots shows the steps.  Its   *)
(* cutoff is the end of its day or, during the day, the instant before it  *)
(* is taken; the price is the last close complete by then.  The flows      *)
(* between two cutoffs are read from the journal as it is when the returns *)
(* are computed.  A daily return is an exact fraction; the root search of  *)
(* XIRR is left out, the flows it is given are not.                        *)
(***************************************************************************)
EXTENDS Holdings

CONSTANTS
  DayTicks,       \* ticks of a day
  Tapes           \* the closes of the security, day after day, from the day before the first on

ASSUME PerformanceAssumption ==
  /\ DayTicks \in Nat \ {0} /\ Tapes \subseteq Seq(Nat)
  /\ \A closes \in Tapes : (Horizon - 1) \div DayTicks < Len(closes)

VARIABLES
  tape,           \* the closes; only those of days that are over are looked at
  snapshots       \* portfolio_valuation_snapshots

perfVars == <<tape, snapshots>>

PerformanceInit == tape \in Tapes /\ snapshots = {}

Day(t) == (t - 1) \div DayTicks
DayEnd(d) == (d + 1) * DayTicks

\* The last close of a day that is over at the cutoff.
CloseAt(cutoff) == tape[cutoff \div DayTicks + 1]

-----------------------------------------------------------------------------

\* create_snapshot of a day that has none, or by force again.  Without a price
\* the holding is left out of the total.
TakeSnapshot(d, priced) ==
  LET cutoff == Min({DayEnd(d), now - 1})
      state == ReplayState(journal, cutoff)
      held == state.position.quantity # 0
  IN  /\ cutoff > 0
      /\ snapshots' = {s \in snapshots : s.day # d} \cup
           {[day |-> d, cutoff |-> cutoff, cash |-> state.cash,
             market |-> IF held /\ priced THEN state.position.quantity * CloseAt(cutoff) ELSE 0,
             partial |-> held /\ ~priced,
             external |-> NetExternal(ReplayFlows(journal, 0, cutoff)),
             knows |-> Cardinality(Through(journal, cutoff))]}
      /\ UNCHANGED <<vars, tape>>

SnapshotsNext == \E d \in 0..Day(now), priced \in BOOLEAN : TakeSnapshot(d, priced)

PerformanceNext == (Next /\ UNCHANGED perfVars) \/ SnapshotsNext

PerformanceSpec == Init /\ PerformanceInit /\ [][PerformanceNext]_<<vars, perfVars>>

-----------------------------------------------------------------------------
(* Returns over the snapshots of the days from one to another *)

Total(s) == s.cash + s.market

\* list_snapshots: by date.
Listed(from, to) ==
  LET days == Ascending({s.day : s \in {t \in snapshots : from <= t.day /\ t.day <= to}})
  IN  [k \in DOMAIN days |-> CHOOSE s \in snapshots : s.day = days[k]]

\* _flow_buckets: one per pair of snapshots.
FlowsBetween(log, list) ==
  LET buckets == FlowsByBucket(log, [k \in DOMAIN list |-> list[k].cutoff])
  IN  [k \in DOMAIN buckets |-> NetExternal(buckets[k])]

NoReturn == [num |-> 0, den |-> 0]
Gain(list, flows, k) == Total(list[k + 1]) - Total(list[k]) - flows[k]

\* Mutant: only a base of nothing is refused.
ReturnOnAnyBase(gain, base) == IF base = 0 THEN NoReturn ELSE Fraction(2 * gain, base)
\* Half of the flow counts towards the base, which is given twice here; there is
\* no return on a base that is not positive.
Return(gain, base) == IF base <= 0 THEN NoReturn ELSE Fraction(2 * gain, base)

\* _daily_returns
DailyReturns(log, list) ==
  LET flows == FlowsBetween(log, list)
  IN  [k \in DOMAIN flows |-> Return(Gain(list, flows, k), 2 * Total(list[k]) + flows[k])]

\* A day without a return is skipped.
Grow(growth, r) ==
  IF r = NoReturn THEN growth ELSE Fraction(growth.num * (r.den + r.num), growth.den * r.den)

\* _link: the growth over the days.
Linked(daily) == FoldLeft(Grow, Whole(1), daily)

\* _xirr: what the investor put in and got out.
XirrFlows(log, list) ==
  LET flows == FlowsBetween(log, list)
  IN  <<-Total(list[1])>> \o [k \in DOMAIN flows |-> -flows[k]] \o <<Total(list[Len(list)])>>

-----------------------------------------------------------------------------
(* Properties *)

\* The periods between two snapshots.
Periods ==
  {list \in {Listed(from, to) : from, to \in 0..Day(now)} : Len(list) > 1}

\* A snapshot nothing has since been dated before.
Fresh(s) == ~s.partial /\ s.knows = Cardinality(Through(journal, s.cutoff))

Undone(i) == IF journal[i].type = "reversal" THEN journal[i].reverses ELSE i
Within(low, high) == {i \in DOMAIN journal : low < journal[i].occurred /\ journal[i].occurred <= high}

\* Money that came or went is no gain and no loss, whenever it did and whatever
\* was undone of it: between two fresh snapshots the gain is what the market and
\* the portfolio's own events made.
GainsComeFromThePortfolio ==
  \A list \in Periods : \A k \in 1..(Len(list) - 1) :
    (Fresh(list[k]) /\ Fresh(list[k + 1])) =>
      Gain(list, FlowsBetween(journal, list), k) =
        list[k + 1].market - list[k].market
        + SumOver({i \in Within(list[k].cutoff, list[k + 1].cutoff) :
                     journal[Undone(i)].type \notin ExternalEvents}, LAMBDA e : e.legs.cash)

\* The days are linked so that it does not matter how many snapshots lie between
\* two dates: without flows the growth is that of the value.
GrowthIsOfTheValue ==
  \A list \in Periods :
    (/\ \A k \in DOMAIN list : Total(list[k]) > 0
     /\ \A k \in 1..(Len(list) - 1) : FlowsBetween(journal, list)[k] = 0)
    => Linked(DailyReturns(journal, list)) = Fraction(Total(list[Len(list)]), Total(list[1]))

\* The comment of calculate_performance: a flow is never counted one way in one
\* return and another way in the other.  What XIRR discounts adds up to the gains
\* of the days.
BothReturnsSeeTheSameFlows ==
  \A list \in Periods :
    LET flows == XirrFlows(journal, list)
        daily == FlowsBetween(journal, list)
    IN  SumTo(flows, Len(flows)) = SumTo([k \in DOMAIN daily |-> Gain(list, daily, k)], Len(daily))

\* A gain never shows as a loss: while no day lost, neither did the period, also
\* over days on which the book was overdrawn or empty.
GainsDoNotShowAsLosses ==
  \A list \in Periods :
    (\A k \in 1..(Len(list) - 1) : Gain(list, FlowsBetween(journal, list), k) >= 0)
    => LET growth == Linked(DailyReturns(journal, list)) IN growth.num >= growth.den

\* The returns of calculate_performance say of a period what its values and flows
\* say, whatever snapshots lie in it and whatever the book was worth meanwhile.
ReturnsAgreeWithValues ==
  GrowthIsOfTheValue /\ BothReturnsSeeTheSameFlows /\ GainsDoNotShowAsLosses

\* A reversal is an event of its own day: what is posted now, or undone, does not
\* change a return that was measured before.
MeasuredReturnsStand ==
  [][\A list \in Periods :
       (Len(journal') > Len(journal) /\ journal'[Len(journal')].occurred > list[Len(list)].cutoff)
       => DailyReturns(journal', list) = DailyReturns(journal, list)]_vars
=============================================================================
