------------------------------ MODULE Calendar ------------------------------
(***************************************************************************)
(* Trading sessions and report dates: when a market is open, how long a    *)
(* quote may be kept, and which day's close is known at a cutoff.          *)
(*                                                                         *)
(* Time is counted in ticks; DayLength of them make a day, and days and    *)
(* ticks are numbered from 0 in UTC.  A zone is its distance from UTC; that*)
(* the distance changes twice a year is not modelled.                      *)
(***************************************************************************)
EXTENDS Integers

CONSTANTS
  DayLength,        \* ticks of a day
  FirstWeekday,     \* the weekday of day 0, Monday being 0
  MARKET_SESSIONS   \* market |-> [zone, opens, closes], the latter two in ticks of its day

Session == [zone: Int, opens: 0..DayLength - 1, closes: 0..DayLength - 1]

\* There is a last weekday before every day and a next one after it.
ASSUME CalendarAssumption ==
  /\ DayLength \in Nat \ {0}
  /\ FirstWeekday \in 0..6
  /\ \A m \in DOMAIN MARKET_SESSIONS :
       MARKET_SESSIONS[m] \in Session /\ MARKET_SESSIONS[m].opens < MARKET_SESSIONS[m].closes

SATURDAY == 5

Day(t, zone)       == (t + zone) \div DayLength
TimeOfDay(t, zone) == (t + zone) % DayLength
IsWeekend(day)     == (day + FirstWeekday) % 7 >= SATURDAY

\* Markets without a session, crypto and unknown ones, are always open.
IsMarketOpen(market, t) ==
  market \in DOMAIN MARKET_SESSIONS =>
    LET s == MARKET_SESSIONS[market]
    IN  /\ ~IsWeekend(Day(t, s.zone))
        /\ s.opens <= TimeOfDay(t, s.zone)
        /\ TimeOfDay(t, s.zone) < s.closes

\* Mutant: today's open is skipped although it is still to come.
NextOpenTomorrow(market, t) ==
  LET s == MARKET_SESSIONS[market]
      Opening(day) == day * DayLength + s.opens - s.zone
      candidate[day \in Int] == IF IsWeekend(day) THEN candidate[day + 1] ELSE Opening(day)
  IN  candidate[Day(t, s.zone) + 1]

\* The candidate openings, from today's on, up to the first to come on a weekday.
NextOpen(market, t) ==
  LET s == MARKET_SESSIONS[market]
      Opening(day) == day * DayLength + s.opens - s.zone
      candidate[day \in Int] ==
        IF Opening(day) <= t \/ IsWeekend(day) THEN candidate[day + 1] ELSE Opening(day)
  IN  candidate[Day(t, s.zone)]

SecondsUntilNextOpen(market, t) == NextOpen(market, t) - t

QuoteTtlFor(market, t, openTtl) ==
  IF IsMarketOpen(market, t) \/ SecondsUntilNextOpen(market, t) < openTtl
  THEN openTtl ELSE SecondsUntilNextOpen(market, t)

-----------------------------------------------------------------------------
(* Report dates.  A report zone is a distance from UTC, too. *)

CompletedPriceDate(cutoff, market) ==
  LET s == MARKET_SESSIONS[market]
      weekday[day \in Int] == IF IsWeekend(day) THEN weekday[day - 1] ELSE day
  IN  IF market \notin DOMAIN MARKET_SESSIONS THEN Day(cutoff, 0) - 1
      ELSE weekday[IF TimeOfDay(cutoff, s.zone) < s.closes THEN Day(cutoff, s.zone) - 1
                   ELSE Day(cutoff, s.zone)]

Today(t, zone)      == Day(t, zone)
EndOfDay(day, zone) == (day + 1) * DayLength - zone - 1
Cutoff(day, t, zone) == IF EndOfDay(day, zone) < t THEN EndOfDay(day, zone) ELSE t

-----------------------------------------------------------------------------
(* What these answers mean, in terms of the sessions alone *)

\* The next opening is the first later instant at which the market is open
\* after an instant at which it was not.
OpensNext(market, t, u) ==
  /\ t < u /\ IsMarketOpen(market, u) /\ ~IsMarketOpen(market, u - 1)
  /\ \A v \in t + 1 .. u - 1 : IsMarketOpen(market, v) => IsMarketOpen(market, v - 1)

\* A day of trading is over at its close, or at midnight where there is none.
Over(market, day, t) ==
  IF market \in DOMAIN MARKET_SESSIONS
  THEN LET s == MARKET_SESSIONS[market]
       IN  ~IsWeekend(day) /\ day * DayLength + s.closes - s.zone <= t
  ELSE (day + 1) * DayLength <= t

LastOver(market, t, day) ==
  Over(market, day, t) /\ \A later \in day + 1 .. day + 7 : ~Over(market, later, t)
=============================================================================
