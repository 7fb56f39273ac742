--------------------------- MODULE CalendarProofs ---------------------------
(***************************************************************************)
(* What the searches of the calendar find, for any sessions in any zones.  *)
(* A search over the days is a recursive function on all integers; it is   *)
(* one function because a weekend is no longer than two days.              *)
(***************************************************************************)
EXTENDS Calendar, TLAPS

\* The weekday on or before a day, and the one on or after it.
WeekdayBefore(d) == IF ~IsWeekend(d) THEN d ELSE IF ~IsWeekend(d - 1) THEN d - 1 ELSE d - 2
WeekdayAfter(d)  == IF ~IsWeekend(d) THEN d ELSE IF ~IsWeekend(d + 1) THEN d + 1 ELSE d + 2

LEMMA WeekendsAreShort ==
  ASSUME NEW d \in Int
  PROVE  ~IsWeekend(d) \/ ~IsWeekend(d + 1) \/ ~IsWeekend(d + 2)
BY CalendarAssumption DEF IsWeekend, SATURDAY

LEMMA DayBounds ==
  ASSUME NEW t \in Int, NEW zone \in Int
  PROVE  /\ Day(t, zone) \in Int /\ TimeOfDay(t, zone) \in 0..DayLength - 1
         /\ t + zone = Day(t, zone) * DayLength + TimeOfDay(t, zone)
BY CalendarAssumption DEF Day, TimeOfDay

LEMMA WeekdayBeforeIs ==
  ASSUME NEW d \in Int
  PROVE  /\ WeekdayBefore(d) \in Int /\ ~IsWeekend(WeekdayBefore(d)) /\ WeekdayBefore(d) <= d
         /\ \A e \in WeekdayBefore(d) + 1 .. d : IsWeekend(e)
         /\ WeekdayBefore(d) = IF IsWeekend(d) THEN WeekdayBefore(d - 1) ELSE d
<1>1. ~IsWeekend(d) \/ ~IsWeekend(d - 1) \/ ~IsWeekend(d - 2)
  <2>1. d - 2 \in Int /\ (d - 2) + 1 = d - 1 /\ (d - 2) + 2 = d
    OBVIOUS
  <2> QED
    BY <2>1, WeekendsAreShort
<1>2. ~IsWeekend(d - 1) \/ ~IsWeekend(d - 2) \/ ~IsWeekend(d - 3)
  <2>1. d - 3 \in Int /\ (d - 3) + 1 = d - 2 /\ (d - 3) + 2 = d - 1
    OBVIOUS
  <2> QED
    BY <2>1, WeekendsAreShort
<1>3. (d - 1) - 1 = d - 2 /\ (d - 1) - 2 = d - 3
  OBVIOUS
<1>4. \A e \in Int : (d - 2 < e /\ e <= d) => (e = d \/ e = d - 1)
  OBVIOUS
<1>5. \A e \in Int : (d - 1 < e /\ e <= d) => e = d
  OBVIOUS
<1> QED
  BY <1>1, <1>2, <1>3, <1>4, <1>5 DEF WeekdayBefore

\* The search back from a day ends at the weekday on or before it.
LEMMA SearchBack ==
  ASSUME NEW f, f = CHOOSE g : g = [day \in Int |-> IF IsWeekend(day) THEN g[day - 1] ELSE day],
         NEW d \in Int
  PROVE  f[d] = WeekdayBefore(d)
<1> DEFINE before == [day \in Int |-> WeekdayBefore(day)]
<1>1. \A day \in Int : before[day] = IF IsWeekend(day) THEN before[day - 1] ELSE day
  BY WeekdayBeforeIs
<1>2. before = [day \in Int |-> IF IsWeekend(day) THEN before[day - 1] ELSE day]
  BY <1>1
<1> HIDE DEF before
<1>3. f = [day \in Int |-> IF IsWeekend(day) THEN f[day - 1] ELSE day]
  BY <1>2
<1>4. \A day \in Int : f[day] = IF IsWeekend(day) THEN f[day - 1] ELSE day
  BY <1>3
<1>5. (d - 1) - 1 = d - 2 /\ (d - 2) - 1 = d - 3 /\ d - 1 \in Int /\ d - 2 \in Int
  OBVIOUS
<1>6. /\ f[d] = IF IsWeekend(d) THEN f[d - 1] ELSE d
      /\ f[d - 1] = IF IsWeekend(d - 1) THEN f[d - 2] ELSE d - 1
      /\ f[d - 2] = IF IsWeekend(d - 2) THEN f[d - 3] ELSE d - 2
  BY <1>4, <1>5
<1>7. ~IsWeekend(d) \/ ~IsWeekend(d - 1) \/ ~IsWeekend(d - 2)
  <2>1. (d - 2) + 1 = d - 1 /\ (d - 2) + 2 = d
    OBVIOUS
  <2> QED
    BY <1>5, <2>1, WeekendsAreShort
<1> QED
  BY <1>6, <1>7 DEF WeekdayBefore

\* The last day, a weekday or not, on which a time of the day has passed.
LastPast(t, zone, time) == IF TimeOfDay(t, zone) < time THEN Day(t, zone) - 1 ELSE Day(t, zone)

LEMMA LastPastIs ==
  ASSUME NEW t \in Int, NEW zone \in Int, NEW time \in 0..DayLength - 1, NEW d \in Int
  PROVE  LastPast(t, zone, time) \in Int /\ (d * DayLength + time - zone <= t <=> d <= LastPast(t, zone, time))
<1> DEFINE n == Day(t, zone)
           r == TimeOfDay(t, zone)
<1>1. DayLength \in Nat \ {0}
  BY CalendarAssumption
<1>2. n \in Int /\ r \in 0..DayLength - 1 /\ t + zone = n * DayLength + r
  BY DayBounds
<1>3. LastPast(t, zone, time) = IF r < time THEN n - 1 ELSE n
  BY DEF LastPast
<1> HIDE DEF n, r
<1>4. d * DayLength + time <= n * DayLength + r <=> d <= (IF r < time THEN n - 1 ELSE n)
  <2>1. CASE d <= n - 1
    <3>1. d * DayLength <= (n - 1) * DayLength
      BY <1>1, <1>2, <2>1
    <3>2. (n - 1) * DayLength = n * DayLength - DayLength
      BY <1>1, <1>2
    <3> QED
      BY <1>1, <1>2, <2>1, <3>1, <3>2
  <2>2. CASE d = n
    BY <1>1, <1>2, <2>2
  <2>3. CASE d >= n + 1
    <3>1. d * DayLength >= (n + 1) * DayLength
      BY <1>1, <1>2, <2>3
    <3>2. (n + 1) * DayLength = n * DayLength + DayLength
      BY <1>1, <1>2
    <3> QED
      BY <1>1, <1>2, <2>3, <3>1, <3>2
  <2> QED
    BY <1>2, <2>1, <2>2, <2>3
<1>5. n * DayLength \in Int /\ d * DayLength \in Int
  BY <1>1, <1>2
<1> QED
  BY <1>1, <1>2, <1>3, <1>4, <1>5

\* The instant that lies r ticks into a day.
IsAt(t, zone, n, r) == t + zone = n * DayLength + r

LEMMA DayIs ==
  ASSUME NEW t \in Int, NEW zone \in Int, NEW n \in Int, NEW r \in 0..DayLength - 1,
         IsAt(t, zone, n, r)
  PROVE  Day(t, zone) = n /\ TimeOfDay(t, zone) = r
<1> DEFINE m == Day(t, zone)
           q == TimeOfDay(t, zone)
<1>1. DayLength \in Nat \ {0}
  BY CalendarAssumption
<1>3. m \in Int /\ q \in 0..DayLength - 1 /\ t + zone = m * DayLength + q
  BY DayBounds
<1>2. t + zone = n * DayLength + r
  BY DEF IsAt
<1> HIDE DEF m, q
<1>4. m = n
  <2>1. CASE m <= n - 1
    <3>1. m * DayLength <= (n - 1) * DayLength /\ (n - 1) * DayLength = n * DayLength - DayLength
      BY <1>1, <1>3, <2>1
    <3> QED
      BY <1>2, <1>1, <1>3, <3>1
  <2>2. CASE m >= n + 1
    <3>1. m * DayLength >= (n + 1) * DayLength /\ (n + 1) * DayLength = n * DayLength + DayLength
      BY <1>1, <1>3, <2>2
    <3> QED
      BY <1>2, <1>1, <1>3, <3>1
  <2> QED
    BY <1>3, <2>1, <2>2
<1> QED
  BY <1>2, <1>1, <1>3, <1>4 DEF m, q

-----------------------------------------------------------------------------
(* The close a report may use *)

LastClosed(market, t) == LastPast(t, MARKET_SESSIONS[market].zone, MARKET_SESSIONS[market].closes)

LEMMA LastClosedIs ==
  ASSUME NEW t \in Int, NEW market \in DOMAIN MARKET_SESSIONS, NEW d \in Int
  PROVE  /\ LastClosed(market, t) \in Int
         /\ d * DayLength + MARKET_SESSIONS[market].closes - MARKET_SESSIONS[market].zone <= t
              <=> d <= LastClosed(market, t)
<1>1. MARKET_SESSIONS[market].zone \in Int /\ MARKET_SESSIONS[market].closes \in 0..DayLength - 1
  BY CalendarAssumption DEF Session
<1> QED
  BY <1>1, LastPastIs DEF LastClosed

LEMMA CompletedPriceDateIs ==
  ASSUME NEW t \in Int, NEW market
  PROVE  CompletedPriceDate(t, market) =
           IF market \in DOMAIN MARKET_SESSIONS THEN WeekdayBefore(LastClosed(market, t)) ELSE Day(t, 0) - 1
<1>1. CASE market \notin DOMAIN MARKET_SESSIONS
  BY <1>1 DEF CompletedPriceDate
<1>2. CASE market \in DOMAIN MARKET_SESSIONS
  <2> DEFINE weekday == CHOOSE g : g = [day \in Int |-> IF IsWeekend(day) THEN g[day - 1] ELSE day]
  <2>1. LastClosed(market, t) \in Int
    BY <1>2, LastClosedIs
  <2>2. CompletedPriceDate(t, market) = weekday[LastClosed(market, t)]
    BY <1>2 DEF CompletedPriceDate, LastClosed, LastPast
  <2> HIDE DEF weekday
  <2>3. weekday[LastClosed(market, t)] = WeekdayBefore(LastClosed(market, t))
    BY <2>1, SearchBack DEF weekday
  <2> QED
    BY <1>2, <2>2, <2>3
<1> QED
  BY <1>1, <1>2

\* completed_price_date: the close a report may use is that of the last day of
\* trading that is over, on weekends and in zones in which it is another day.
THEOREM CompletedClose ==
  ASSUME NEW t \in Int, NEW market
  PROVE  /\ CompletedPriceDate(t, market) \in Int
         /\ Over(market, CompletedPriceDate(t, market), t)
         /\ \A later \in Int : later > CompletedPriceDate(t, market) => ~Over(market, later, t)
<1>1. CASE market \notin DOMAIN MARKET_SESSIONS
  <2>1. Day(t, 0) \in Int /\ TimeOfDay(t, 0) \in 0..DayLength - 1 /\ t = Day(t, 0) * DayLength + TimeOfDay(t, 0)
    BY DayBounds
  <2>2. CompletedPriceDate(t, market) = Day(t, 0) - 1
    BY <1>1, CompletedPriceDateIs
  <2>3. Over(market, Day(t, 0) - 1, t)
    BY <1>1, <2>1, CalendarAssumption DEF Over
  <2>4. ASSUME NEW later \in Int, later > Day(t, 0) - 1
        PROVE  ~Over(market, later, t)
    <3>1. (later + 1) * DayLength >= (Day(t, 0) + 1) * DayLength
      BY <2>1, <2>4, CalendarAssumption
    <3>2. (Day(t, 0) + 1) * DayLength = Day(t, 0) * DayLength + DayLength
      BY <2>1, CalendarAssumption
    <3> QED
      BY <1>1, <2>1, <3>1, <3>2, CalendarAssumption DEF Over
  <2> QED
    BY <2>1, <2>2, <2>3, <2>4
<1>2. CASE market \in DOMAIN MARKET_SESSIONS
  <2> DEFINE past == LastClosed(market, t)
             day == WeekdayBefore(past)
  <2>1. past \in Int
    BY <1>2, LastClosedIs
  <2>2. /\ day \in Int /\ ~IsWeekend(day) /\ day <= past
        /\ \A e \in day + 1 .. past : IsWeekend(e)
    BY <2>1, WeekdayBeforeIs
  <2>3. CompletedPriceDate(t, market) = day
    BY <1>2, CompletedPriceDateIs
  <2> HIDE DEF past, day
  <2>4. \A d \in Int : Over(market, d, t) <=> (~IsWeekend(d) /\ d <= past)
    BY <1>2, LastClosedIs DEF Over, past
  <2>5. \A later \in Int : (later > day /\ later <= past) => IsWeekend(later)
    BY <2>1, <2>2
  <2> QED
    BY <2>2, <2>3, <2>4, <2>5
<1> QED
  BY <1>1, <1>2

-----------------------------------------------------------------------------
(* The next opening *)

LEMMA WeekdayAfterIs ==
  ASSUME NEW d \in Int
  PROVE  /\ WeekdayAfter(d) \in Int /\ ~IsWeekend(WeekdayAfter(d)) /\ WeekdayAfter(d) >= d
         /\ \A e \in Int : (d <= e /\ e < WeekdayAfter(d)) => IsWeekend(e)
         /\ WeekdayAfter(d) = IF IsWeekend(d) THEN WeekdayAfter(d + 1) ELSE d
<1>1. ~IsWeekend(d) \/ ~IsWeekend(d + 1) \/ ~IsWeekend(d + 2)
  BY WeekendsAreShort
<1>2. ~IsWeekend(d + 1) \/ ~IsWeekend(d + 2) \/ ~IsWeekend(d + 3)
  <2>1. d + 1 \in Int /\ (d + 1) + 1 = d + 2 /\ (d + 1) + 2 = d + 3
    OBVIOUS
  <2> QED
    BY <2>1, WeekendsAreShort
<1>3. (d + 1) + 1 = d + 2 /\ (d + 1) + 2 = d + 3
  OBVIOUS
<1>4. \A e \in Int : (d <= e /\ e < d + 2) => (e = d \/ e = d + 1)
  OBVIOUS
<1>5. \A e \in Int : (d <= e /\ e < d + 1) => e = d
  OBVIOUS
<1> QED
  BY <1>1, <1>2, <1>3, <1>4, <1>5 DEF WeekdayAfter

\* The instant at which a market opens on a day, if it is a weekday.
OpeningOf(market, day) == day * DayLength + MARKET_SESSIONS[market].opens - MARKET_SESSIONS[market].zone

LastOpened(market, t) == LastPast(t, MARKET_SESSIONS[market].zone, MARKET_SESSIONS[market].opens)

LEMMA SessionIs ==
  ASSUME NEW market \in DOMAIN MARKET_SESSIONS
  PROVE  /\ MARKET_SESSIONS[market].zone \in Int
         /\ MARKET_SESSIONS[market].opens \in 0..DayLength - 1
         /\ MARKET_SESSIONS[market].closes \in 0..DayLength - 1
         /\ MARKET_SESSIONS[market].opens < MARKET_SESSIONS[market].closes
BY CalendarAssumption DEF Session

LEMMA LastOpenedIs ==
  ASSUME NEW t \in Int, NEW market \in DOMAIN MARKET_SESSIONS, NEW d \in Int
  PROVE  LastOpened(market, t) \in Int /\ (OpeningOf(market, d) <= t <=> d <= LastOpened(market, t))
BY SessionIs, LastPastIs DEF LastOpened, OpeningOf

\* The day of the next opening.
OpeningDay(market, t) == WeekdayAfter(LastOpened(market, t) + 1)

\* The search for the next opening, from today on.
LEMMA SearchAhead ==
  ASSUME NEW t \in Int, NEW market \in DOMAIN MARKET_SESSIONS,
         NEW f, f = CHOOSE g : g = [day \in Int |->
                      IF OpeningOf(market, day) <= t \/ IsWeekend(day) THEN g[day + 1] ELSE OpeningOf(market, day)],
         NEW d \in {LastOpened(market, t), LastOpened(market, t) + 1}
  PROVE  f[d] = OpeningOf(market, OpeningDay(market, t))
<1> DEFINE past == LastOpened(market, t)
           Start(day) == IF day <= past THEN past + 1 ELSE day
           after == [day \in Int |-> OpeningOf(market, WeekdayAfter(Start(day)))]
<1>1. past \in Int /\ \A day \in Int : OpeningOf(market, day) <= t <=> day <= past
  BY LastOpenedIs
<1> HIDE DEF past
<1>2. ASSUME NEW day \in Int
      PROVE  after[day] = IF OpeningOf(market, day) <= t \/ IsWeekend(day) THEN after[day + 1] ELSE OpeningOf(market, day)
  <2>1. CASE day <= past
    <3>1. Start(day) = past + 1 /\ Start(day + 1) = past + 1
      BY <1>1, <2>1
    <3> QED
      BY <1>1, <2>1, <3>1
  <2>2. CASE day > past
    <3>1. Start(day) = day /\ Start(day + 1) = day + 1 /\ ~(day <= past)
      BY <1>1, <2>2
    <3>2. WeekdayAfter(day) = IF IsWeekend(day) THEN WeekdayAfter(day + 1) ELSE day
      BY WeekdayAfterIs
    <3> QED
      BY <1>1, <3>1, <3>2
  <2> QED
    BY <1>1, <2>1, <2>2
<1>3. after = [day \in Int |->
         IF OpeningOf(market, day) <= t \/ IsWeekend(day) THEN after[day + 1] ELSE OpeningOf(market, day)]
  BY <1>2
<1> HIDE DEF after
<1>4. f = [day \in Int |->
         IF OpeningOf(market, day) <= t \/ IsWeekend(day) THEN f[day + 1] ELSE OpeningOf(market, day)]
  BY <1>3
<1>5. \A day \in Int :
        f[day] = IF OpeningOf(market, day) <= t \/ IsWeekend(day) THEN f[day + 1] ELSE OpeningOf(market, day)
  BY <1>4
<1>6. f[past] = f[past + 1]
  BY <1>1, <1>5
<1>7. /\ f[past + 1] = IF IsWeekend(past + 1) THEN f[past + 2] ELSE OpeningOf(market, past + 1)
      /\ f[past + 2] = IF IsWeekend(past + 2) THEN f[past + 3] ELSE OpeningOf(market, past + 2)
      /\ f[past + 3] = IF IsWeekend(past + 3) THEN f[past + 4] ELSE OpeningOf(market, past + 3)
  <2>1. /\ past + 1 \in Int /\ ~(past + 1 <= past) /\ (past + 1) + 1 = past + 2
        /\ past + 2 \in Int /\ ~(past + 2 <= past) /\ (past + 2) + 1 = past + 3
        /\ past + 3 \in Int /\ ~(past + 3 <= past) /\ (past + 3) + 1 = past + 4
    BY <1>1
  <2> QED
    BY <1>1, <1>5, <2>1
<1>8. ~IsWeekend(past + 1) \/ ~IsWeekend(past + 2) \/ ~IsWeekend(past + 3)
  <2>1. past + 1 \in Int /\ (past + 1) + 1 = past + 2 /\ (past + 1) + 2 = past + 3
    BY <1>1
  <2> QED
    BY <2>1, WeekendsAreShort
<1>9. (past + 1) + 1 = past + 2 /\ (past + 1) + 2 = past + 3
  BY <1>1
<1>10. f[past + 1] = OpeningOf(market, WeekdayAfter(past + 1))
  BY <1>7, <1>8, <1>9 DEF WeekdayAfter
<1> QED
  BY <1>6, <1>10 DEF past, OpeningDay

LEMMA NextOpenIs ==
  ASSUME NEW t \in Int, NEW market \in DOMAIN MARKET_SESSIONS
  PROVE  NextOpen(market, t) = OpeningOf(market, OpeningDay(market, t))
<1> DEFINE candidate == CHOOSE g : g = [day \in Int |->
             IF OpeningOf(market, day) <= t \/ IsWeekend(day) THEN g[day + 1] ELSE OpeningOf(market, day)]
<1>1. NextOpen(market, t) = candidate[Day(t, MARKET_SESSIONS[market].zone)]
  BY DEF NextOpen, OpeningOf
<1>2. Day(t, MARKET_SESSIONS[market].zone) \in {LastOpened(market, t), LastOpened(market, t) + 1}
  <2>1. Day(t, MARKET_SESSIONS[market].zone) \in Int
    BY SessionIs, DayBounds
  <2> QED
    BY <2>1 DEF LastOpened, LastPast
<1> HIDE DEF candidate
<1>3. candidate[Day(t, MARKET_SESSIONS[market].zone)] = OpeningOf(market, OpeningDay(market, t))
  BY <1>2, SearchAhead DEF candidate
<1> QED
  BY <1>1, <1>3

\* seconds_until_next_open: it counts to the first opening to come, before the
\* opening of the same day as well as across weekends.
THEOREM NextOpening ==
  ASSUME NEW t \in Int, NEW market \in DOMAIN MARKET_SESSIONS
  PROVE  NextOpen(market, t) \in Int /\ OpensNext(market, t, NextOpen(market, t))
<1> DEFINE zone == MARKET_SESSIONS[market].zone
           opens == MARKET_SESSIONS[market].opens
           closes == MARKET_SESSIONS[market].closes
           past == LastOpened(market, t)
           day == OpeningDay(market, t)
           u == NextOpen(market, t)
<1>1. zone \in Int /\ opens \in 0..DayLength - 1 /\ closes \in 0..DayLength - 1 /\ opens < closes /\ DayLength \in Nat \ {0}
  BY SessionIs, CalendarAssumption
<1>2. past \in Int
  BY LastOpenedIs
<1>3. /\ day \in Int /\ ~IsWeekend(day) /\ day >= past + 1
      /\ \A e \in Int : (past + 1 <= e /\ e < day) => IsWeekend(e)
  BY <1>2, WeekdayAfterIs DEF OpeningDay
<1>4. u = day * DayLength + opens - zone
  BY NextOpenIs DEF OpeningOf
<1> HIDE DEF u, day, past, zone, opens, closes
<1>5. u \in Int /\ u + zone = day * DayLength + opens
  <2>1. day * DayLength \in Int
    BY <1>1, <1>3
  <2> QED
    BY <1>1, <1>4, <2>1
<1>6. t < u
  <2>1. ~(OpeningOf(market, day) <= t)
    BY <1>2, <1>3, LastOpenedIs DEF past
  <2> QED
    BY <1>4, <1>5, <2>1 DEF OpeningOf, zone, opens
<1>7. IsMarketOpen(market, u)
  <2>1. Day(u, zone) = day /\ TimeOfDay(u, zone) = opens
    <3>1. IsAt(u, zone, day, opens)
      BY <1>5 DEF IsAt
    <3> QED
      BY <1>1, <1>3, <1>5, <3>1, DayIs
  <2> QED
    BY <1>1, <1>3, <2>1 DEF IsMarketOpen, zone, opens, closes
<1>8. ~IsMarketOpen(market, u - 1)
  <2>1. CASE opens = 0
    <3>1. (u - 1) + zone = (day - 1) * DayLength + (DayLength - 1)
      <4>1. (day - 1) * DayLength = day * DayLength - DayLength /\ day * DayLength \in Int
        BY <1>1, <1>3
      <4> QED
        BY <1>1, <1>5, <2>1, <4>1
    <3>2. u - 1 \in Int /\ day - 1 \in Int /\ DayLength - 1 \in 0..DayLength - 1
      BY <1>1, <1>3, <1>5
    <3>3. TimeOfDay(u - 1, zone) = DayLength - 1
      <4>1. IsAt(u - 1, zone, day - 1, DayLength - 1)
        BY <3>1 DEF IsAt
      <4> QED
        BY <1>1, <3>2, <4>1, DayIs
    <3> QED
      BY <1>1, <3>3 DEF IsMarketOpen, zone, opens, closes
  <2>2. CASE opens > 0
    <3>1. (u - 1) + zone = day * DayLength + (opens - 1)
      <4> DEFINE k == day * DayLength
      <4>1. k \in Int /\ u + zone = k + opens
        BY <1>1, <1>3, <1>5
      <4> HIDE DEF k
      <4>2. (u - 1) + zone = k + (opens - 1)
        BY <1>1, <1>5, <4>1
      <4> QED
        BY <4>2 DEF k
    <3>2. u - 1 \in Int /\ opens - 1 \in 0..DayLength - 1
      BY <1>1, <1>5, <2>2
    <3>3. TimeOfDay(u - 1, zone) = opens - 1
      <4>1. IsAt(u - 1, zone, day, opens - 1)
        BY <3>1 DEF IsAt
      <4> QED
        BY <1>1, <1>3, <3>2, <4>1, DayIs
    <3> QED
      BY <1>1, <3>3 DEF IsMarketOpen, zone, opens, closes
  <2> QED
    BY <1>1, <2>1, <2>2
<1>9. ASSUME NEW v \in t + 1 .. u - 1, IsMarketOpen(market, v)
      PROVE  IsMarketOpen(market, v - 1)
  <2> DEFINE e == Day(v, zone)
             r == TimeOfDay(v, zone)
  <2>1. v \in Int /\ t < v /\ v < u
    BY <1>5
  <2>2. e \in Int /\ r \in 0..DayLength - 1 /\ v + zone = e * DayLength + r
    BY <1>1, <2>1, DayBounds
  <2>3. ~IsWeekend(e) /\ opens <= r /\ r < closes
    BY <1>9 DEF IsMarketOpen, zone, opens, closes
  <2>4. e * DayLength \in Int
    BY <1>1, <2>2
  <2>5. r # opens
    <3>1. SUFFICES ASSUME r = opens PROVE FALSE
      OBVIOUS
    <3>2. v = e * DayLength + opens - zone
      <4> HIDE DEF e, r
      <4> QED
        BY <1>1, <2>1, <2>2, <2>4, <3>1
    <3>3. ~(e <= past)
      BY <2>1, <2>2, <3>2, LastOpenedIs DEF OpeningOf, past, zone, opens
    <3>4. e >= day
      BY <1>2, <1>3, <2>2, <2>3, <3>3
    <3>5. e * DayLength >= day * DayLength /\ day * DayLength \in Int
      BY <1>1, <1>3, <2>2, <3>4
    <3> HIDE DEF e, r
    <3> QED
      BY <1>1, <1>5, <2>1, <2>2, <2>4, <3>1, <3>5
  <2> HIDE DEF e, r
  <2>6. (v - 1) + zone = e * DayLength + (r - 1) /\ v - 1 \in Int /\ r - 1 \in 0..DayLength - 1
    BY <1>1, <2>1, <2>2, <2>3, <2>4, <2>5
  <2>7. Day(v - 1, zone) = e /\ TimeOfDay(v - 1, zone) = r - 1
    <3>1. IsAt(v - 1, zone, e, r - 1)
      BY <2>6 DEF IsAt
    <3> QED
      BY <1>1, <2>2, <2>6, <3>1, DayIs
  <2>8. opens <= r - 1 /\ r - 1 < closes
    BY <1>1, <2>2, <2>3, <2>5
  <2> QED
    BY <2>3, <2>7, <2>8 DEF IsMarketOpen, zone, opens, closes
<1> QED
  BY <1>5, <1>6, <1>7, <1>8, <1>9 DEF OpensNext, u
=============================================================================
