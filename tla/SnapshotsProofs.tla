--------------------------- MODULE SnapshotsProofs ---------------------------
(***************************************************************************)
(* Proofs about Snapshots, for any portfolios, requests, calendar and      *)
(* number of workers: first what the rows know and when they were made,    *)
(* then the types, then which close a row was priced with.                 *)
(***************************************************************************)
EXTENDS Snapshots, CalendarProofs, Induction

Stored(p, d) == snapshots[p][d] # NoRow
Target(w) == session[w].request.portfolio

\* What the tables hold: a row was made of some prefix of the journal, at an
\* instant that has passed.
TablesOK ==
  /\ now \in Clock
  /\ portfolios \subseteq PortfolioSet
  /\ journal \in [PortfolioSet -> Seq([occurred: Int, quantity: Int])]
  /\ DOMAIN snapshots = PortfolioSet
  /\ \A p \in PortfolioSet : DOMAIN snapshots[p] = Days
  /\ revision \in Nat \ {0}
RowsOK ==
  \A p \in PortfolioSet, d \in Days :
    Stored(p, d) =>
      /\ snapshots[p][d].knows \in 0..Len(journal[p])
      /\ snapshots[p][d].asOf \in Int
      /\ snapshots[p][d].asOf <= Cutoff(d, now, ReportZone)

\* A rebuild is at a day of its range.
Passing(w) ==
  /\ session[w].at = "next"
  /\ session[w].request \in RequestSet
  /\ session[w].last \in Int /\ session[w].last <= LastDay
  /\ session[w].day \in Int /\ session[w].day >= session[w].request.from

\* A valuation knows no less than the row it replaces.
Valuing(w) ==
  LET s == session[w]
  IN  /\ s.at = "value"
      /\ s.request \in RequestSet
      /\ s.last \in Int /\ s.last <= LastDay
      /\ s.day \in Int /\ s.day >= s.request.from /\ s.day <= s.last
      /\ s.knows \in 0..Len(journal[s.request.portfolio])
      /\ s.asOf \in Int /\ s.asOf <= Cutoff(s.day, now, ReportZone)
      /\ s.existing # NoRow =>
           (/\ s.request.force
            /\ s.existing.knows \in Nat /\ s.existing.knows <= s.knows
            /\ s.existing.asOf \in Int /\ s.existing.asOf <= s.asOf)

SessionsOK ==
  /\ DOMAIN session = Workers
  /\ \A w \in Workers : session[w] = Idle \/ Passing(w) \/ Valuing(w)

CronOK ==
  /\ cron.at \in {"down", "asleep", "start", "loop", "request"}
  /\ cron.at \in {"loop", "request"} =>
       (/\ {"at", "todo"} \subseteq DOMAIN cron
        /\ cron.todo \in Nat \ {0} /\ cron.day \in FirstDay..LastDay)

Consistent == TablesOK /\ RowsOK /\ SessionsOK /\ CronOK

-----------------------------------------------------------------------------
(* The calendar *)

LEMMA DivisionBounds ==
  ASSUME NEW n \in Int, NEW k \in Nat \ {0}, NEW low \in Int, NEW high \in Int,
         low * k <= n, n <= (high + 1) * k - 1
  PROVE  n \div k \in low..high
<1> DEFINE q == n \div k
<1>1. q \in Int /\ q * k <= n /\ n < (q + 1) * k
  BY Z3
<1>2. low * k < (q + 1) * k
  BY <1>1
<1>3. q * k < (high + 1) * k
  BY <1>1
<1>4. \A a, b \in Int : a * k < b * k => a < b
  BY Z3
<1>5. low < q + 1 /\ q < high + 1
  BY <1>1, <1>2, <1>3, <1>4
<1> QED BY <1>1, <1>5

LEMMA ClockIsOfTheDays ==
  ASSUME NEW t \in Clock
  PROVE  t \in Int /\ Day(t, 0) \in FirstDay..LastDay /\ Today(t, ReportZone) \in Int /\ Today(t, ReportZone) <= LastDay
<1>1. DayLength \in Nat \ {0} /\ FirstDay \in Int /\ LastDay \in Int /\ ReportZone \in Int
  BY CalendarAssumption, SnapshotsAssumption
<1>2. t \in Int /\ FirstDay * DayLength <= t /\ t <= (LastDay + 1) * DayLength - 1
  BY <1>1 DEF Clock
<1>3. Day(t, 0) \in FirstDay..LastDay
  BY <1>1, <1>2, DivisionBounds DEF Day
<1>4. Today(t, ReportZone) <= LastDay
  BY DEF Clock
<1> QED BY <1>1, <1>2, <1>3, <1>4 DEF Today, Day

LEMMA CutoffGrows ==
  ASSUME NEW d \in Int, NEW t \in Int, NEW u \in Int, t <= u
  PROVE  /\ Cutoff(d, t, ReportZone) \in Int /\ Cutoff(d, u, ReportZone) \in Int
         /\ Cutoff(d, t, ReportZone) <= Cutoff(d, u, ReportZone)
<1>1. DayLength \in Nat /\ ReportZone \in Int
  BY CalendarAssumption, SnapshotsAssumption
<1>2. EndOfDay(d, ReportZone) \in Int
  BY <1>1 DEF EndOfDay
<1> QED BY <1>2 DEF Cutoff

-----------------------------------------------------------------------------
(* Steps *)

\* A session that a step leaves alone stays as it has to be: time only moves
\* cutoffs on, and posting only makes journals longer.
Onward ==
  /\ now' \in Int /\ now <= now'
  /\ \A p \in PortfolioSet : Len(journal'[p]) \in Nat /\ Len(journal[p]) <= Len(journal'[p])

LEMMA SessionKept ==
  ASSUME Consistent, Onward, NEW w \in Workers, session'[w] = session[w]
  PROVE  (session[w] = Idle \/ Passing(w) \/ Valuing(w))'
<1>1. CASE session[w] = Idle
  BY <1>1
<1>2. CASE Passing(w)
  BY <1>2 DEF Passing
<1>3. CASE Valuing(w)
  <2> DEFINE s == session[w]
  <2>1. s.request.portfolio \in PortfolioSet /\ s.day \in Int /\ now \in Int
    BY <1>3, ClockIsOfTheDays DEF Valuing, RequestSet, Consistent, TablesOK
  <2>2. Cutoff(s.day, now', ReportZone) \in Int /\ Cutoff(s.day, now, ReportZone) \in Int
        /\ Cutoff(s.day, now, ReportZone) <= Cutoff(s.day, now', ReportZone)
    BY <2>1, CutoffGrows DEF Onward
  <2>3. s.asOf <= Cutoff(s.day, now', ReportZone)
    BY <1>3, <2>2 DEF Valuing
  <2>4. s.knows \in 0..Len(journal'[s.request.portfolio])
    <3>1. Len(journal[s.request.portfolio]) \in Nat
      BY <2>1 DEF Consistent, TablesOK
    <3> QED BY <1>3, <2>1, <3>1 DEF Valuing, Onward
  <2> QED BY <1>3, <2>3, <2>4 DEF Valuing
<1> QED BY <1>1, <1>2, <1>3 DEF Consistent, SessionsOK

LEMMA RowsKept ==
  ASSUME Consistent, Onward, NEW p \in PortfolioSet, NEW d \in Days,
         snapshots'[p][d] = snapshots[p][d], Stored(p, d)
  PROVE  /\ snapshots'[p][d].knows \in 0..Len(journal'[p])
         /\ snapshots'[p][d].asOf \in Int
         /\ snapshots'[p][d].asOf <= Cutoff(d, now', ReportZone)
<1>1. d \in Int /\ now \in Int /\ Len(journal[p]) \in Nat
  BY ClockIsOfTheDays, SnapshotsAssumption DEF Days, Consistent, TablesOK
<1>2. Cutoff(d, now', ReportZone) \in Int /\ Cutoff(d, now, ReportZone) \in Int
      /\ Cutoff(d, now, ReportZone) <= Cutoff(d, now', ReportZone)
  BY <1>1, CutoffGrows DEF Onward
<1> QED BY <1>1, <1>2 DEF Consistent, RowsOK, Onward

\* Steps that leave the tables alone.
Unmoved == UNCHANGED <<now, portfolios, journal, snapshots, revision>>

LEMMA UnmovedIsOnward == ASSUME Consistent, Unmoved PROVE Onward
<1>1. now \in Int
  BY ClockIsOfTheDays DEF Consistent, TablesOK
<1> QED BY <1>1 DEF Consistent, TablesOK, Unmoved, Onward

LEMMA TablesUnmoved == ASSUME Consistent, Unmoved PROVE TablesOK' /\ RowsOK'
BY DEF Consistent, TablesOK, RowsOK, Unmoved, Stored

\* A session that begins a rebuild is at its first day.
LEMMA BeginStep ==
  ASSUME Consistent, NEW w \in Workers, NEW r \in RequestSet, Begin(w, r)
  PROVE  Passing(w)' /\ DOMAIN session' = Workers
         /\ \A v \in Workers \ {w} : session'[v] = session[v]
<1>1. Today(now, ReportZone) \in Int /\ Today(now, ReportZone) <= LastDay
  BY ClockIsOfTheDays DEF Consistent, TablesOK
<1>2. r.to \in Int /\ r.from \in Int
  BY SnapshotsAssumption DEF RequestSet, Days
<1>3. /\ Earlier(r.to, Today(now, ReportZone)) \in Int
      /\ Earlier(r.to, Today(now, ReportZone)) <= LastDay
  BY <1>1, <1>2, SnapshotsAssumption DEF Earlier
<1>4. session' = [session EXCEPT ![w] =
        [at |-> "next", request |-> r, day |-> r.from,
         last |-> Earlier(r.to, Today(now, ReportZone)), pricer |-> NewPricer]]
  BY DEF Begin
<1>5. DOMAIN session = Workers
  BY DEF Consistent, SessionsOK
<1> QED BY <1>2, <1>3, <1>4, <1>5 DEF Passing

LEMMA CronRequestType ==
  ASSUME Consistent, cron.at = "loop", cron.todo <= Len(Portfolios)
  PROVE  CronRequest(Portfolios[cron.todo]) \in RequestSet
<1>1. cron.todo \in DOMAIN Portfolios
  BY SnapshotsAssumption DEF Consistent, CronOK
<1>2. cron.day \in FirstDay..LastDay /\ cron.day - Lookback \in Days /\ cron.day \in Int
  BY SnapshotsAssumption DEF Consistent, CronOK, Days
<1> QED BY <1>1, <1>2 DEF CronRequest, RequestSet, PortfolioSet

\* The steps of the cron touch no table, and at most one session.
LEMMA CronStep ==
  ASSUME Consistent, CronSteps \/ CronDies \/ CronPostFails \/ CronTimesOut
  PROVE  Consistent'
<1> USE DEF environment
<1>1. CASE \E w \in Workers : CronPosts(w)
  <2>1. PICK w \in Workers : CronPosts(w)
    BY <1>1
  <2>2. Begin(w, CronRequest(Portfolios[cron.todo])) /\ Unmoved
        /\ cron' = [at |-> "request", todo |-> cron.todo, day |-> cron.day, server |-> w]
        /\ cron.at = "loop" /\ cron.todo <= Len(Portfolios)
    BY <2>1 DEF CronPosts, Unmoved
  <2>3. /\ Passing(w)' /\ DOMAIN session' = Workers
        /\ \A v \in Workers \ {w} : session'[v] = session[v]
    BY <2>2, CronRequestType, BeginStep
  <2>4. SessionsOK'
    BY <2>2, <2>3, UnmovedIsOnward, SessionKept DEF SessionsOK
  <2>5. CronOK'
    BY <2>2 DEF Consistent, CronOK
  <2> QED BY <2>2, <2>4, <2>5, TablesUnmoved DEF Consistent
<1>2. ASSUME Unmoved, session' = session, CronOK'
      PROVE  Consistent'
  <2>1. SessionsOK'
    BY <1>2, UnmovedIsOnward, SessionKept DEF SessionsOK, Consistent
  <2> QED BY <1>2, <2>1, TablesUnmoved DEF Consistent
<1>3. CASE CronAsks
  <2>1. Day(now, 0) \in FirstDay..LastDay
    BY ClockIsOfTheDays DEF Consistent, TablesOK
  <2> QED BY <1>2, <1>3, <2>1 DEF CronAsks, Unmoved, CronOK
<1>4. CASE CronRestarts \/ CronSleeps \/ CronWakes \/ CronDies
  BY <1>2, <1>4 DEF CronRestarts, CronSleeps, CronWakes, CronDies, Unmoved, CronOK
<1>5. CASE CronGoesOn \/ CronTimesOut
  <2>1. cron.todo \in Nat \ {0} /\ cron.day \in FirstDay..LastDay
    BY <1>5 DEF CronGoesOn, CronTimesOut, Consistent, CronOK
  <2> QED BY <1>2, <1>5, <2>1 DEF CronGoesOn, CronTimesOut, Unmoved, CronOK
<1>6. CASE CronIsRefused \/ CronPostFails
  <2>1. cron.at = "loop" /\ cron.todo \in Nat \ {0} /\ cron.day \in FirstDay..LastDay
    BY <1>6 DEF CronIsRefused, CronPostFails, Consistent, CronOK
  <2>2. cron' = [cron EXCEPT !.todo = @ + 1]
    BY <1>6 DEF CronIsRefused, CronPostFails
  <2>3. CronOK'
    BY <2>1, <2>2 DEF Consistent, CronOK
  <2> QED BY <1>2, <1>6, <2>3 DEF CronIsRefused, CronPostFails, Unmoved
<1> QED BY <1>1, <1>3, <1>4, <1>5, <1>6 DEF CronSteps

\* The steps of a session that store nothing.
LEMMA ReadingStep ==
  ASSUME Consistent, NEW w \in Workers,
         Finish(w) \/ FailDate(w) \/ Skip(w) \/ LookUp(w) \/ Collide(w)
  PROVE  Consistent'
<1> USE DEF environment
<1>1. Unmoved /\ cron' = cron
  BY DEF Finish, FailDate, Skip, LookUp, Collide, Unmoved
<1>2. DOMAIN session = Workers
  BY DEF Consistent, SessionsOK
<1>3. /\ DOMAIN session' = Workers
      /\ \A v \in Workers \ {w} : session'[v] = session[v]
  BY <1>2 DEF Finish, FailDate, Skip, LookUp, Collide
<1>4. (session[w] = Idle \/ Passing(w) \/ Valuing(w))'
  <2>1. CASE Finish(w) \/ Collide(w)
    BY <1>2, <2>1 DEF Finish, Collide
  <2>2. CASE FailDate(w) \/ Skip(w)
    <3>1. Passing(w)
      BY <2>2 DEF FailDate, Skip, Consistent, SessionsOK, Valuing, Idle
    <3>2. session' = [session EXCEPT ![w] = NextDate(session[w], session[w].pricer)]
      BY <2>2 DEF FailDate, Skip
    <3>3. session[w].request.from \in Int
      BY <3>1, SnapshotsAssumption DEF Passing, RequestSet, Days
    <3> QED BY <1>2, <3>1, <3>2, <3>3 DEF Passing, NextDate
  <2>3. CASE LookUp(w)
    <3> DEFINE s == session[w]
               p == s.request.portfolio
               cutoff == Cutoff(s.day, now, ReportZone)
    <3>1. Passing(w) /\ s.day <= s.last
      BY <2>3 DEF LookUp, Consistent, SessionsOK, Valuing, Idle
    <3>2. p \in PortfolioSet /\ s.day \in Days /\ s.day \in Int /\ now \in Int
      <4>1. p \in PortfolioSet /\ s.request.from \in Days
        BY <3>1 DEF Passing, RequestSet
      <4>2. now \in Int
        BY ClockIsOfTheDays DEF Consistent, TablesOK
      <4> QED BY <3>1, <4>1, <4>2, SnapshotsAssumption DEF Passing, Days
    <3>3. Len(journal[p]) \in Nat /\ cutoff \in Int
      <4>1. now <= now
        BY <3>2
      <4>2. cutoff \in Int
        BY <3>2, <4>1, CutoffGrows
      <4> QED BY <3>2, <4>2 DEF Consistent, TablesOK
    <3>4. session' = [session EXCEPT ![w] =
            [at |-> "value", request |-> s.request, last |-> s.last, day |-> s.day, pricer |-> s.pricer,
             existing |-> snapshots[p][s.day], asOf |-> cutoff, knows |-> Len(journal[p]),
             quantity |-> Holding(p, cutoff)]]
      BY <2>3 DEF LookUp, Existing
    <3>5. snapshots[p][s.day] # NoRow =>
            /\ s.request.force
            /\ snapshots[p][s.day].knows \in Nat /\ snapshots[p][s.day].knows <= Len(journal[p])
            /\ snapshots[p][s.day].asOf \in Int /\ snapshots[p][s.day].asOf <= cutoff
      <4>1. snapshots[p][s.day] # NoRow => s.request.force
        BY <2>3 DEF LookUp, Existing
      <4> QED BY <3>2, <3>3, <4>1 DEF Consistent, RowsOK, Stored
    <3> HIDE DEF cutoff
    <3>6. /\ session'[w].at = "value" /\ session'[w].request = s.request
          /\ session'[w].last = s.last /\ session'[w].day = s.day
          /\ session'[w].existing = snapshots[p][s.day] /\ session'[w].asOf = cutoff
          /\ session'[w].knows = Len(journal[p])
      BY <1>2, <3>4
    <3>7. journal' = journal /\ now' = now
      BY <1>1 DEF Unmoved
    <3> QED BY <3>1, <3>2, <3>3, <3>5, <3>6, <3>7 DEF Valuing, Passing, cutoff
  <2> QED BY <2>1, <2>2, <2>3
<1>5. SessionsOK'
  BY <1>1, <1>3, <1>4, UnmovedIsOnward, SessionKept DEF SessionsOK
<1>6. CronOK'
  BY <1>1 DEF Consistent, CronOK
<1> QED BY <1>1, <1>5, <1>6, TablesUnmoved DEF Consistent

\* What storing a snapshot does to the tables: one row is written, where there was
\* none or the one that was looked up.
Written(w) ==
  LET s == session[w]
      p == s.request.portfolio
      row == snapshots'[p][s.day]
  IN  /\ Valuing(w) /\ ~Gone(w)
      /\ p \in PortfolioSet /\ s.day \in Days
      /\ snapshots[p][s.day] \in {NoRow, s.existing}
      /\ row # NoRow /\ row.knows = s.knows /\ row.asOf = s.asOf
      /\ \A q \in PortfolioSet, d \in Days :
           (q # p \/ d # s.day) => snapshots'[q][d] = snapshots[q][d]
      /\ \A q \in PortfolioSet : DOMAIN snapshots'[q] = Days
      /\ DOMAIN snapshots' = PortfolioSet
      /\ DOMAIN session' = Workers
      /\ session'[w].at = "next" /\ session'[w].request = s.request
      /\ session'[w].last = s.last /\ session'[w].day = s.day + 1
      /\ \A v \in Workers \ {w} : session'[v] = session[v]

LEMMA StoreWrites ==
  ASSUME Consistent, NEW w \in Workers, NEW up \in BOOLEAN, StoreSnapshot(w, up)
  PROVE  Written(w)
<1> DEFINE s == session[w]
           p == s.request.portfolio
           pricer == Priced(s, up)
           row == NewRow(s, pricer)
<1>1. Valuing(w)
  BY DEF StoreSnapshot, Consistent, SessionsOK, Passing, Idle
<1>2. p \in PortfolioSet /\ s.day \in Days
  <2>1. p \in PortfolioSet /\ s.request.from \in Days
    BY <1>1 DEF Valuing, RequestSet
  <2> QED BY <1>1, <2>1, SnapshotsAssumption DEF Valuing, Days
<1>3. row.id = revision /\ row.knows = s.knows /\ row.asOf = s.asOf
  BY DEF NewRow
<1>4. row # NoRow
  BY <1>3 DEF NoRow, Consistent, TablesOK
<1>5. /\ snapshots' = [snapshots EXCEPT ![p][s.day] = row]
      /\ session' = [session EXCEPT ![w] = NextDate(s, pricer)]
      /\ ~Gone(w) /\ snapshots[p][s.day] \in {NoRow, s.existing}
  BY DEF StoreSnapshot
<1> HIDE DEF row, pricer
<1>6. /\ DOMAIN snapshots = PortfolioSet
      /\ \A q \in PortfolioSet : DOMAIN snapshots[q] = Days
      /\ DOMAIN session = Workers
  BY DEF Consistent, TablesOK, SessionsOK
<1>7. /\ snapshots'[p][s.day] = row
      /\ \A q \in PortfolioSet, d \in Days :
           (q # p \/ d # s.day) => snapshots'[q][d] = snapshots[q][d]
      /\ \A q \in PortfolioSet : DOMAIN snapshots'[q] = Days
      /\ DOMAIN snapshots' = PortfolioSet
  BY <1>2, <1>5, <1>6
<1>8. /\ session'[w] = NextDate(s, pricer)
      /\ DOMAIN session' = Workers
      /\ \A v \in Workers \ {w} : session'[v] = session[v]
  BY <1>5, <1>6
<1> QED BY <1>1, <1>2, <1>3, <1>4, <1>5, <1>7, <1>8 DEF Written, NextDate

LEMMA StoreStep ==
  ASSUME Consistent, NEW w \in Workers, NEW up \in BOOLEAN, StoreSnapshot(w, up)
  PROVE  Consistent'
<1> DEFINE s == session[w]
           p == s.request.portfolio
<1>1. Written(w)
  BY StoreWrites
<1>2. /\ UNCHANGED <<now, portfolios, journal, cron>>
      /\ revision' = revision + 1
  BY DEF StoreSnapshot, environment
<1>3. Onward
  BY <1>2, ClockIsOfTheDays DEF Onward, Consistent, TablesOK
<1>4. TablesOK'
  BY <1>1, <1>2 DEF Consistent, TablesOK, Written
<1>5. RowsOK'
  <2> SUFFICES ASSUME NEW q \in PortfolioSet, NEW d \in Days, snapshots'[q][d] # NoRow
               PROVE  /\ snapshots'[q][d].knows \in 0..Len(journal'[q])
                      /\ snapshots'[q][d].asOf \in Int
                      /\ snapshots'[q][d].asOf <= Cutoff(d, now', ReportZone)
    BY DEF RowsOK, Stored
  <2>1. CASE q = p /\ d = s.day
    BY <1>1, <1>2, <2>1 DEF Written, Valuing
  <2>2. CASE q # p \/ d # s.day
    <3>1. snapshots'[q][d] = snapshots[q][d]
      BY <1>1, <2>2 DEF Written
    <3> QED BY <1>3, <3>1, RowsKept DEF Stored
  <2> QED BY <2>1, <2>2
<1>6. SessionsOK'
  <2>1. Passing(w)'
    <3>1. s.request \in RequestSet /\ s.request.from \in Int /\ s.day \in Int
      BY <1>1, SnapshotsAssumption DEF Written, Valuing, RequestSet, Days
    <3> QED BY <1>1, <3>1 DEF Written, Passing, Valuing
  <2> QED BY <1>1, <1>3, <2>1, SessionKept DEF SessionsOK, Written
<1>7. CronOK'
  BY <1>2 DEF Consistent, CronOK
<1> QED BY <1>4, <1>5, <1>6, <1>7 DEF Consistent

\* Time, events and deletions.
LEMMA WorldStep ==
  ASSUME Consistent,
         \/ Tick \/ \E e \in Postings : PostEvent(e)
         \/ \E p \in PortfolioSet : DeletePortfolio(p)
         \/ \E d \in Days : PublishClose(d) \/ CorrectClose(d)
         \/ UNCHANGED vars
  PROVE  Consistent'
<1>1. now \in Int
  BY ClockIsOfTheDays DEF Consistent, TablesOK
<1>2. UNCHANGED <<session, cron, revision>>
  BY DEF Tick, PostEvent, DeletePortfolio, PublishClose, CorrectClose, vars
<1>3. ASSUME Onward, TablesOK',
             \A p \in PortfolioSet, d \in Days :
               snapshots'[p][d] = snapshots[p][d] \/ snapshots'[p][d] = NoRow
      PROVE  Consistent'
  <2>1. RowsOK'
    <3> SUFFICES ASSUME NEW q \in PortfolioSet, NEW d \in Days, snapshots'[q][d] # NoRow
                 PROVE  /\ snapshots'[q][d].knows \in 0..Len(journal'[q])
                        /\ snapshots'[q][d].asOf \in Int
                        /\ snapshots'[q][d].asOf <= Cutoff(d, now', ReportZone)
      BY DEF RowsOK, Stored
    <3>1. snapshots'[q][d] = snapshots[q][d]
      BY <1>3
    <3> QED BY <1>3, <3>1, RowsKept DEF Stored
  <2>2. SessionsOK'
    BY <1>2, <1>3, SessionKept DEF SessionsOK, Consistent
  <2>3. CronOK'
    BY <1>2 DEF Consistent, CronOK
  <2> QED BY <1>3, <2>1, <2>2, <2>3 DEF Consistent
<1>4. CASE Tick
  <2>1. now' = now + 1 /\ now' \in Clock /\ UNCHANGED <<portfolios, journal, snapshots>>
    BY <1>4 DEF Tick
  <2> QED BY <1>1, <1>2, <1>3, <2>1 DEF Onward, Consistent, TablesOK
<1>5. ASSUME NEW e \in Postings, PostEvent(e)
      PROVE  Consistent'
  <2> DEFINE event == [occurred |-> e.occurred, quantity |-> e.quantity]
  <2>1. e.portfolio \in PortfolioSet /\ event \in [occurred: Int, quantity: Int]
    BY SnapshotsAssumption DEF PostingSet
  <2>2. /\ UNCHANGED <<now, portfolios, snapshots>>
        /\ journal' = [journal EXCEPT ![e.portfolio] = Append(@, event)]
    BY <1>5 DEF PostEvent
  <2> HIDE DEF event
  <2>3. journal \in [PortfolioSet -> Seq([occurred: Int, quantity: Int])]
    BY DEF Consistent, TablesOK
  <2>4. /\ journal' \in [PortfolioSet -> Seq([occurred: Int, quantity: Int])]
        /\ \A p \in PortfolioSet : Len(journal'[p]) \in Nat /\ Len(journal[p]) <= Len(journal'[p])
    BY <2>1, <2>2, <2>3
  <2> QED BY <1>1, <1>2, <1>3, <2>2, <2>4 DEF Onward, Consistent, TablesOK
<1>6. ASSUME NEW p \in PortfolioSet, DeletePortfolio(p)
      PROVE  Consistent'
  <2>1. /\ UNCHANGED <<now, journal>> /\ portfolios' \subseteq PortfolioSet
        /\ snapshots' = [snapshots EXCEPT ![p] = [d \in Days |-> NoRow]]
    BY <1>6 DEF DeletePortfolio, Consistent, TablesOK
  <2>2. /\ DOMAIN snapshots' = PortfolioSet
        /\ \A q \in PortfolioSet : DOMAIN snapshots'[q] = Days
        /\ \A q \in PortfolioSet, d \in Days :
             snapshots'[q][d] = snapshots[q][d] \/ snapshots'[q][d] = NoRow
    BY <2>1 DEF Consistent, TablesOK
  <2> QED BY <1>1, <1>2, <1>3, <2>1, <2>2 DEF Onward, Consistent, TablesOK
<1>7. CASE (\E d \in Days : PublishClose(d) \/ CorrectClose(d)) \/ UNCHANGED vars
  <2>1. UNCHANGED <<now, portfolios, journal, snapshots>>
    BY <1>7 DEF PublishClose, CorrectClose, vars
  <2> QED BY <1>1, <1>2, <1>3, <2>1 DEF Onward, Consistent, TablesOK
<1> QED BY <1>4, <1>5, <1>6, <1>7

LEMMA ClientStep ==
  ASSUME Consistent, NEW w \in Workers, NEW r \in Requests, RequestRebuild(w, r)
  PROVE  Consistent'
<1>1. Begin(w, r) /\ Unmoved /\ cron' = cron
  BY DEF RequestRebuild, Unmoved, environment
<1>2. /\ Passing(w)' /\ DOMAIN session' = Workers
      /\ \A v \in Workers \ {w} : session'[v] = session[v]
  BY <1>1, BeginStep, SnapshotsAssumption
<1>3. SessionsOK'
  BY <1>1, <1>2, UnmovedIsOnward, SessionKept DEF SessionsOK
<1>4. CronOK'
  BY <1>1 DEF Consistent, CronOK
<1> QED BY <1>1, <1>3, <1>4, TablesUnmoved DEF Consistent

LEMMA ConsistentInit == Init => Consistent
<1> SUFFICES ASSUME Init PROVE Consistent
  OBVIOUS
<1>1. TablesOK
  BY SnapshotsAssumption DEF Init, TablesOK
<1>2. RowsOK /\ SessionsOK /\ CronOK
  BY DEF Init, RowsOK, Stored, SessionsOK, CronOK
<1> QED BY <1>1, <1>2 DEF Consistent

LEMMA ConsistentStep == Consistent /\ [Next]_vars => Consistent'
<1> SUFFICES ASSUME Consistent, [Next]_vars PROVE Consistent'
  OBVIOUS
<1>1. ASSUME NEW w \in Workers, Serve(w) PROVE Consistent'
  BY <1>1, ReadingStep, StoreStep DEF Serve
<1>2. ASSUME NEW r \in Requests, RefuseRebuild(r) PROVE Consistent'
  BY <1>2, WorldStep DEF RefuseRebuild
<1> QED BY <1>1, <1>2, WorldStep, ClientStep, CronStep DEF Next

\* The tables and the sessions stay consistent with each other, for any portfolios,
\* requests, events and number of workers.
THEOREM RebuildsAreConsistent == Spec => []Consistent
BY ConsistentInit, ConsistentStep, PTL DEF Spec

-----------------------------------------------------------------------------
(* Passed dates stay valued *)

LEMMA PassedInit == Init => PassedDatesAreValued
BY DEF Init, PassedDatesAreValued

\* A session and the rows it has passed, when neither they nor its portfolio change.
LEMMA PassedKept ==
  ASSUME PassedDatesAreValued, NEW w \in Workers, session'[w] = session[w], session[w] # Idle,
         portfolios' \subseteq portfolios, ~Gone(w)',
         \A d \in session[w].request.from .. session[w].day - 1 :
           snapshots[session[w].request.portfolio][d] # NoRow
             => snapshots'[session[w].request.portfolio][d] # NoRow
  PROVE  \A d \in session'[w].request.from .. session'[w].day - 1 :
           snapshots'[session'[w].request.portfolio][d] # NoRow
<1>1. ~Gone(w)
  BY DEF Gone
<1> QED BY <1>1 DEF PassedDatesAreValued

LEMMA PassedStep ==
  ASSUME Consistent, PassedDatesAreValued, [Next]_vars
  PROVE  PassedDatesAreValued'
<1> USE DEF environment
<1> DEFINE Passed(v) ==
      \A d \in session[v].request.from .. session[v].day - 1 :
        snapshots[session[v].request.portfolio][d] # NoRow
<1>1. ASSUME NEW v \in Workers, session'[v] = session[v], (session[v] # Idle /\ ~Gone(v))',
             UNCHANGED <<portfolios, snapshots>>
      PROVE  Passed(v)'
  BY <1>1, PassedKept
<1>2. ASSUME NEW v \in Workers, NEW w \in Workers, NEW r \in RequestSet, Begin(w, r),
             (session[v] # Idle /\ ~Gone(v))', UNCHANGED <<portfolios, snapshots>>
      PROVE  Passed(v)'
  <2>1. CASE v = w
    <3>1. session'[w].request.from = r.from /\ session'[w].day = r.from /\ r.from \in Int
      BY <1>2, SnapshotsAssumption DEF Begin, Consistent, SessionsOK, RequestSet, Days
    <3> QED BY <2>1, <3>1
  <2>2. CASE v # w
    <3>1. session'[v] = session[v]
      BY <1>2, <2>2, BeginStep
    <3> QED BY <1>1, <1>2, <3>1
  <2> QED BY <2>1, <2>2
<1>3. ASSUME NEW v \in Workers, (session[v] # Idle /\ ~Gone(v))', NEW w \in Workers, Serve(w)
      PROVE  Passed(v)'
  <2>1. DOMAIN session = Workers
    BY DEF Consistent, SessionsOK
  <2>2. CASE Finish(w) \/ Collide(w)
    <3>1. session'[v] = session[v] /\ UNCHANGED <<portfolios, snapshots>>
      BY <1>3, <2>1, <2>2 DEF Finish, Collide
    <3> QED BY <1>1, <1>3, <3>1
  <2>3. CASE LookUp(w)
    <3>1. /\ UNCHANGED <<portfolios, snapshots>>
          /\ session'[v].request = session[v].request /\ session'[v].day = session[v].day
          /\ session[v] # Idle
      BY <1>3, <2>1, <2>3 DEF LookUp, Idle
    <3>2. ~Gone(v)
      BY <1>3, <3>1 DEF Gone
    <3> QED BY <3>1, <3>2 DEF PassedDatesAreValued
  <2>4. CASE FailDate(w) \/ Skip(w)
    <3>1. UNCHANGED <<portfolios, snapshots>> /\ Passing(w)
          /\ session' = [session EXCEPT ![w] = NextDate(session[w], session[w].pricer)]
      BY <2>4 DEF FailDate, Skip, Consistent, SessionsOK, Valuing, Idle
    <3>2. CASE v # w
      BY <1>1, <1>3, <2>1, <3>1, <3>2
    <3>3. CASE v = w
      <4>1. /\ session'[w].request = session[w].request /\ session'[w].day = session[w].day + 1
            /\ session[w] # Idle
        BY <2>1, <3>1 DEF NextDate, Passing, Idle
      <4>2. ~Gone(w)
        BY <1>3, <3>1, <3>3, <4>1 DEF Gone
      <4>3. snapshots[session[w].request.portfolio][session[w].day] # NoRow
        BY <2>4, <4>2 DEF FailDate, Skip, Existing
      <4>4. session[w].day \in Int /\ session[w].request.from \in Int
        BY <3>1, SnapshotsAssumption DEF Passing, RequestSet, Days
      <4>5. Passed(w)
        BY <4>1, <4>2 DEF PassedDatesAreValued
      <4> HIDE DEF Passed
      <4>6. \A d \in session[w].request.from .. session[w].day :
              snapshots[session[w].request.portfolio][d] # NoRow
        BY <4>3, <4>4, <4>5 DEF Passed
      <4> QED BY <3>1, <3>3, <4>1, <4>4, <4>6 DEF Passed
    <3> QED BY <3>2, <3>3
  <2>5. ASSUME NEW up \in BOOLEAN, StoreSnapshot(w, up)
        PROVE  Passed(v)'
    <3>1. Written(w)
      BY <2>5, StoreWrites
    <3>2. portfolios' = portfolios
      BY <2>5 DEF StoreSnapshot
    <3>3. \A q \in PortfolioSet, d \in Days : Stored(q, d) => snapshots'[q][d] # NoRow
      BY <3>1 DEF Written, Stored
    <3>4. ASSUME NEW q \in PortfolioSet, NEW d \in Int, d \notin Days
          PROVE  snapshots'[q][d] = snapshots[q][d]
      <4>1. snapshots' = [snapshots EXCEPT ![session[w].request.portfolio][session[w].day] =
                            NewRow(session[w], Priced(session[w], up))]
        BY <2>5 DEF StoreSnapshot
      <4>2. session[w].request.portfolio \in PortfolioSet /\ session[w].day # d
            /\ DOMAIN snapshots = PortfolioSet
        BY <3>1, <3>4 DEF Written, Consistent, TablesOK
      <4> QED BY <4>1, <4>2
    <3>5. session[v] # Idle /\ session[v].request \in RequestSet
          /\ session'[v].request = session[v].request /\ ~Gone(v)
      <4>1. session[v] # Idle /\ session'[v].request = session[v].request
        BY <1>3, <3>1 DEF Written, Valuing, Idle
      <4>2. session[v].request \in RequestSet
        BY <4>1 DEF Consistent, SessionsOK, Passing, Valuing
      <4> QED BY <1>3, <3>2, <4>1, <4>2 DEF Gone
    <3>6. Passed(v)
      BY <3>5 DEF PassedDatesAreValued
    <3>7. session[v].request.portfolio \in PortfolioSet /\ session[v].request.from \in Int
      BY <3>5, SnapshotsAssumption DEF RequestSet, Days
    <3> DEFINE q == session[v].request.portfolio
    <3>8. \A d \in Int : snapshots[q][d] # NoRow => snapshots'[q][d] # NoRow
      BY <3>3, <3>4, <3>7 DEF Stored
    <3>9. CASE v # w
      <4>1. session'[v] = session[v]
        BY <3>1, <3>9 DEF Written
      <4>2. session[v].day \in Int
        BY <3>5 DEF Consistent, SessionsOK, Passing, Valuing
      <4> QED BY <3>6, <3>7, <3>8, <4>1, <4>2
    <3>10. CASE v = w
      <4>1. session'[v].day = session[v].day + 1 /\ session[v].day \in Int
        BY <3>1, <3>10 DEF Written, Valuing
      <4>2. snapshots'[q][session[v].day] # NoRow
        BY <3>1, <3>10 DEF Written
      <4>3. \A d \in session[v].request.from .. session[v].day - 1 : snapshots'[q][d] # NoRow
        BY <3>6, <3>7, <3>8, <4>1
      <4> HIDE DEF q
      <4>4. \A d \in session[v].request.from .. session'[v].day - 1 : snapshots'[q][d] # NoRow
        BY <3>7, <4>1, <4>2, <4>3
      <4> QED BY <3>5, <4>4 DEF q
    <3> QED BY <3>9, <3>10
  <2> QED BY <1>3, <2>2, <2>3, <2>4, <2>5 DEF Serve
<1>4. ASSUME NEW v \in Workers, (session[v] # Idle /\ ~Gone(v))',
             NEW p \in PortfolioSet, DeletePortfolio(p)
      PROVE  Passed(v)'
  <2>1. session' = session /\ portfolios' \subseteq portfolios
        /\ session[v].request.portfolio \in portfolios'
    BY <1>4 DEF DeletePortfolio, Gone
  <2>2. session[v].request.portfolio # p
        /\ snapshots'[session[v].request.portfolio] = snapshots[session[v].request.portfolio]
    BY <1>4, <2>1 DEF DeletePortfolio
  <2> QED BY <1>4, <2>1, <2>2, PassedKept
<1>5. ASSUME NEW v \in Workers, (session[v] # Idle /\ ~Gone(v))',
             NEW w \in Workers, CronPosts(w)
      PROVE  Passed(v)'
  <2>1. Begin(w, CronRequest(Portfolios[cron.todo])) /\ UNCHANGED <<portfolios, snapshots>>
        /\ CronRequest(Portfolios[cron.todo]) \in RequestSet
    BY <1>5, CronRequestType DEF CronPosts
  <2> QED BY <1>2, <1>5, <2>1
<1>6. ASSUME NEW v \in Workers, (session[v] # Idle /\ ~Gone(v))',
             NEW w \in Workers, NEW r \in Requests, RequestRebuild(w, r)
      PROVE  Passed(v)'
  <2>1. Begin(w, r) /\ UNCHANGED <<portfolios, snapshots>> /\ r \in RequestSet
    BY <1>6, SnapshotsAssumption DEF RequestRebuild
  <2> QED BY <1>2, <1>6, <2>1
<1>7. ASSUME NEW v \in Workers, (session[v] # Idle /\ ~Gone(v))',
             UNCHANGED <<portfolios, snapshots, session>>
      PROVE  Passed(v)'
  BY <1>1, <1>7
<1> SUFFICES ASSUME NEW v \in Workers, (session[v] # Idle /\ ~Gone(v))' PROVE Passed(v)'
  BY DEF PassedDatesAreValued
<1> HIDE DEF Passed
<1>8. CASE \/ Tick \/ \E e \in Postings : PostEvent(e)
           \/ \E d \in Days : PublishClose(d) \/ CorrectClose(d)
           \/ \E r \in Requests : RefuseRebuild(r)
           \/ UNCHANGED vars
  BY <1>7, <1>8 DEF Tick, PostEvent, PublishClose, CorrectClose, RefuseRebuild, vars
<1>9. CASE CronSteps \/ CronDies \/ CronPostFails \/ CronTimesOut
  BY <1>5, <1>7, <1>9 DEF CronSteps, CronDies, CronPostFails, CronTimesOut, CronAsks,
     CronRestarts, CronIsRefused, CronGoesOn, CronSleeps, CronWakes
<1> QED BY <1>3, <1>4, <1>6, <1>8, <1>9 DEF Next

\* The dates that a rebuild has passed stay valued while the portfolio exists,
\* however many rebuilds, forced or not, collide and whatever is posted or deleted.
THEOREM PassedDatesStayValued == Spec => []PassedDatesAreValued
BY PassedInit, PassedStep, RebuildsAreConsistent, PTL DEF Spec

-----------------------------------------------------------------------------
(* Revisions move forward *)

LEMMA RevisionStep ==
  ASSUME Consistent, [Next]_vars,
         NEW p \in PortfolioSet, NEW d \in Days, Replaced(<<p, d>>)
  PROVE  /\ \E w \in Workers : session[w] # Idle /\ session[w].request.force /\ session[w].day = d
         /\ RowOf(<<p, d>>)' # NoRow
         /\ RowOf(<<p, d>>)'.knows >= RowOf(<<p, d>>).knows
         /\ RowOf(<<p, d>>)'.asOf >= RowOf(<<p, d>>).asOf
<1>1. /\ snapshots[p][d] # NoRow /\ snapshots'[p][d] # snapshots[p][d] /\ p \in portfolios'
      /\ RowOf(<<p, d>>) = snapshots[p][d] /\ RowOf(<<p, d>>)' = snapshots'[p][d]
  BY DEF Replaced, Rows, RowOf
<1>2. ASSUME NEW q \in PortfolioSet, DeletePortfolio(q) PROVE FALSE
  <2>1. q # p
    BY <1>1, <1>2 DEF DeletePortfolio
  <2> QED BY <1>1, <1>2, <2>1 DEF DeletePortfolio
<1>3. PICK w \in Workers, up \in BOOLEAN : StoreSnapshot(w, up)
  <2>1. snapshots' # snapshots
    BY <1>1
  <2> QED BY <1>2, <2>1 DEF Next, vars, environment, Tick, PostEvent, PublishClose, CorrectClose,
        RefuseRebuild, RequestRebuild, Serve, Finish, FailDate, Skip, LookUp, Collide,
        CronSteps, CronDies, CronPostFails, CronTimesOut, CronAsks, CronPosts,
        CronRestarts, CronIsRefused, CronGoesOn, CronSleeps, CronWakes
<1>4. Written(w)
  BY <1>3, StoreWrites
<1>5. p = session[w].request.portfolio /\ d = session[w].day
  BY <1>1, <1>4 DEF Written
<1>6. snapshots[p][d] = session[w].existing /\ session[w].existing # NoRow
  BY <1>1, <1>4, <1>5 DEF Written
<1>7. Valuing(w) /\ session[w].at = "value" /\ session[w].request.force
      /\ session[w].existing.knows <= session[w].knows /\ session[w].existing.asOf <= session[w].asOf
      /\ session[w].existing.knows \in Int /\ session[w].existing.asOf \in Int
      /\ session[w].knows \in Int /\ session[w].asOf \in Int
  <2>1. Valuing(w)
    BY <1>4 DEF Written
  <2> QED BY <1>6, <2>1 DEF Valuing
<1>8. snapshots'[p][d] # NoRow /\ snapshots'[p][d].knows = session[w].knows
      /\ snapshots'[p][d].asOf = session[w].asOf
  BY <1>4, <1>5 DEF Written
<1>9. session[w] # Idle
  BY <1>7 DEF Idle
<1> QED BY <1>1, <1>5, <1>6, <1>7, <1>8, <1>9

\* A stored value is only ever replaced by a forced revision, and by one that knows
\* no fewer events and is as of no earlier instant, however rebuilds overlap.
THEOREM RevisionsOnlyMoveForward == Spec => RevisionsMoveForward
<1>1. Consistent /\ [Next]_vars =>
        [\A pd \in PortfolioSet \X Days : Replaced(pd) =>
           /\ \E w \in Workers : session[w] # Idle /\ session[w].request.force /\ session[w].day = pd[2]
           /\ RowOf(pd)' # NoRow
           /\ RowOf(pd)'.knows >= RowOf(pd).knows /\ RowOf(pd)'.asOf >= RowOf(pd).asOf]_vars
  <2> SUFFICES ASSUME Consistent, [Next]_vars, NEW pd \in PortfolioSet \X Days, Replaced(pd)
               PROVE  /\ \E w \in Workers : session[w] # Idle /\ session[w].request.force /\ session[w].day = pd[2]
                      /\ RowOf(pd)' # NoRow
                      /\ RowOf(pd)'.knows >= RowOf(pd).knows /\ RowOf(pd)'.asOf >= RowOf(pd).asOf
    OBVIOUS
  <2>1. PICK p \in PortfolioSet, d \in Days : pd = <<p, d>>
    OBVIOUS
  <2> QED BY <2>1, RevisionStep
<1> QED BY <1>1, RebuildsAreConsistent, PTL DEF Spec, RevisionsMoveForward

-----------------------------------------------------------------------------
(* Types *)

\* What is left of a bound after it is spent on.
LEMMA SpendKeeps ==
  ASSUME budget \in BudgetSet, NEW what \in {"events", "corrections", "deletions", "requests", "failures"}, Spend(what)
  PROVE  budget' \in BudgetSet
<1>1. /\ budget.events \in Nat /\ budget.corrections \in Nat /\ budget.deletions \in Nat
      /\ budget.requests \in Nat /\ budget.failures \in Nat
  BY DEF BudgetSet
<1>2. CASE what = "events"
  BY <1>1, <1>2 DEF Spend, BudgetSet
<1>3. CASE what = "corrections"
  BY <1>1, <1>3 DEF Spend, BudgetSet
<1>4. CASE what = "deletions"
  BY <1>1, <1>4 DEF Spend, BudgetSet
<1>5. CASE what = "requests"
  BY <1>1, <1>5 DEF Spend, BudgetSet
<1>6. CASE what = "failures"
  BY <1>1, <1>6 DEF Spend, BudgetSet
<1> QED
  BY <1>2, <1>3, <1>4, <1>5, <1>6

LEMMA ElementsAre ==
  ASSUME NEW S, NEW q \in Seq(S)
  PROVE  Len(q) \in Nat /\ \A i \in 1..Len(q) : q[i] \in S
OBVIOUS

\* A replay gives a number of shares.
LEMMA HoldingIsInt ==
  ASSUME NEW p, journal[p] \in Seq([occurred: Int, quantity: Int]), NEW cutoff
  PROVE  Holding(p, cutoff) \in Int
<1> DEFINE events == journal[p]
           last == Len(events)
           counts(i) == IF events[i].occurred <= cutoff THEN events[i].quantity ELSE 0
           Is(g, S) == g = [i \in S |-> IF i = 0 THEN 0 ELSE g[i - 1] + counts(i)]
<1>1. last \in Nat /\ \A i \in 1..last : counts(i) \in Int
  <2> HIDE DEF events
  <2>1. events \in Seq([occurred: Int, quantity: Int])
    BY DEF events
  <2>2. last \in Nat /\ \A i \in 1..last : events[i] \in [occurred: Int, quantity: Int]
    BY <2>1, ElementsAre
  <2> QED
    BY <2>2
<1>2. Holding(p, cutoff) = (CHOOSE g : Is(g, 0..last))[last]
  BY DEF Holding
<1> HIDE DEF counts, last
<1>3. \E g : Is(g, 0..last)
  <2> DEFINE Good == {n \in Nat : \E g : Is(g, 0..n)}
  <2>1. 0 \in Good
    <3>1. Is([i \in 0..0 |-> 0], 0..0)
      OBVIOUS
    <3> QED
      BY <3>1
  <2>2. ASSUME NEW n \in Nat, n \in Good PROVE n + 1 \in Good
    <3>1. PICK g : Is(g, 0..n)
      BY <2>2
    <3> DEFINE h == [i \in 0..n + 1 |-> IF i = n + 1 THEN g[n] + counts(n + 1) ELSE g[i]]
    <3>2. \A i \in 0..n : g[i] = IF i = 0 THEN 0 ELSE g[i - 1] + counts(i)
      BY <3>1
    <3>3. ASSUME NEW i \in 0..n + 1 PROVE h[i] = IF i = 0 THEN 0 ELSE h[i - 1] + counts(i)
      <4>1. CASE i = n + 1
        <5>1. i # 0 /\ i - 1 = n /\ n \in 0..n + 1 /\ n # n + 1
          BY <4>1
        <5>2. h[n] = g[n] /\ h[i] = g[n] + counts(n + 1)
          BY <4>1, <5>1
        <5> QED
          BY <4>1, <5>1, <5>2
      <4>2. CASE i # n + 1
        <5>1. i \in 0..n /\ (i # 0 => i - 1 \in 0..n + 1 /\ i - 1 # n + 1)
          BY <4>2
        <5>2. h[i] = g[i] /\ (i # 0 => h[i - 1] = g[i - 1])
          BY <4>2, <5>1
        <5> QED
          BY <3>2, <5>1, <5>2
      <4> QED
        BY <4>1, <4>2
    <3>4. Is(h, 0..n + 1)
      <4>1. h = [i \in 0..n + 1 |-> h[i]]
        OBVIOUS
      <4> HIDE DEF h
      <4> QED
        BY <3>3, <4>1
    <3>5. \E f : Is(f, 0..n + 1)
      <4> HIDE DEF h, Is
      <4> QED
        BY <3>4
    <3> QED
      BY <3>5
  <2> HIDE DEF Good
  <2>3. Nat \subseteq Good
    BY <2>1, <2>2, NaturalInduction
  <2> QED
    BY <1>1, <2>3 DEF Good
<1> DEFINE sum == CHOOSE g : Is(g, 0..last)
<1>4. Is(sum, 0..last)
  <2> HIDE DEF Is
  <2> QED
    BY <1>3
<1> HIDE DEF sum
<1>5. \A i \in 0..last : sum[i] = IF i = 0 THEN 0 ELSE sum[i - 1] + counts(i)
  BY <1>4
<1> DEFINE Good == {n \in Nat : n <= last => sum[n] \in Int}
<1>6. 0 \in Good
  BY <1>1, <1>5
<1>7. ASSUME NEW n \in Nat, n \in Good PROVE n + 1 \in Good
  <2> SUFFICES ASSUME n + 1 <= last PROVE sum[n + 1] \in Int
    OBVIOUS
  <2>1. n + 1 \in 1..last /\ n + 1 \in 0..last /\ (n + 1) - 1 = n /\ n + 1 # 0 /\ n <= last
    BY <1>1
  <2>2. sum[n + 1] = sum[n] + counts(n + 1)
    BY <1>5, <2>1
  <2>3. sum[n] \in Int
    BY <1>7, <2>1
  <2>4. counts(n + 1) \in Int
    BY <1>1, <2>1
  <2> QED
    BY <2>2, <2>3, <2>4
<1> HIDE DEF Good
<1>8. Nat \subseteq Good
  BY <1>6, <1>7, NaturalInduction
<1> QED
  BY <1>1, <1>2, <1>8 DEF Good, sum

\* What the pricer has after price_at.
LEMMA BarsAre ==
  ASSUME closes \in [Days -> Nat], NEW s, NEW date
  PROVE  Bars(s, date) \subseteq Int \X Nat
BY SnapshotsAssumption DEF Bars, Days

LEMMA PricedIs ==
  ASSUME closes \in [Days -> Nat], NEW s, s.pricer \in Pricer, NEW up \in BOOLEAN
  PROVE  Priced(s, up) \in Pricer
<1>1. \A bars \in SUBSET (Int \X Nat) : Loaded(bars) \in Pricer
  BY DEF Loaded, Pricer
<1>2. Bars(s, PriceDate(s)) \in SUBSET (Int \X Nat) /\ {} \in SUBSET (Int \X Nat)
  BY BarsAre
<1>3. (IF up THEN Bars(s, PriceDate(s)) ELSE {}) \in SUBSET (Int \X Nat)
  BY <1>2
<1>4. Loaded(IF up THEN Bars(s, PriceDate(s)) ELSE {}) \in Pricer
  BY <1>1, <1>3
<1> QED
  BY <1>4 DEF Priced

\* The newest of the usable bars.
LEMMA NewestBar ==
  ASSUME NEW bars \in SUBSET (Int \X Nat), bars # {}, NEW bound \in Int, \A bar \in bars : bar[1] <= bound
  PROVE  LET last == CHOOSE bar \in bars : \A other \in bars : other[1] <= bar[1]
         IN  last \in bars /\ \A other \in bars : other[1] <= last[1]
<1> DEFINE days == {bar[1] : bar \in bars}
<1>1. days \in SUBSET Int /\ days # {} /\ \A d \in days : d <= bound
  OBVIOUS
<1>2. Max(days) \in days /\ \A d \in days : d <= Max(days)
  <2> HIDE DEF days
  <2> QED
    BY <1>1, MaxIs
<1>3. PICK bar \in bars : bar[1] = Max(days)
  BY <1>2
<1>4. \A other \in bars : other[1] <= bar[1]
  BY <1>2, <1>3
<1> QED
  BY <1>4

LEMMA PriceDateIs ==
  ASSUME NEW s, s.day \in Int, s.asOf \in Int
  PROVE  /\ PriceDate(s) \in Int /\ PriceDate(s) <= s.day
         /\ PriceDate(s) <= CompletedPriceDate(s.asOf, Market)
         /\ PriceDate(s) = s.day \/ PriceDate(s) = CompletedPriceDate(s.asOf, Market)
<1>1. CompletedPriceDate(s.asOf, Market) \in Int
  BY CompletedClose
<1> QED
  BY <1>1 DEF PriceDate, Earlier

\* The row that is stored.
LEMMA NewRowIs ==
  ASSUME NEW s, s.day \in Int, s.asOf \in Int, s.knows \in Nat, s.quantity \in Int, revision \in Nat \ {0},
         NEW pricer \in Pricer
  PROVE  LET row == NewRow(s, pricer)
         IN  /\ row \in Row
             /\ row.asOf = s.asOf /\ row.quantity = s.quantity
             /\ row.priced = (s.quantity # 0 /\ Usable(s, pricer) # {})
             /\ row.priced => (/\ \E bar \in Usable(s, pricer) : bar[1] = row.close
                               /\ \A bar \in Usable(s, pricer) : bar[1] <= row.close)
<1> DEFINE bars == IF s.quantity = 0 THEN {} ELSE Usable(s, pricer)
           last == CHOOSE bar \in bars : \A other \in bars : other[1] <= bar[1]
           row == NewRow(s, pricer)
<1>1. /\ row = [id |-> revision, asOf |-> s.asOf, knows |-> s.knows, quantity |-> s.quantity,
                priced |-> bars # {}, close |-> IF bars = {} THEN 0 ELSE last[1],
                version |-> IF bars = {} THEN 0 ELSE last[2]]
  BY DEF NewRow
<1>2. bars \in SUBSET (Int \X Nat) /\ \A bar \in bars : bar[1] <= PriceDate(s)
  BY DEF Usable, Pricer
<1>3. PriceDate(s) \in Int
  BY PriceDateIs
<1>4. bars # {} => last \in bars /\ \A other \in bars : other[1] <= last[1]
  <2> HIDE DEF bars
  <2> QED
    BY <1>2, <1>3, NewestBar
<1>5. bars = IF s.quantity = 0 THEN {} ELSE Usable(s, pricer)
  OBVIOUS
<1> HIDE DEF bars, last, row
<1>6. bars # {} => last[1] \in Int /\ last[2] \in Nat
  BY <1>2, <1>4
<1>7. row \in Row
  BY <1>1, <1>6 DEF Row
<1>8. /\ row.asOf = s.asOf /\ row.quantity = s.quantity /\ row.priced = (bars # {})
      /\ row.close = IF bars = {} THEN 0 ELSE last[1]
  BY <1>1
<1>9. (bars # {}) = (s.quantity # 0 /\ Usable(s, pricer) # {})
  BY <1>5
<1> QED
  BY <1>4, <1>5, <1>7, <1>8, <1>9 DEF row

\* The sessions that Serve leaves alone, and what it leaves alone of the rest.
LEMMA SessionTyped ==
  ASSUME TypeOK, NEW w \in Workers, NEW s, session' = [session EXCEPT ![w] = s],
         s \in {Idle} \cup Rebuilds \cup Valuations
  PROVE  session' \in [Workers -> {Idle} \cup Rebuilds \cup Valuations]
<1> DEFINE States == {Idle} \cup Rebuilds \cup Valuations
<1>1. session \in [Workers -> States]
  BY DEF TypeOK
<1>2. s \in States
  OBVIOUS
<1> HIDE DEF States
<1>3. session' \in [Workers -> States]
  BY <1>1, <1>2
<1> QED
  BY <1>3 DEF States

LEMMA BeginTyped ==
  ASSUME Consistent, TypeOK, NEW w \in Workers, NEW r \in RequestSet, Begin(w, r)
  PROVE  session' \in [Workers -> {Idle} \cup Rebuilds \cup Valuations]
<1> DEFINE last == Earlier(r.to, Today(now, ReportZone))
           s == [at |-> "next", request |-> r, day |-> r.from, last |-> last, pricer |-> NewPricer]
<1>1. session' = [session EXCEPT ![w] = s]
  BY DEF Begin
<1>2. Today(now, ReportZone) \in Int /\ Today(now, ReportZone) <= LastDay /\ r.to \in Int /\ r.from \in Days
  BY ClockIsOfTheDays DEF Consistent, TablesOK, RequestSet
<1>3. last \in {d \in Int : d <= LastDay}
  BY <1>2, SnapshotsAssumption DEF Earlier
<1>4. NewPricer \in Pricer
  BY DEF NewPricer, Pricer
<1> HIDE DEF last
<1>5. s \in Rebuilds
  BY <1>2, <1>3, <1>4 DEF Rebuilds
<1> HIDE DEF s
<1> QED
  BY <1>1, <1>5, SessionTyped

\* On to the next date, from a session that is at one of its range.
LEMMA NextDateTyped ==
  ASSUME NEW s, NEW pricer \in Pricer, s.request \in RequestSet, s.last \in Int, s.last <= LastDay,
         s.day \in Int, s.day >= s.request.from, s.day <= s.last
  PROVE  NextDate(s, pricer) \in Rebuilds
<1>1. s.day + 1 \in Days \cup {LastDay + 1}
  <2>1. s.request.from \in Days
    BY DEF RequestSet
  <2> QED
    BY <2>1, SnapshotsAssumption DEF Days
<1> QED
  BY <1>1 DEF NextDate, Rebuilds

LEMMA SessionSets ==
  ASSUME TypeOK, NEW w \in Workers
  PROVE  /\ session[w].at = "next" => session[w] \in Rebuilds
         /\ session[w].at = "value" => session[w] \in Valuations
<1>1. session[w] \in {Idle} \cup Rebuilds \cup Valuations
  BY DEF TypeOK
<1> QED
  BY <1>1 DEF Idle, Rebuilds, Valuations

\* The steps of a rebuild.
LEMMA ServeTyped ==
  ASSUME Consistent, TypeOK, NEW w \in Workers, Serve(w)
  PROVE  TypeOK'
<1> USE DEF environment
<1> DEFINE s == session[w]
           p == s.request.portfolio
<1>1. CASE Finish(w) \/ Collide(w)
  <2>1. session' = [session EXCEPT ![w] = Idle] /\ UNCHANGED <<now, portfolios, journal, closes, snapshots, revision, cron, budget>>
    BY <1>1 DEF Finish, Collide
  <2>2. session' \in [Workers -> {Idle} \cup Rebuilds \cup Valuations]
    BY <2>1, SessionTyped
  <2> QED
    BY <2>1, <2>2 DEF TypeOK
<1>2. CASE FailDate(w) \/ Skip(w)
  <2>1. /\ session' = [session EXCEPT ![w] = NextDate(s, s.pricer)] /\ s.at = "next" /\ s.day <= s.last
        /\ UNCHANGED <<now, portfolios, journal, closes, snapshots, revision, cron, budget>>
    BY <1>2 DEF FailDate, Skip
  <2>2. Passing(w) /\ s.pricer \in Pricer
    BY <2>1, SessionSets DEF Consistent, SessionsOK, Valuing, Idle, Rebuilds
  <2>3. NextDate(s, s.pricer) \in Rebuilds
    BY <2>1, <2>2, NextDateTyped DEF Passing
  <2>4. session' \in [Workers -> {Idle} \cup Rebuilds \cup Valuations]
    BY <2>1, <2>3, SessionTyped
  <2> QED
    BY <2>1, <2>4 DEF TypeOK
<1>3. CASE LookUp(w)
  <2> DEFINE cutoff == Cutoff(s.day, now, ReportZone)
             next == [at |-> "value", request |-> s.request, last |-> s.last, day |-> s.day, pricer |-> s.pricer,
                      existing |-> snapshots[p][s.day], asOf |-> cutoff, knows |-> Len(journal[p]),
                      quantity |-> Holding(p, cutoff)]
  <2>1. /\ session' = [session EXCEPT ![w] = next] /\ s.at = "next" /\ s.day <= s.last
        /\ UNCHANGED <<now, portfolios, journal, closes, snapshots, revision, cron, budget>>
    BY <1>3 DEF LookUp, Existing
  <2>2. Passing(w) /\ s.pricer \in Pricer
    BY <2>1, SessionSets DEF Consistent, SessionsOK, Valuing, Idle, Rebuilds
  <2>3. p \in PortfolioSet /\ s.day \in Days /\ s.last \in Days /\ s.request \in RequestSet
    <3>1. p \in PortfolioSet /\ s.request.from \in Days
      BY <2>2 DEF Passing, RequestSet
    <3> QED
      BY <2>1, <2>2, <3>1, SnapshotsAssumption DEF Passing, Days
  <2>4. journal[p] \in Seq([occurred: Int, quantity: Int]) /\ snapshots[p][s.day] \in {NoRow} \cup Row
    BY <2>3 DEF TypeOK
  <2>5. Len(journal[p]) \in Nat
    BY <2>4
  <2>6. now \in Int /\ s.day \in Int
    BY <2>2, ClockIsOfTheDays DEF Passing, Consistent, TablesOK
  <2>7. cutoff \in Int
    <3>1. now <= now
      BY <2>6
    <3> QED
      BY <2>6, <3>1, CutoffGrows
  <2> HIDE DEF cutoff
  <2>8. Holding(p, cutoff) \in Int
    BY <2>4, HoldingIsInt
  <2>9. next \in Valuations
    <3> HIDE DEF s, p
    <3> QED
      BY <2>2, <2>3, <2>4, <2>5, <2>7, <2>8 DEF Valuations
  <2> HIDE DEF next
  <2>10. session' \in [Workers -> {Idle} \cup Rebuilds \cup Valuations]
    BY <2>1, <2>9, SessionTyped
  <2> QED
    BY <2>1, <2>10 DEF TypeOK
<1>4. ASSUME NEW up \in BOOLEAN, StoreSnapshot(w, up)
      PROVE  TypeOK'
  <2> DEFINE pricer == Priced(s, up)
             row == NewRow(s, pricer)
  <2>1. /\ snapshots' = [snapshots EXCEPT ![p][s.day] = row] /\ revision' = revision + 1
        /\ session' = [session EXCEPT ![w] = NextDate(s, pricer)] /\ s.at = "value"
        /\ UNCHANGED <<now, portfolios, journal, closes, cron>>
        /\ budget' = budget \/ Spend("failures")
    BY <1>4 DEF StoreSnapshot
  <2>2. Written(w)
    BY <1>4, StoreWrites
  <2>3. s \in Valuations
    BY <2>1, SessionSets
  <2>4. pricer \in Pricer
    BY <2>3, PricedIs DEF TypeOK, Valuations
  <2> HIDE DEF pricer
  <2>5. row \in Row
    <3>1. /\ s.day \in Int /\ s.asOf \in Int /\ s.knows \in Nat /\ s.quantity \in Int /\ revision \in Nat \ {0}
      BY <2>2, <2>3 DEF Written, Valuing, Valuations, TypeOK
    <3> QED
      BY <2>4, <3>1, NewRowIs
  <2> HIDE DEF row
  <2>6. NextDate(s, pricer) \in Rebuilds
    BY <2>2, <2>4, NextDateTyped DEF Written, Valuing
  <2>7. session' \in [Workers -> {Idle} \cup Rebuilds \cup Valuations]
    BY <2>1, <2>6, SessionTyped
  <2>8. snapshots' \in [PortfolioSet -> [Days -> {NoRow} \cup Row]]
    <3>1. p \in PortfolioSet /\ s.day \in Days
      BY <2>2 DEF Written
    <3>2. snapshots \in [PortfolioSet -> [Days -> {NoRow} \cup Row]]
      BY DEF TypeOK
    <3> QED
      BY <2>1, <2>5, <3>1, <3>2
  <2>9. budget' \in BudgetSet
    BY <2>1, SpendKeeps DEF TypeOK
  <2>10. revision' \in Nat \ {0}
    BY <2>1 DEF TypeOK
  <2> QED
    BY <2>1, <2>7, <2>8, <2>9, <2>10 DEF TypeOK
<1> QED
  BY <1>1, <1>2, <1>3, <1>4 DEF Serve

\* The steps of the cron.
LEMMA CronTyped ==
  ASSUME Consistent, TypeOK, CronSteps \/ CronDies \/ CronPostFails \/ CronTimesOut
  PROVE  TypeOK'
<1> USE DEF environment
<1>1. cron \in CronStates /\ budget \in BudgetSet
  BY DEF TypeOK
<1>2. ASSUME UNCHANGED <<now, portfolios, journal, closes, snapshots, revision, session>>,
             cron' \in CronStates, budget' \in BudgetSet
      PROVE  TypeOK'
  BY <1>2 DEF TypeOK
<1>3. Day(now, 0) \in Int /\ NextRun \in Int
  <2>1. Day(now, 0) \in Int
    BY ClockIsOfTheDays, SnapshotsAssumption DEF Consistent, TablesOK
  <2> QED
    BY <2>1, CalendarAssumption DEF NextRun
<1>4. CASE CronAsks
  <2>1. cron' \in CronStates /\ UNCHANGED <<now, portfolios, journal, closes, snapshots, revision, session, budget>>
    BY <1>3, <1>4 DEF CronAsks, CronStates
  <2> QED
    BY <1>1, <1>2, <2>1
<1>5. CASE CronSleeps
  <2>1. cron' \in CronStates /\ UNCHANGED <<now, portfolios, journal, closes, snapshots, revision, session, budget>>
    BY <1>3, <1>5 DEF CronSleeps, CronStates
  <2> QED
    BY <1>1, <1>2, <2>1
<1>6. CASE CronRestarts \/ CronWakes
  <2>1. cron' \in CronStates /\ UNCHANGED <<now, portfolios, journal, closes, snapshots, revision, session, budget>>
    BY <1>6 DEF CronRestarts, CronWakes, CronStates
  <2> QED
    BY <1>1, <1>2, <2>1
<1>7. CASE CronDies
  <2>1. cron' \in CronStates /\ UNCHANGED <<now, portfolios, journal, closes, snapshots, revision, session>>
        /\ Spend("failures")
    BY <1>7 DEF CronDies, CronStates
  <2> QED
    BY <1>1, <1>2, <2>1, SpendKeeps
<1>8. CASE CronGoesOn \/ CronTimesOut
  <2>1. cron.at = "request" /\ cron.todo \in Nat /\ cron.day \in Int
    BY <1>1, <1>8 DEF CronGoesOn, CronTimesOut, CronStates
  <2>2. cron' = [at |-> "loop", todo |-> cron.todo + 1, day |-> cron.day]
        /\ UNCHANGED <<now, portfolios, journal, closes, snapshots, revision, session>>
        /\ (budget' = budget \/ Spend("failures"))
    BY <1>8 DEF CronGoesOn, CronTimesOut
  <2>3. cron' \in CronStates
    BY <2>1, <2>2 DEF CronStates
  <2> QED
    BY <1>1, <1>2, <2>2, <2>3, SpendKeeps
<1>9. CASE CronIsRefused \/ CronPostFails
  <2>1. cron.at = "loop" /\ cron' = [cron EXCEPT !.todo = @ + 1]
        /\ UNCHANGED <<now, portfolios, journal, closes, snapshots, revision, session>>
        /\ (budget' = budget \/ Spend("failures"))
    BY <1>9 DEF CronIsRefused, CronPostFails
  <2>2. cron \in [at: {"loop"}, todo: Nat, day: Int]
    BY <1>1, <2>1 DEF CronStates
  <2>3. cron' \in [at: {"loop"}, todo: Nat, day: Int]
    BY <2>1, <2>2
  <2>4. cron' \in CronStates
    BY <2>3 DEF CronStates
  <2> QED
    BY <1>1, <1>2, <2>1, <2>4, SpendKeeps
<1>10. ASSUME NEW w \in Workers, CronPosts(w)
       PROVE  TypeOK'
  <2>1. /\ Begin(w, CronRequest(Portfolios[cron.todo])) /\ cron.at = "loop"
        /\ CronRequest(Portfolios[cron.todo]) \in RequestSet
        /\ cron' = [at |-> "request", todo |-> cron.todo, day |-> cron.day, server |-> w]
        /\ UNCHANGED <<now, portfolios, journal, closes, snapshots, revision, budget>>
    BY <1>10, CronRequestType DEF CronPosts
  <2>2. session' \in [Workers -> {Idle} \cup Rebuilds \cup Valuations]
    BY <2>1, BeginTyped
  <2>3. cron.todo \in Nat /\ cron.day \in Int
    BY <1>1, <2>1 DEF CronStates
  <2>4. cron' \in CronStates
    BY <2>1, <2>3 DEF CronStates
  <2> QED
    BY <2>1, <2>2, <2>4 DEF TypeOK
<1> QED
  BY <1>4, <1>5, <1>6, <1>7, <1>8, <1>9, <1>10 DEF CronSteps

\* Time, events, closes, deletions and requests of clients.
LEMMA WorldTyped ==
  ASSUME Consistent, TypeOK,
         \/ Tick \/ \E e \in Postings : PostEvent(e)
         \/ \E p \in PortfolioSet : DeletePortfolio(p)
         \/ \E d \in Days : PublishClose(d) \/ CorrectClose(d)
         \/ \E w \in Workers, r \in Requests : RequestRebuild(w, r)
         \/ \E r \in Requests : RefuseRebuild(r)
         \/ UNCHANGED vars
  PROVE  TypeOK'
<1> USE DEF environment
<1>1. budget \in BudgetSet /\ closes \in [Days -> Nat]
  BY DEF TypeOK
<1>2. CASE Tick
  BY <1>2 DEF Tick, TypeOK
<1>3. ASSUME NEW e \in Postings, PostEvent(e)
      PROVE  TypeOK'
  <2>1. Spend("events") /\ UNCHANGED <<now, portfolios, closes, snapshots, revision, session, cron>>
    BY <1>3 DEF PostEvent
  <2>2. journal' \in [PortfolioSet -> Seq([occurred: Int, quantity: Int])]
    <3> DEFINE event == [occurred |-> e.occurred, quantity |-> e.quantity]
    <3>1. e.portfolio \in PortfolioSet /\ event \in [occurred: Int, quantity: Int]
      BY SnapshotsAssumption DEF PostingSet
    <3>2. journal' = [journal EXCEPT ![e.portfolio] = Append(@, event)]
      BY <1>3 DEF PostEvent
    <3> HIDE DEF event
    <3> QED
      BY <3>1, <3>2 DEF TypeOK
  <2>3. budget' \in BudgetSet
    BY <1>1, <2>1, SpendKeeps
  <2> QED
    BY <2>1, <2>2, <2>3 DEF TypeOK
<1>4. ASSUME NEW p \in PortfolioSet, DeletePortfolio(p)
      PROVE  TypeOK'
  <2>1. /\ Spend("deletions") /\ UNCHANGED <<now, journal, closes, revision, session, cron>>
        /\ portfolios' = portfolios \ {p} /\ snapshots' = [snapshots EXCEPT ![p] = [d \in Days |-> NoRow]]
    BY <1>4 DEF DeletePortfolio
  <2>2. snapshots' \in [PortfolioSet -> [Days -> {NoRow} \cup Row]]
    BY <2>1 DEF TypeOK
  <2>3. budget' \in BudgetSet
    BY <1>1, <2>1, SpendKeeps
  <2> QED
    BY <2>1, <2>2, <2>3 DEF TypeOK
<1>5. ASSUME NEW d \in Days, PublishClose(d) \/ CorrectClose(d)
      PROVE  TypeOK'
  <2>1. /\ UNCHANGED <<now, portfolios, journal, snapshots, revision, session, cron>>
        /\ budget' = budget \/ Spend("corrections")
        /\ closes' = [closes EXCEPT ![d] = 1] \/ closes' = [closes EXCEPT ![d] = @ + 1]
    BY <1>5 DEF PublishClose, CorrectClose
  <2>2. closes' \in [Days -> Nat]
    BY <1>1, <2>1
  <2>3. budget' \in BudgetSet
    BY <1>1, <2>1, SpendKeeps
  <2> QED
    BY <2>1, <2>2, <2>3 DEF TypeOK
<1>6. ASSUME NEW w \in Workers, NEW r \in Requests, RequestRebuild(w, r)
      PROVE  TypeOK'
  <2>1. Spend("requests") /\ Begin(w, r) /\ UNCHANGED <<now, portfolios, journal, closes, snapshots, revision, cron>>
    BY <1>6 DEF RequestRebuild
  <2>2. session' \in [Workers -> {Idle} \cup Rebuilds \cup Valuations]
    BY <2>1, BeginTyped, SnapshotsAssumption
  <2>3. budget' \in BudgetSet
    BY <1>1, <2>1, SpendKeeps
  <2> QED
    BY <2>1, <2>2, <2>3 DEF TypeOK
<1>7. CASE UNCHANGED vars
  BY <1>7 DEF vars, TypeOK
<1> QED
  BY <1>2, <1>3, <1>4, <1>5, <1>6, <1>7 DEF RefuseRebuild

LEMMA TypesInit == Init => TypeOK
<1> SUFFICES ASSUME Init PROVE TypeOK
  OBVIOUS
<1>1. snapshots \in [PortfolioSet -> [Days -> {NoRow} \cup Row]]
  BY DEF Init
<1>2. journal \in [PortfolioSet -> Seq([occurred: Int, quantity: Int])]
  BY DEF Init
<1> QED
  BY <1>1, <1>2, SnapshotsAssumption DEF Init, TypeOK, CronStates

LEMMA TypesStep == ASSUME Consistent, TypeOK, [Next]_vars PROVE TypeOK'
BY ServeTyped, CronTyped, WorldTyped DEF Next

\* portfolio_snapshots holds a row of a portfolio and a day once; sessions, pricers
\* and the cron are what they should be.
THEOREM SnapshotTypesCorrect == Spec => []TypeOK
BY TypesInit, TypesStep, RebuildsAreConsistent, PTL DEF Spec

-----------------------------------------------------------------------------
(* Prices *)

\* A close is of a day of trading.
TradingDay(d) == Market \in DOMAIN MARKET_SESSIONS => ~IsWeekend(d)

\* The instant up to which a session may know a close: the cutoff of its date, or
\* of the date before while it has not looked at the new one.
KnownUntil(s) == IF s.at = "value" THEN s.asOf ELSE Cutoff(s.day - 1, now, ReportZone)

\* What a pricer remembers was known on an earlier date of the rebuild already.
Remembers(s) ==
  /\ s.pricer.failed => s.pricer.bars = {}
  /\ \A bar \in s.pricer.bars : bar[1] < s.day /\ Over(Market, bar[1], KnownUntil(s))

ClosesOK == \A d \in Days : closes[d] > 0 => TradingDay(d)
PricersOK == \A w \in Workers : session[w] # Idle => Remembers(session[w])
PricesOK ==
  \A p \in PortfolioSet, d \in Days :
    (Stored(p, d) /\ snapshots[p][d].priced) =>
       snapshots[p][d].close <= d /\ Over(Market, snapshots[p][d].close, snapshots[p][d].asOf)

PriceInv == ClosesOK /\ PricersOK /\ PricesOK

\* What is over stays over, and so are the days of trading before it.
LEMMA OverLater ==
  ASSUME NEW d \in Int, NEW t \in Int, NEW u \in Int, t <= u, Over(Market, d, t)
  PROVE  Over(Market, d, u)
<1>1. CASE Market \in DOMAIN MARKET_SESSIONS
  <2>1. MARKET_SESSIONS[Market].zone \in Int /\ MARKET_SESSIONS[Market].closes \in Int /\ DayLength \in Nat
    BY <1>1, SessionIs, CalendarAssumption
  <2> QED
    BY <1>1, <2>1 DEF Over
<1>2. CASE Market \notin DOMAIN MARKET_SESSIONS
  <2>1. (d + 1) * DayLength \in Int
    BY CalendarAssumption
  <2> QED
    BY <1>2, <2>1 DEF Over
<1> QED
  BY <1>1, <1>2

LEMMA OverEarlier ==
  ASSUME NEW d \in Int, NEW e \in Int, NEW t \in Int, d <= e, TradingDay(d), Over(Market, e, t)
  PROVE  Over(Market, d, t)
<1>1. DayLength \in Nat
  BY CalendarAssumption
<1>2. d * DayLength <= e * DayLength /\ (d + 1) * DayLength <= (e + 1) * DayLength
      /\ d * DayLength \in Int /\ e * DayLength \in Int /\ (d + 1) * DayLength \in Int /\ (e + 1) * DayLength \in Int
  BY <1>1
<1>3. CASE Market \in DOMAIN MARKET_SESSIONS
  <2>1. MARKET_SESSIONS[Market].zone \in Int /\ MARKET_SESSIONS[Market].closes \in Int
    BY <1>3, SessionIs, CalendarAssumption
  <2> QED
    BY <1>2, <1>3, <2>1 DEF Over, TradingDay
<1>4. CASE Market \notin DOMAIN MARKET_SESSIONS
  BY <1>2, <1>4 DEF Over
<1> QED
  BY <1>3, <1>4

\* A session knows more as its dates pass.
LEMMA CutoffOfLaterDay ==
  ASSUME NEW d \in Int, NEW t \in Int
  PROVE  Cutoff(d - 1, t, ReportZone) \in Int /\ Cutoff(d, t, ReportZone) \in Int
         /\ Cutoff(d - 1, t, ReportZone) <= Cutoff(d, t, ReportZone)
<1>1. DayLength \in Nat /\ ReportZone \in Int
  BY CalendarAssumption, SnapshotsAssumption
<1>2. /\ d * DayLength \in Int /\ (d + 1) * DayLength \in Int /\ d * DayLength <= (d + 1) * DayLength
      /\ (d - 1) + 1 = d
  BY <1>1
<1>3. EndOfDay(d - 1, ReportZone) = d * DayLength - ReportZone - 1
  BY <1>2 DEF EndOfDay
<1>4. EndOfDay(d, ReportZone) = (d + 1) * DayLength - ReportZone - 1
  BY DEF EndOfDay
<1>5. /\ EndOfDay(d - 1, ReportZone) \in Int /\ EndOfDay(d, ReportZone) \in Int
      /\ EndOfDay(d - 1, ReportZone) <= EndOfDay(d, ReportZone)
  BY <1>1, <1>2, <1>3, <1>4
<1> QED
  BY <1>5 DEF Cutoff

\* What price_at leaves a pricer with: closes the cutoff admits, and among those
\* that may be used the newest the provider has, unless asking for it failed.
LEMMA PricedWell ==
  ASSUME closes \in [Days -> Nat], ClosesOK, NEW s \in Valuations, Remembers(s), NEW up \in BOOLEAN,
         s.quantity # 0
  PROVE  LET pricer == Priced(s, up)
         IN  /\ pricer.failed => pricer.bars = {}
             /\ \A bar \in pricer.bars : bar[1] <= s.day /\ Over(Market, bar[1], s.asOf)
             /\ Usable(s, pricer) = {} => pricer.failed
             /\ Usable(s, pricer) # {} =>
                  \A d \in Days : (closes[d] > 0 /\ d <= s.day /\ Over(Market, d, s.asOf)) =>
                    \E bar \in Usable(s, pricer) : d <= bar[1]
<1> DEFINE pricer == Priced(s, up)
           date == PriceDate(s)
           completed == CompletedPriceDate(s.asOf, Market)
<1>1. /\ s.at = "value" /\ s.day \in Int /\ s.asOf \in Int /\ s.pricer \in Pricer
      /\ s.last \in Int /\ s.request.from \in Int
  BY SnapshotsAssumption DEF Valuations, RequestSet, Days
<1>2. /\ completed \in Int /\ Over(Market, completed, s.asOf)
      /\ \A later \in Int : later > completed => ~Over(Market, later, s.asOf)
  BY <1>1, CompletedClose
<1>3. date \in Int /\ date <= s.day /\ date <= completed /\ (date = s.day \/ date = completed)
  BY <1>1, PriceDateIs
<1>4. \A d \in Days : d \in Int /\ closes[d] \in Nat
  BY SnapshotsAssumption DEF Days
<1>5. \A d \in Int : (d <= s.day /\ Over(Market, d, s.asOf)) => d <= date
  BY <1>1, <1>2, <1>3
<1> HIDE DEF date, completed
<1>6. CASE Reloads(s.pricer, date)
  <2> DEFINE bars == IF up THEN Bars(s, date) ELSE {}
  <2>1. pricer = Loaded(bars)
    BY <1>6 DEF Priced, date
  <2>2. pricer.failed = (bars = {}) /\ pricer.bars = bars
    BY <2>1 DEF Loaded
  <2> HIDE DEF pricer
  <2>3. CASE up
    <3>1. bars = {<<d, closes[d]>> : d \in {d \in Days : closes[d] > 0 /\ d <= date /\ d >= date - LookbackDays(s)}}
      BY <2>3 DEF Bars
    <3>2. LookbackDays(s) \in Int
      BY <1>1 DEF LookbackDays
    <3> HIDE DEF bars
    <3>3. ASSUME NEW bar \in bars
          PROVE  /\ bar[1] \in Days /\ bar[1] \in Int /\ closes[bar[1]] > 0 /\ bar[1] <= date
                 /\ bar[1] >= date - LookbackDays(s)
      BY <1>4, <3>1
    <3>4. ASSUME NEW bar \in bars PROVE bar[1] <= s.day /\ Over(Market, bar[1], s.asOf)
      <4>1. TradingDay(bar[1])
        BY <3>3 DEF ClosesOK
      <4>2. bar[1] <= completed /\ bar[1] <= s.day
        BY <1>1, <1>2, <1>3, <3>3
      <4> QED
        BY <1>1, <1>2, <3>3, <4>1, <4>2, OverEarlier
    <3>5. Usable(s, pricer) = bars
      BY <2>2, <3>3 DEF Usable, date
    <3>6. ASSUME bars # {}, NEW d \in Days, closes[d] > 0, d <= s.day, Over(Market, d, s.asOf)
          PROVE  \E bar \in bars : d <= bar[1]
      <4>1. d \in Int /\ d <= date
        BY <1>4, <1>5, <3>6
      <4>2. CASE d >= date - LookbackDays(s)
        <5>1. <<d, closes[d]>> \in bars /\ <<d, closes[d]>>[1] = d
          BY <3>1, <3>6, <4>1, <4>2
        <5> QED
          BY <4>1, <5>1
      <4>3. CASE d < date - LookbackDays(s)
        <5>1. PICK bar \in bars : TRUE
          BY <3>6
        <5>2. d <= bar[1]
          BY <1>3, <3>2, <3>3, <4>1, <4>3
        <5> QED
          BY <5>2
      <4> QED
        BY <1>3, <3>2, <4>1, <4>2, <4>3
    <3> QED
      BY <2>2, <3>4, <3>5, <3>6 DEF pricer
  <2>4. CASE ~up
    <3>1. bars = {}
      BY <2>4
    <3>2. Usable(s, pricer) = {}
      BY <2>2, <3>1 DEF Usable
    <3> QED
      BY <2>2, <3>1, <3>2 DEF pricer
  <2> QED
    BY <2>3, <2>4
<1>7. CASE ~Reloads(s.pricer, date)
  <2>1. pricer = s.pricer
    BY <1>7 DEF Priced, date
  <2>2. s.pricer.bars \subseteq Int \X Nat /\ s.pricer.failed \in BOOLEAN
    BY <1>1 DEF Pricer
  <2>3. ASSUME NEW bar \in s.pricer.bars
        PROVE  bar[1] \in Int /\ bar[1] <= s.day /\ Over(Market, bar[1], s.asOf) /\ bar[1] <= date
    <3>1. bar[1] \in Int /\ bar[1] < s.day /\ Over(Market, bar[1], s.asOf)
      BY <1>1, <2>2 DEF Remembers, KnownUntil
    <3> QED
      BY <1>1, <1>5, <3>1
  <2> HIDE DEF pricer
  <2>4. CASE s.pricer.failed
    <3>1. s.pricer.bars = {}
      BY <2>4 DEF Remembers
    <3>2. Usable(s, pricer) = {}
      BY <2>1, <3>1 DEF Usable
    <3> QED
      BY <2>1, <2>4, <3>1, <3>2 DEF pricer
  <2>5. CASE ~s.pricer.failed
    <3>1. PICK bar \in s.pricer.bars : ~(bar[1] < date)
      BY <1>7, <2>5 DEF Reloads
    <3>2. bar \in Usable(s, pricer) /\ bar[1] = date
      BY <1>3, <2>1, <2>3, <3>1 DEF Usable, date
    <3>3. ASSUME NEW d \in Days, closes[d] > 0, d <= s.day, Over(Market, d, s.asOf)
          PROVE  \E other \in Usable(s, pricer) : d <= other[1]
      <4>1. d <= date
        BY <1>4, <1>5, <3>3
      <4> QED
        BY <3>2, <4>1
    <3> QED
      BY <2>1, <2>3, <2>5, <3>2, <3>3 DEF pricer
  <2> QED
    BY <2>4, <2>5
<1> QED
  BY <1>6, <1>7

LEMMA PriceInvInit == Init => PriceInv
BY DEF Init, PriceInv, ClosesOK, PricersOK, PricesOK, Stored

\* A session that a step leaves alone.
LEMMA RemembersKept ==
  ASSUME Consistent, TypeOK, PricersOK, now' \in Int, now <= now',
         NEW w \in Workers, session'[w] = session[w], session[w] # Idle
  PROVE  Remembers(session[w])'
<1> DEFINE s == session[w]
<1>1. Remembers(s)
  BY DEF PricersOK
<1>2. s.pricer \in Pricer /\ s.day \in Int
  <2>1. s \in Rebuilds \/ s \in Valuations
    BY DEF TypeOK
  <2> QED
    BY <2>1, SnapshotsAssumption DEF Rebuilds, Valuations, Days
<1>3. now \in Int
  BY ClockIsOfTheDays DEF Consistent, TablesOK
<1>4. \A bar \in s.pricer.bars : bar[1] \in Int
  BY <1>2 DEF Pricer
<1>5. s.at = "value" => s.asOf \in Int
  BY SessionSets DEF Valuations
<1>6. s.day - 1 \in Int
  BY <1>2
<1>7. /\ Cutoff(s.day - 1, now, ReportZone) \in Int /\ Cutoff(s.day - 1, now', ReportZone) \in Int
      /\ Cutoff(s.day - 1, now, ReportZone) <= Cutoff(s.day - 1, now', ReportZone)
  BY <1>3, <1>6, CutoffGrows
<1>8. ASSUME NEW bar \in s.pricer.bars
      PROVE  bar[1] < s.day /\ Over(Market, bar[1], IF s.at = "value" THEN s.asOf ELSE Cutoff(s.day - 1, now', ReportZone))
  <2>1. bar[1] < s.day /\ Over(Market, bar[1], IF s.at = "value" THEN s.asOf ELSE Cutoff(s.day - 1, now, ReportZone))
    BY <1>1 DEF Remembers, KnownUntil
  <2>2. CASE s.at = "value"
    BY <2>1, <2>2
  <2>3. CASE s.at # "value"
    BY <1>4, <1>7, <2>1, <2>3, OverLater
  <2> QED
    BY <2>2, <2>3
<1>9. PICK u : u = session'[w] /\ u = s
  OBVIOUS
<1>10. Remembers(u)'
  BY <1>1, <1>8, <1>9 DEF Remembers, KnownUntil
<1> QED
  BY <1>9, <1>10 DEF Remembers, KnownUntil

LEMMA PricersKept ==
  ASSUME Consistent, TypeOK, PricersOK, now' \in Int, now <= now',
         \E w \in Workers : (\A v \in Workers \ {w} : session'[v] = session[v]) /\ (session'[w] # Idle => Remembers(session[w])')
  PROVE  PricersOK'
<1>1. PICK w \in Workers : (\A v \in Workers \ {w} : session'[v] = session[v]) /\ (session'[w] # Idle => Remembers(session[w])')
  OBVIOUS
<1>2. ASSUME NEW v \in Workers, session'[v] # Idle PROVE Remembers(session[v])'
  <2>1. CASE v = w
    BY <1>1, <1>2, <2>1
  <2>2. CASE v # w
    BY <1>1, <1>2, <2>2, RemembersKept
  <2> QED
    BY <2>1, <2>2
<1> QED
  BY <1>2 DEF PricersOK

\* The tables of prices, when nothing is stored.
LEMMA PricesKept ==
  ASSUME PricesOK, \A p \in PortfolioSet, d \in Days : snapshots'[p][d] \in {NoRow, snapshots[p][d]}
  PROVE  PricesOK'
BY DEF PricesOK, Stored

LEMMA NowIs == ASSUME Consistent PROVE now \in Int
BY ClockIsOfTheDays DEF Consistent, TablesOK

\* The steps of a rebuild.
LEMMA ServePrices ==
  ASSUME Consistent, TypeOK, PriceInv, NEW w \in Workers, Serve(w)
  PROVE  PriceInv'
<1> USE DEF environment
<1> DEFINE s == session[w]
           p == s.request.portfolio
<1>1. now \in Int /\ session \in [Workers -> {Idle} \cup Rebuilds \cup Valuations]
  BY NowIs DEF TypeOK
<1>2. now' = now /\ closes' = closes
  BY DEF Serve, Finish, FailDate, Skip, LookUp, Collide, StoreSnapshot
<1>3. ClosesOK'
  BY <1>2 DEF PriceInv, ClosesOK, TradingDay
<1>4. ASSUME NEW next, session' = [session EXCEPT ![w] = next], next # Idle => Remembers(next)'
      PROVE  PricersOK'
  <2>1. (\A v \in Workers \ {w} : session'[v] = session[v]) /\ session'[w] = next
    BY <1>1, <1>4
  <2>2. session'[w] # Idle => Remembers(session[w])'
    BY <1>4, <2>1 DEF Remembers, KnownUntil
  <2>3. now' \in Int /\ now <= now'
    BY <1>1, <1>2
  <2> QED
    BY <2>1, <2>2, <2>3, PricersKept DEF PriceInv
<1>5. CASE Finish(w) \/ Collide(w)
  <2>1. session' = [session EXCEPT ![w] = Idle] /\ snapshots' = snapshots
    BY <1>5 DEF Finish, Collide
  <2>2. PricersOK'
    BY <1>4, <2>1
  <2> QED
    BY <1>3, <2>1, <2>2, PricesKept DEF PriceInv
<1>6. CASE FailDate(w) \/ Skip(w)
  <2> DEFINE next == NextDate(s, s.pricer)
  <2>1. session' = [session EXCEPT ![w] = next] /\ s.at = "next" /\ snapshots' = snapshots /\ s # Idle
    BY <1>6 DEF FailDate, Skip, Idle
  <2>2. s \in Rebuilds /\ Remembers(s)
    BY <2>1, SessionSets DEF PriceInv, PricersOK
  <2>3. s.day \in Int /\ s.pricer \in Pricer
    BY <2>2, SnapshotsAssumption DEF Rebuilds, Days
  <2>4. /\ next.at = "next" /\ next.pricer = s.pricer /\ next.day = s.day + 1
    BY DEF NextDate
  <2> HIDE DEF next
  <2>5. ASSUME NEW bar \in s.pricer.bars
        PROVE  bar[1] < s.day + 1 /\ Over(Market, bar[1], Cutoff(s.day, now, ReportZone))
    <3>1. bar[1] \in Int /\ bar[1] < s.day /\ Over(Market, bar[1], Cutoff(s.day - 1, now, ReportZone))
      BY <2>1, <2>2, <2>3 DEF Remembers, KnownUntil, Pricer
    <3>2. /\ Cutoff(s.day - 1, now, ReportZone) \in Int /\ Cutoff(s.day, now, ReportZone) \in Int
          /\ Cutoff(s.day - 1, now, ReportZone) <= Cutoff(s.day, now, ReportZone)
      BY <1>1, <2>3, CutoffOfLaterDay
    <3> QED
      BY <2>3, <3>1, <3>2, OverLater
  <2>6. next.day - 1 = s.day
    BY <2>3, <2>4
  <2>7. PICK u : u = next
    OBVIOUS
  <2>8. Remembers(u)'
    BY <1>2, <2>2, <2>4, <2>5, <2>6, <2>7 DEF Remembers, KnownUntil
  <2>9. PricersOK'
    BY <1>4, <2>1, <2>7, <2>8
  <2> QED
    BY <1>3, <2>1, <2>9, PricesKept DEF PriceInv
<1>7. CASE LookUp(w)
  <2> DEFINE cutoff == Cutoff(s.day, now, ReportZone)
             next == [at |-> "value", request |-> s.request, last |-> s.last, day |-> s.day, pricer |-> s.pricer,
                      existing |-> snapshots[p][s.day], asOf |-> cutoff, knows |-> Len(journal[p]),
                      quantity |-> Holding(p, cutoff)]
  <2>1. session' = [session EXCEPT ![w] = next] /\ s.at = "next" /\ snapshots' = snapshots /\ s # Idle
    BY <1>7 DEF LookUp, Existing, Idle
  <2>2. s \in Rebuilds /\ Remembers(s)
    BY <2>1, SessionSets DEF PriceInv, PricersOK
  <2>3. s.day \in Int /\ s.pricer \in Pricer
    BY <2>2, SnapshotsAssumption DEF Rebuilds, Days
  <2>4. next.at = "value" /\ next.pricer = s.pricer /\ next.day = s.day /\ next.asOf = cutoff
    OBVIOUS
  <2> HIDE DEF next
  <2>5. ASSUME NEW bar \in s.pricer.bars
        PROVE  bar[1] < s.day /\ Over(Market, bar[1], cutoff)
    <3>1. bar[1] \in Int /\ bar[1] < s.day /\ Over(Market, bar[1], Cutoff(s.day - 1, now, ReportZone))
      BY <2>1, <2>2, <2>3 DEF Remembers, KnownUntil, Pricer
    <3>2. /\ Cutoff(s.day - 1, now, ReportZone) \in Int /\ Cutoff(s.day, now, ReportZone) \in Int
          /\ Cutoff(s.day - 1, now, ReportZone) <= Cutoff(s.day, now, ReportZone)
      BY <1>1, <2>3, CutoffOfLaterDay
    <3> QED
      BY <2>3, <3>1, <3>2, OverLater
  <2> HIDE DEF cutoff
  <2>6. PICK u : u = next
    OBVIOUS
  <2>7. Remembers(u)'
    BY <1>2, <2>2, <2>4, <2>5, <2>6 DEF Remembers, KnownUntil
  <2>8. PricersOK'
    BY <1>4, <2>1, <2>6, <2>7
  <2> QED
    BY <1>3, <2>1, <2>8, PricesKept DEF PriceInv
<1>8. ASSUME NEW up \in BOOLEAN, StoreSnapshot(w, up)
      PROVE  PriceInv'
  <2> DEFINE pricer == Priced(s, up)
             row == NewRow(s, pricer)
             next == NextDate(s, pricer)
  <2>1. /\ snapshots' = [snapshots EXCEPT ![p][s.day] = row]
        /\ session' = [session EXCEPT ![w] = next] /\ s.at = "value" /\ s # Idle
    BY <1>8 DEF StoreSnapshot, Idle
  <2>2. Written(w)
    BY <1>8, StoreWrites
  <2>3. s \in Valuations /\ Remembers(s)
    BY <2>1, SessionSets DEF PriceInv, PricersOK
  <2>4. /\ s.day \in Int /\ s.asOf \in Int /\ s.knows \in Nat /\ s.quantity \in Int /\ s.pricer \in Pricer
        /\ revision \in Nat \ {0} /\ closes \in [Days -> Nat] /\ ClosesOK
    BY <2>3, SnapshotsAssumption DEF Valuations, Days, TypeOK, PriceInv
  <2>5. pricer \in Pricer
    BY <2>4, PricedIs
  <2>6. /\ pricer.failed => pricer.bars = {}
        /\ \A bar \in pricer.bars : bar[1] <= s.day /\ Over(Market, bar[1], s.asOf)
    <3>1. CASE s.quantity # 0
      BY <2>3, <2>4, <3>1, PricedWell
    <3>2. CASE s.quantity = 0
      <4>1. pricer = s.pricer
        BY <3>2 DEF Priced
      <4>2. \A bar \in s.pricer.bars : bar[1] \in Int
        BY <2>4 DEF Pricer
      <4> QED
        BY <2>1, <2>3, <2>4, <4>1, <4>2 DEF Remembers, KnownUntil
    <3> QED
      BY <3>1, <3>2
  <2>7. next.at = "next" /\ next.pricer = pricer /\ next.day = s.day + 1 /\ next.day - 1 = s.day
    BY <2>4 DEF NextDate
  <2> HIDE DEF next, pricer
  <2>8. ASSUME NEW bar \in pricer.bars
        PROVE  bar[1] < s.day + 1 /\ Over(Market, bar[1], Cutoff(s.day, now, ReportZone))
    <3>1. bar[1] \in Int /\ bar[1] <= s.day /\ Over(Market, bar[1], s.asOf)
      BY <2>5, <2>6 DEF Pricer
    <3>2. s.asOf <= Cutoff(s.day, now, ReportZone)
      BY <2>2 DEF Written, Valuing
    <3>3. Cutoff(s.day, now, ReportZone) \in Int
      BY <1>1, <2>4, CutoffOfLaterDay
    <3> QED
      BY <2>4, <3>1, <3>2, <3>3, OverLater
  <2>9. PICK u : u = next
    OBVIOUS
  <2>10. Remembers(u)'
    BY <1>2, <2>6, <2>7, <2>8, <2>9 DEF Remembers, KnownUntil
  <2>11. PricersOK'
    BY <1>4, <2>1, <2>9, <2>10
  <2>12. row.priced => row.close <= s.day /\ Over(Market, row.close, row.asOf)
    <3>1. /\ row.asOf = s.asOf
          /\ row.priced => \E bar \in Usable(s, pricer) : bar[1] = row.close
      BY <2>4, <2>5, NewRowIs
    <3> HIDE DEF row
    <3>2. Usable(s, pricer) \subseteq pricer.bars
      BY DEF Usable
    <3> QED
      BY <2>6, <3>1, <3>2
  <2> HIDE DEF row
  <2>13. PricesOK'
    <3>1. ASSUME NEW q \in PortfolioSet, NEW d \in Days, snapshots'[q][d] # NoRow, snapshots'[q][d].priced
          PROVE  snapshots'[q][d].close <= d /\ Over(Market, snapshots'[q][d].close, snapshots'[q][d].asOf)
      <4>1. CASE q = p /\ d = s.day
        <5>1. snapshots'[q][d] = row
          BY <2>1, <2>2, <4>1 DEF Written, Consistent, TablesOK
        <5> QED
          BY <2>12, <3>1, <4>1, <5>1
      <4>2. CASE q # p \/ d # s.day
        <5>1. snapshots'[q][d] = snapshots[q][d]
          BY <2>2, <4>2 DEF Written
        <5> QED
          BY <3>1, <5>1 DEF PriceInv, PricesOK, Stored
      <4> QED
        BY <4>1, <4>2
    <3> QED
      BY <3>1 DEF PricesOK, Stored
  <2> QED
    BY <1>3, <2>11, <2>13 DEF PriceInv
<1> QED
  BY <1>5, <1>6, <1>7, <1>8 DEF Serve

\* A rebuild begins with a pricer that remembers nothing.
LEMMA BeginPrices ==
  ASSUME Consistent, TypeOK, PriceInv, NEW w \in Workers, NEW r, Begin(w, r),
         UNCHANGED <<now, closes, snapshots>>
  PROVE  PriceInv'
<1> DEFINE next == [at |-> "next", request |-> r, day |-> r.from,
                    last |-> Earlier(r.to, Today(now, ReportZone)), pricer |-> NewPricer]
<1>1. session' = [session EXCEPT ![w] = next] /\ session \in [Workers -> {Idle} \cup Rebuilds \cup Valuations]
  BY DEF Begin, TypeOK
<1>2. next.pricer.failed = FALSE /\ next.pricer.bars = {}
  BY DEF NewPricer
<1> HIDE DEF next
<1>3. (\A v \in Workers \ {w} : session'[v] = session[v]) /\ session'[w] = next
  BY <1>1
<1>4. Remembers(session[w])'
  BY <1>2, <1>3 DEF Remembers
<1>5. now' \in Int /\ now <= now'
  BY NowIs
<1>6. PricersOK'
  BY <1>3, <1>4, <1>5, PricersKept DEF PriceInv
<1>7. ClosesOK'
  BY DEF PriceInv, ClosesOK, TradingDay
<1> QED
  BY <1>6, <1>7, PricesKept DEF PriceInv

\* Everything else leaves the sessions alone.
LEMMA WorldPrices ==
  ASSUME Consistent, TypeOK, PriceInv, session' = session, now' \in Int, now <= now', ClosesOK',
         \A p \in PortfolioSet, d \in Days : snapshots'[p][d] \in {NoRow, snapshots[p][d]}
  PROVE  PriceInv'
<1>1. \A w \in Workers : session'[w] # Idle => Remembers(session[w])'
  BY RemembersKept DEF PriceInv
<1> QED
  BY <1>1, PricesKept DEF PriceInv, PricersOK

LEMMA ClosesStep ==
  ASSUME TypeOK, ClosesOK, NEW d \in Days, PublishClose(d) \/ CorrectClose(d)
  PROVE  ClosesOK'
<1>1. closes \in [Days -> Nat]
  BY DEF TypeOK
<1>2. TradingDay(d)
  <2>1. CASE PublishClose(d)
    BY <2>1 DEF PublishClose, Trades, IsMarketOpen, TradingDay
  <2>2. CASE CorrectClose(d)
    BY <2>2 DEF CorrectClose, ClosesOK
  <2> QED
    BY <2>1, <2>2
<1>3. \A e \in Days \ {d} : closes'[e] = closes[e]
  BY <1>1 DEF PublishClose, CorrectClose
<1> QED
  BY <1>2, <1>3 DEF ClosesOK, TradingDay

LEMMA PriceInvStep ==
  ASSUME Consistent, TypeOK, PriceInv, [Next]_vars
  PROVE  PriceInv'
<1> USE DEF environment
<1>1. now \in Int /\ now <= now
  BY NowIs
<1>2. ClosesOK
  BY DEF PriceInv
<1>3. ASSUME UNCHANGED <<now, closes, snapshots, session>> PROVE PriceInv'
  <2>1. ClosesOK'
    BY <1>2, <1>3 DEF ClosesOK, TradingDay
  <2> QED
    BY <1>1, <1>3, <2>1, WorldPrices
<1>4. CASE Tick
  <2>1. now' = now + 1 /\ UNCHANGED <<closes, snapshots, session>>
    BY <1>4 DEF Tick
  <2>2. ClosesOK'
    BY <1>2, <2>1 DEF ClosesOK, TradingDay
  <2> QED
    BY <1>1, <2>1, <2>2, WorldPrices
<1>5. ASSUME NEW p \in PortfolioSet, DeletePortfolio(p) PROVE PriceInv'
  <2>1. UNCHANGED <<now, closes, session>> /\ snapshots' = [snapshots EXCEPT ![p] = [d \in Days |-> NoRow]]
    BY <1>5 DEF DeletePortfolio
  <2>2. ClosesOK'
    BY <1>2, <2>1 DEF ClosesOK, TradingDay
  <2>3. \A q \in PortfolioSet, d \in Days : snapshots'[q][d] \in {NoRow, snapshots[q][d]}
    BY <2>1 DEF Consistent, TablesOK
  <2> QED
    BY <1>1, <2>1, <2>2, <2>3, WorldPrices
<1>6. ASSUME NEW d \in Days, PublishClose(d) \/ CorrectClose(d) PROVE PriceInv'
  <2>1. UNCHANGED <<now, snapshots, session>> /\ ClosesOK'
    BY <1>2, <1>6, ClosesStep DEF PublishClose, CorrectClose
  <2> QED
    BY <1>1, <2>1, WorldPrices
<1>7. CASE \E e \in Postings : PostEvent(e)
  BY <1>3, <1>7 DEF PostEvent
<1>8. ASSUME NEW w \in Workers, NEW r \in Requests, RequestRebuild(w, r) PROVE PriceInv'
  BY <1>8, BeginPrices DEF RequestRebuild
<1>9. ASSUME NEW r \in Requests, RefuseRebuild(r) PROVE PriceInv'
  BY <1>3, <1>9 DEF RefuseRebuild, vars
<1>10. CASE UNCHANGED vars
  BY <1>3, <1>10 DEF vars
<1>11. ASSUME NEW w \in Workers, CronPosts(w) PROVE PriceInv'
  BY <1>11, BeginPrices DEF CronPosts
<1>12. CASE CronSteps \/ CronDies \/ CronPostFails \/ CronTimesOut
  BY <1>3, <1>11, <1>12 DEF CronSteps, CronDies, CronPostFails, CronTimesOut, CronAsks,
     CronRestarts, CronIsRefused, CronGoesOn, CronSleeps, CronWakes
<1> QED
  BY <1>4, <1>5, <1>6, <1>7, <1>8, <1>9, <1>10, <1>12, ServePrices DEF Next

-----------------------------------------------------------------------------
(* What a snapshot uses *)

\* Every close a row or a pricer holds was final at its cutoff, for any calendar,
\* market and overlap of rebuilds.
THEOREM PricesAreFinal == Spec => [](TypeOK /\ PriceInv)
<1>1. Consistent /\ TypeOK /\ PriceInv /\ [Next]_vars => (TypeOK /\ PriceInv)'
  BY TypesStep, PriceInvStep
<1> QED
  BY <1>1, TypesInit, PriceInvInit, RebuildsAreConsistent, PTL DEF Spec

\* A snapshot uses what was known at its own instant, and no close that was not
\* final by then.
THEOREM NothingIsForeseen == Spec => []NoLookAhead
<1>1. Consistent /\ TypeOK /\ PriceInv => NoLookAhead
  <2> SUFFICES ASSUME Consistent, TypeOK, PriceInv, NEW p \in PortfolioSet, NEW d \in Days, snapshots[p][d] # NoRow
               PROVE  /\ snapshots[p][d].asOf <= now /\ snapshots[p][d].asOf <= EndOfDay(d, ReportZone)
                      /\ snapshots[p][d].priced =>
                           (snapshots[p][d].close <= d /\ Over(Market, snapshots[p][d].close, snapshots[p][d].asOf))
    BY DEF NoLookAhead, Rows, RowOf
  <2>1. snapshots[p][d].asOf \in Int /\ snapshots[p][d].asOf <= Cutoff(d, now, ReportZone)
    BY DEF Consistent, RowsOK, Stored
  <2>2. now \in Int /\ EndOfDay(d, ReportZone) \in Int
    <3>1. DayLength \in Nat /\ ReportZone \in Int /\ d \in Int
      BY CalendarAssumption, SnapshotsAssumption DEF Days
    <3> QED
      BY <3>1, NowIs DEF EndOfDay
  <2>3. snapshots[p][d].asOf <= now /\ snapshots[p][d].asOf <= EndOfDay(d, ReportZone)
    BY <2>1, <2>2 DEF Cutoff
  <2> QED
    BY <2>3 DEF PriceInv, PricesOK, Stored
<1> QED
  BY <1>1, PricesAreFinal, RebuildsAreConsistent, PTL

\* A row that is stored uses the newest close the provider had and the cutoff
\* admits, or the pricer of its rebuild failed.
LEMMA FreshStep ==
  ASSUME Consistent, TypeOK, PriceInv, [Next]_vars, NEW p \in PortfolioSet, NEW d \in Days,
         snapshots'[p][d] # snapshots[p][d], snapshots'[p][d] # NoRow
  PROVE  IF snapshots'[p][d].priced
         THEN \A e \in Days : (closes[e] > 0 /\ e <= d /\ Over(Market, e, snapshots'[p][d].asOf))
                => e <= snapshots'[p][d].close
         ELSE snapshots'[p][d].quantity # 0 => \E w \in Workers : session'[w] # Idle /\ session'[w].pricer.failed
<1>1. ASSUME NEW q \in PortfolioSet, DeletePortfolio(q) PROVE FALSE
  <2>1. snapshots' = [snapshots EXCEPT ![q] = [e \in Days |-> NoRow]]
    BY <1>1 DEF DeletePortfolio
  <2>2. DOMAIN snapshots = PortfolioSet
    BY DEF Consistent, TablesOK
  <2> QED
    BY <2>1, <2>2
<1>2. PICK w \in Workers, up \in BOOLEAN : StoreSnapshot(w, up)
  <2>1. snapshots' # snapshots
    OBVIOUS
  <2> QED
    BY <1>1, <2>1 DEF Next, vars, environment, Tick, PostEvent, PublishClose, CorrectClose,
       RefuseRebuild, RequestRebuild, Serve, Finish, FailDate, Skip, LookUp, Collide,
       CronSteps, CronDies, CronPostFails, CronTimesOut, CronAsks, CronPosts,
       CronRestarts, CronIsRefused, CronGoesOn, CronSleeps, CronWakes
<1> DEFINE s == session[w]
           pricer == Priced(s, up)
           row == NewRow(s, pricer)
<1>3. Written(w)
  BY <1>2, StoreWrites
<1>4. p = s.request.portfolio /\ d = s.day
  BY <1>3 DEF Written
<1>5. /\ snapshots' = [snapshots EXCEPT ![s.request.portfolio][s.day] = row]
      /\ session' = [session EXCEPT ![w] = NextDate(s, pricer)] /\ s.at = "value" /\ s # Idle
  BY <1>2 DEF StoreSnapshot, Idle
<1>6. s \in Valuations /\ Remembers(s)
  BY <1>5, SessionSets DEF PriceInv, PricersOK
<1>7. /\ s.day \in Int /\ s.asOf \in Int /\ s.knows \in Nat /\ s.quantity \in Int /\ s.pricer \in Pricer
      /\ revision \in Nat \ {0} /\ closes \in [Days -> Nat] /\ ClosesOK
  BY <1>6, SnapshotsAssumption DEF Valuations, Days, TypeOK, PriceInv
<1>8. pricer \in Pricer
  BY <1>7, PricedIs
<1>9. s.quantity # 0 =>
        /\ Usable(s, pricer) = {} => pricer.failed
        /\ Usable(s, pricer) # {} =>
             \A e \in Days : (closes[e] > 0 /\ e <= s.day /\ Over(Market, e, s.asOf)) =>
               \E bar \in Usable(s, pricer) : e <= bar[1]
  BY <1>6, <1>7, PricedWell
<1> HIDE DEF pricer
<1>10. /\ row \in Row /\ row.asOf = s.asOf /\ row.quantity = s.quantity
       /\ row.priced = (s.quantity # 0 /\ Usable(s, pricer) # {})
       /\ row.priced => \A bar \in Usable(s, pricer) : bar[1] <= row.close
  BY <1>7, <1>8, NewRowIs
<1> HIDE DEF row
<1>11. snapshots'[p][d] = row
  BY <1>4, <1>5 DEF Consistent, TablesOK
<1>12. session'[w] # Idle /\ session'[w].pricer = pricer
  <2>1. session'[w] = NextDate(s, pricer)
    BY <1>5 DEF Consistent, SessionsOK
  <2> QED
    BY <2>1 DEF NextDate, Idle
<1>13. ASSUME row.priced, NEW e \in Days, closes[e] > 0, e <= d, Over(Market, e, row.asOf) PROVE e <= row.close
  <2>1. PICK bar \in Usable(s, pricer) : e <= bar[1]
    BY <1>4, <1>9, <1>10, <1>13
  <2>2. bar[1] <= row.close /\ bar[1] \in Int /\ row.close \in Int /\ e \in Int
    BY <1>8, <1>10, <1>13, SnapshotsAssumption DEF Usable, Pricer, Row, Days
  <2> QED
    BY <2>1, <2>2
<1>14. ASSUME ~row.priced, row.quantity # 0 PROVE pricer.failed
  BY <1>9, <1>10, <1>14
<1> QED
  BY <1>11, <1>12, <1>13, <1>14

\* No newer close that the provider has and the cutoff admits is passed over, however
\* the pricer of a rebuild came by what it remembers.
THEOREM FreshestCloseIsAlwaysUsed == Spec => FreshestCloseIsUsed
<1>1. Consistent /\ (TypeOK /\ PriceInv) /\ [Next]_vars =>
        [\A pd \in PortfolioSet \X Days :
           (RowOf(pd)' # RowOf(pd) /\ RowOf(pd)' # NoRow) =>
             LET row == RowOf(pd)'
             IN  IF row.priced
                 THEN \A d \in Days : (closes[d] > 0 /\ d <= pd[2] /\ Over(Market, d, row.asOf)) => d <= row.close
                 ELSE row.quantity # 0 => \E w \in Workers : session'[w] # Idle /\ session'[w].pricer.failed]_vars
  <2> SUFFICES ASSUME Consistent, TypeOK, PriceInv, [Next]_vars, NEW pd \in PortfolioSet \X Days,
                      RowOf(pd)' # RowOf(pd), RowOf(pd)' # NoRow
               PROVE  IF RowOf(pd)'.priced
                      THEN \A d \in Days : (closes[d] > 0 /\ d <= pd[2] /\ Over(Market, d, RowOf(pd)'.asOf))
                             => d <= RowOf(pd)'.close
                      ELSE RowOf(pd)'.quantity # 0 =>
                             \E w \in Workers : session'[w] # Idle /\ session'[w].pricer.failed
    OBVIOUS
  <2>1. PICK p \in PortfolioSet, d \in Days : pd = <<p, d>>
    OBVIOUS
  <2>2. RowOf(pd) = snapshots[p][d] /\ RowOf(pd)' = snapshots'[p][d] /\ pd[2] = d
    BY <2>1 DEF RowOf
  <2> QED
    BY <2>2, FreshStep
<1> QED
  BY <1>1, PricesAreFinal, RebuildsAreConsistent, PTL DEF Spec, FreshestCloseIsUsed
=============================================================================
