---------------------------- MODULE HistoryCache ----------------------------
(***************************************************************************)
(* CachingMarketProvider: the daily bars of one ticker, kept in Redis by   *)
(* the month, and the requests that read, fetch and store them.            *)
(*                                                                         *)
(* A bar is its day and the instant of the last trade it has seen; that a  *)
(* split restates all bars is left out, the age of a bucket stands for it. *)
(***************************************************************************)
EXTENDS Integers, FiniteSetsExt

CONSTANTS
  DayTicks,       \* ticks of a day
  MonthDays,      \* days of a month
  Months,         \* the months the clock passes through, from 0
  RecentTtl, LongTtl,  \* history_recent_ttl_seconds, history_cache_ttl_seconds
  FillTicks,      \* the longest a request takes
  Ranges,         \* the ranges clients ask for
  Clients,        \* request-serving threads
  NoBucket,
  MaxFaults       \* bound on failures of the provider and of Redis

DayOf(t)        == t \div DayTicks
MonthOf(day)    == day \div MonthDays
FirstOf(month)  == month * MonthDays
EndOfMonth(month) == FirstOf(month) + MonthDays - 1
LastTick(day)   == (day + 1) * DayTicks - 1
MonthSet        == 0..Months - 1
Horizon         == Months * MonthDays * DayTicks - 1

\* SETEX refuses a lifetime of 0, so with one nothing is kept.
ASSUME HistoryAssumption ==
  /\ DayTicks \in Nat \ {0} /\ MonthDays \in Nat \ {0} /\ Months \in Nat \ {0}
  /\ RecentTtl \in Nat \ {0} /\ LongTtl \in Nat \ {0} /\ FillTicks \in Nat /\ MaxFaults \in Nat
  /\ \A r \in Ranges : r.from \in Nat /\ r.to \in Nat /\ r.from <= r.to /\ MonthOf(r.to) \in MonthSet

VARIABLES
  tick,           \* the clock
  buckets,        \* buckets[m]: what Redis has of month m
  client,         \* client[c]: the request c serves
  clearedAt,      \* when clear_ticker was called last
  clearing,       \* the months it has found and not deleted yet
  faults          \* failures so far

historyVars == <<tick, buckets, client, clearedAt, clearing, faults>>

Bar == [day: Nat, last: Nat]
\* `fetched' and `stored' are not kept: they say when the bars were, for the properties.
Bucket == [bars: SUBSET Bar, expires: Nat, fetched: Nat, stored: Nat]

HistoryTypeOK ==
  /\ tick \in 0..Horizon
  /\ buckets \in [MonthSet -> {NoBucket} \cup Bucket]
  /\ \A m \in MonthSet : buckets[m] # NoBucket => (buckets[m].bars # {} /\ buckets[m].expires > tick)
  /\ \A c \in Clients : client[c].at \in {"idle", "missing", "direct", "fetched", "answered"}
  /\ clearedAt \in -1..Horizon /\ clearing \subseteq MonthSet /\ faults \in 0..MaxFaults

HistoryInit ==
  /\ tick = 0
  /\ buckets = [m \in MonthSet |-> NoBucket]
  /\ client = [c \in Clients |-> [at |-> "idle"]]
  /\ clearedAt = -1 /\ clearing = {} /\ faults = 0

Busy(c) == client[c].at \in {"missing", "direct", "fetched"}
Fault == faults < MaxFaults /\ faults' = faults + 1

-----------------------------------------------------------------------------
(* Redis and the provider *)

\* Keys expire; answers given are not kept.
TickHistory ==
  /\ tick < Horizon
  /\ \A c \in Clients : Busy(c) => tick < client[c].since + FillTicks
  /\ clearing = {}
  /\ tick' = tick + 1
  /\ client' = [c \in Clients |-> IF Busy(c) THEN client[c] ELSE [at |-> "idle"]]
  /\ buckets' = [m \in MonthSet |->
       IF buckets[m] # NoBucket /\ buckets[m].expires <= tick + 1 THEN NoBucket ELSE buckets[m]]
  /\ UNCHANGED <<clearedAt, clearing, faults>>

\* Mutant: only what is held briefly is found.
ScansRecent == {m \in MonthSet : buckets[m] # NoBucket /\ m >= MonthOf(DayOf(tick))}
Scanned == {m \in MonthSet : buckets[m] # NoBucket}

\* clear_ticker, after a corporate action: SCAN finds the keys, and each is
\* deleted by a call of its own.
ClearTicker ==
  /\ clearing = {}
  /\ clearing' = Scanned
  /\ clearedAt' = tick
  /\ UNCHANGED <<tick, buckets, client, faults>>

DeleteBucket(m) ==
  /\ m \in clearing
  /\ clearing' = clearing \ {m}
  /\ buckets' = [buckets EXCEPT ![m] = NoBucket]
  /\ UNCHANGED <<tick, client, clearedAt, faults>>

\* What the provider has of a range.
ProviderBars(from, to) ==
  {[day |-> d, last |-> Min({tick, LastTick(d)})] : d \in from .. Min({to, DayOf(tick)})}
InMonths(bars, months) == {bar \in bars : MonthOf(bar.day) \in months}

-----------------------------------------------------------------------------
(* One request *)

MonthsBetween(range) == MonthOf(range.from) .. MonthOf(range.to)

Answered(range, since, bars) ==
  [at |-> "answered", range |-> range, since |-> since,
   bars |-> {bar \in bars : range.from <= bar.day /\ bar.day <= range.to}]

CachedBars(months) == UNION {buckets[m].bars : m \in months}

\* _cached_history up to the provider: MGET, and an answer if nothing is missing.
ReadBuckets(c, range) ==
  LET missing == {m \in MonthsBetween(range) : buckets[m] = NoBucket}
      cached == CachedBars(MonthsBetween(range) \ missing)
  IN  /\ ~Busy(c)
      /\ client' = [client EXCEPT ![c] =
           IF missing = {} THEN Answered(range, tick, cached)
           ELSE [at |-> "missing", range |-> range, since |-> tick, months |-> missing, cached |-> cached]]
      /\ UNCHANGED <<tick, buckets, clearedAt, clearing, faults>>

\* Redis does not answer: the provider is asked directly.
ReadFails(c, range) ==
  /\ ~Busy(c) /\ Fault
  /\ client' = [client EXCEPT ![c] = [at |-> "direct", range |-> range, since |-> tick]]
  /\ UNCHANGED <<tick, buckets, clearedAt, clearing>>

FetchStart(c) == FirstOf(Min(client[c].months))
FetchEnd(c) == Min({EndOfMonth(Max(client[c].months)), DayOf(tick)})

\* One call that spans every gap, widened to whole months, not past today.  A
\* provider in trouble may have nothing for some of the months.
FetchMissing(c, months) ==
  LET s == client[c]
  IN  /\ s.at = "missing"
      /\ months \subseteq s.months
      /\ IF months = s.months THEN UNCHANGED faults ELSE Fault
      /\ client' = [client EXCEPT ![c] =
           [at |-> "fetched", range |-> s.range, since |-> s.since, months |-> s.months, cached |-> s.cached,
            bars |-> InMonths(ProviderBars(FetchStart(c), FetchEnd(c)), months), to |-> FetchEnd(c), fetched |-> tick]]
      /\ UNCHANGED <<tick, buckets, clearedAt, clearing>>

\* MarketDataError: caught like a failure of Redis, so the provider is asked again.
FetchFails(c) ==
  /\ client[c].at = "missing" /\ Fault
  /\ client' = [client EXCEPT ![c] = [at |-> "direct", range |-> client[c].range, since |-> client[c].since]]
  /\ UNCHANGED <<tick, buckets, clearedAt, clearing>>

AskDirectly(c) ==
  LET s == client[c]
  IN  /\ s.at = "direct"
      /\ client' = [client EXCEPT ![c] = Answered(s.range, s.since, ProviderBars(s.range.from, s.range.to))]
      /\ UNCHANGED <<tick, buckets, clearedAt, clearing, faults>>

DirectFails(c) ==
  /\ client[c].at = "direct" /\ Fault
  /\ client' = [client EXCEPT ![c] = [at |-> "idle"]]
  /\ UNCHANGED <<tick, buckets, clearedAt, clearing>>

\* The fetch reached the end of the month, or today if that comes first.
Complete(c, m) == Min({EndOfMonth(m), DayOf(tick)}) <= client[c].to

Storable(c, m) == InMonths(client[c].bars, {m}) # {} /\ Complete(c, m)

\* Mutant: the month of today counts as finished.
LongForAll(m) == LongTtl
\* Months before the one of the store are held far longer.
Ttl(m) == IF m >= MonthOf(DayOf(tick)) THEN RecentTtl ELSE LongTtl

\* _store: SETEX of every month that has bars and is complete; the rest of
\* _cached_history.  A SETEX may fail, and the answer is the same.
StoreMonths(c, written) ==
  LET s == client[c]
      complete == {m \in s.months : Storable(c, m)}
  IN  /\ s.at = "fetched"
      /\ written \subseteq complete
      /\ IF written = complete THEN UNCHANGED faults ELSE Fault
      /\ buckets' = [m \in MonthSet |->
           IF m \in written
           THEN [bars |-> InMonths(s.bars, {m}), expires |-> tick + Ttl(m), fetched |-> s.fetched, stored |-> tick]
           ELSE buckets[m]]
      /\ client' = [client EXCEPT ![c] = Answered(s.range, s.since, s.cached \cup s.bars)]
      /\ UNCHANGED <<tick, clearedAt, clearing>>

HistoryNext ==
  \/ TickHistory \/ ClearTicker
  \/ \E m \in MonthSet : DeleteBucket(m)
  \/ \E c \in Clients, r \in Ranges : ReadBuckets(c, r) \/ ReadFails(c, r)
  \/ \E c \in Clients, ms \in SUBSET MonthSet : FetchMissing(c, ms) \/ StoreMonths(c, ms)
  \/ \E c \in Clients : FetchFails(c) \/ AskDirectly(c) \/ DirectFails(c)

HistorySpec == HistoryInit /\ [][HistoryNext]_historyVars

-----------------------------------------------------------------------------
(* Properties *)

GivenAnswers == {client[c] : c \in {c \in Clients : client[c].at = "answered"}}

\* An answer lies within the range it was asked for, although months are kept
\* whole, and a month it says anything of has every day that was over when the
\* request began, however the month was put together.
AnswersAreWhole ==
  \A a \in GivenAnswers :
    /\ \A bar \in a.bars : a.range.from <= bar.day /\ bar.day <= a.range.to
    /\ \A m \in MonthsBetween(a.range) : InMonths(a.bars, {m}) # {} =>
         \A d \in a.range.from .. a.range.to :
           (MonthOf(d) = m /\ d < DayOf(a.since)) => \E bar \in a.bars : bar.day = d

\* No bar lags behind the provider by more than the short lifetime and the time
\* of a request.  The last day of a month is left out: fetched before and stored
\* after midnight, an unfinished month is kept as a finished one.
AnswersAreRecent ==
  \A a \in GivenAnswers : \A bar \in a.bars :
    bar.day # EndOfMonth(MonthOf(bar.day)) =>
      bar.last >= Min({LastTick(bar.day), a.since - RecentTtl - FillTicks})

\* An answer is one the provider might have given itself a short while ago, however
\* it was put together from buckets of several ages and a fetch.
AnswersMatchTheProvider == AnswersAreWhole /\ AnswersAreRecent

\* Of what was kept before clear_ticker nothing is left: bars of before it are
\* kept only if a request had them in hand then and stored them since.
ClearedBarsStayGone ==
  clearing = {} =>
    \A m \in MonthSet : buckets[m] # NoBucket =>
      \/ buckets[m].fetched >= clearedAt
      \/ buckets[m].stored \in clearedAt .. clearedAt + FillTicks
=============================================================================
