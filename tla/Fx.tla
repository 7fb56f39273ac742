--------------------------------- MODULE Fx ---------------------------------
(***************************************************************************)
(* FxService: the rate a report converts an amount at.                     *)
(*                                                                         *)
(* A rate is known by its pair and its day; what it is worth plays no part *)
(* here.  A report is a session of its own: the rows it adds to fx_rates   *)
(* are flushed, so that it sees them and holds the write lock of the data- *)
(* base, and are gone when the session ends, since no report commits.      *)
(***************************************************************************)
EXTENDS Integers, FiniteSetsExt, Sequences, Functions

CONSTANTS
  Currencies,
  CROSS_CURRENCIES,  \* the currencies a cross goes through, in order
  Days,              \* the days that are over
  LookbackDays,      \* how far back one fetch reaches
  PublishedRates,    \* the worlds: for every pair the days the provider has
  Wanted,            \* the conversions reports ask for: [base, quote, day, cutoff]
  Spans,             \* the ranges series prefetch: [base, quote, from, to]
  Reports,           \* sessions that serve reports
  Nobody, NotCovered,
  MaxDown            \* bound on outages

Pairs == {p \in Currencies \X Currencies : p[1] # p[2]}

ASSUME FxAssumption ==
  /\ CROSS_CURRENCIES \in Seq(Currencies)
  /\ IsFiniteSet(Days) /\ Days \subseteq Nat /\ LookbackDays \in Nat
  /\ PublishedRates \subseteq [Pairs -> SUBSET Days]
  /\ Wanted \subseteq [base: Currencies, quote: Currencies, day: Days, cutoff: Nat \ {0}]
  /\ Spans \subseteq [base: Currencies, quote: Currencies, from: Days, to: Days]
  /\ \A span \in Spans : span.base # span.quote
  /\ Nobody \notin Reports /\ NotCovered \notin Days \X Days /\ MaxDown \in Nat

VARIABLES
  published,      \* what the provider has of every pair
  fxRates,        \* the table: committed rows
  service,        \* service[r]: the FxService of report r
  answer,         \* answer[r]: its last conversion
  writer,         \* the report that holds the write lock
  downs           \* outages so far

fxVars == <<published, fxRates, service, answer, writer, downs>>

NoRate == -1
Rates == [Pairs -> SUBSET Days]
Opened == [rates |-> [p \in Pairs |-> {}], failed |-> {}, covered |-> [p \in Pairs |-> NotCovered], missed |-> {}]
NoAnswer == [state |-> "none"]

FxTypeOK ==
  /\ published \in PublishedRates /\ fxRates \in Rates
  /\ \A r \in Reports :
       /\ service[r].rates \in Rates /\ service[r].failed \subseteq Pairs /\ service[r].missed \subseteq Pairs
       /\ \A p \in Pairs : service[r].covered[p] = NotCovered \/ service[r].covered[p] \in Days \X Days
       /\ answer[r].state \in {"none", "converted", "unavailable", "locked"}
  /\ \A r \in Reports : service[r].rates # Opened.rates => writer = r
  /\ writer \in {Nobody} \cup Reports /\ downs \in 0..MaxDown

FxInit ==
  /\ published \in PublishedRates
  /\ fxRates = [p \in Pairs |-> {}]
  /\ service = [r \in Reports |-> Opened]
  /\ answer = [r \in Reports |-> NoAnswer]
  /\ writer = Nobody /\ downs = 0

-----------------------------------------------------------------------------
(* Resolving a rate.  Every operator takes the state of the service and how *)
(* the provider answers, and gives the state it leaves.                     *)

Bars(p, from, to, o) == IF p \in o.down THEN {} ELSE published[p] \cap from .. to
Fails(p, from, to, o) == p \in o.down \/ (o.raises /\ published[p] \cap from .. to = {})

\* _fetch: every bar of the range is stored, unless the provider fails.
Fetch(svc, p, from, to, o) ==
  IF Fails(p, from, to, o) THEN [svc EXCEPT !.failed = @ \cup {p}, !.missed = @ \cup {p}]
  ELSE [svc EXCEPT !.rates[p] = @ \cup Bars(p, from, to, o)]

\* _stored: the newest row at or before a date.
Stored(svc, p, asOf) ==
  LET days == {d \in fxRates[p] \cup svc.rates[p] : d <= asOf}
  IN  IF days = {} THEN NoRate ELSE Max(days)

\* _is_covered: the date lies in the range that was fetched whole.
IsCovered(svc, p, asOf) ==
  svc.covered[p] # NotCovered /\ svc.covered[p][1] <= asOf /\ asOf <= svc.covered[p][2]

\* Mutant: a stored rate of any age will do.
ObservedIfAny(svc, p, asOf, o) ==
  IF Stored(svc, p, asOf) # NoRate \/ p \in svc.failed
  THEN [svc |-> svc, day |-> Stored(svc, p, asOf)]
  ELSE LET next == Fetch(svc, p, asOf - LookbackDays, asOf, o)
       IN  [svc |-> next, day |-> Stored(next, p, asOf)]

\* _observed: a row of the date itself, or of a range fetched whole, or else
\* what there is once the provider was asked, if it did not fail before.
Observed(svc, p, asOf, o) ==
  IF Stored(svc, p, asOf) = asOf \/ IsCovered(svc, p, asOf) \/ p \in svc.failed
  THEN [svc |-> svc, day |-> Stored(svc, p, asOf)]
  ELSE LET next == Fetch(svc, p, asOf - LookbackDays, asOf, o)
       IN  [svc |-> next, day |-> Stored(next, p, asOf)]

\* A pair as it is published, or else the other way round; _leg.
Leg(svc, base, quote, asOf, o) ==
  LET direct == Observed(svc, <<base, quote>>, asOf, o)
      inverse == Observed(direct.svc, <<quote, base>>, asOf, o)
  IN  CASE base = quote -> [svc |-> svc, found |-> TRUE, legs |-> <<>>]
        [] base # quote /\ direct.day # NoRate ->
             [svc |-> direct.svc, found |-> TRUE, legs |-> <<[pair |-> <<base, quote>>, day |-> direct.day]>>]
        [] OTHER ->
             [svc |-> inverse.svc, found |-> inverse.day # NoRate,
              legs |-> IF inverse.day = NoRate THEN <<>>
                       ELSE <<[pair |-> <<quote, base>>, day |-> inverse.day]>>]

\* One intermediary: tried unless one before it has both legs.
Through(sofar, base, middle, quote, asOf, o) ==
  LET first == Leg(sofar.svc, base, middle, asOf, o)
      second == Leg(first.svc, middle, quote, asOf, o)
  IN  IF sofar.found \/ middle \in {base, quote} THEN sofar
      ELSE [svc |-> second.svc, found |-> first.found /\ second.found,
            legs |-> IF first.found /\ second.found THEN first.legs \o second.legs ELSE <<>>]

\* _cross: both legs through each intermediary, until both are there.
Cross(svc, base, quote, asOf, o) ==
  LET after[i \in 0..Len(CROSS_CURRENCIES)] ==
        IF i = 0 THEN [svc |-> svc, found |-> FALSE, legs |-> <<>>]
        ELSE Through(after[i - 1], base, CROSS_CURRENCIES[i], quote, asOf, o)
  IN  after[Len(CROSS_CURRENCIES)]

\* Mutant: a cross is preferred to the pair itself.
ResolveByCross(svc, base, quote, asOf, o) ==
  LET crossed == Cross(svc, base, quote, asOf, o)
  IN  IF crossed.found THEN crossed ELSE Leg(crossed.svc, base, quote, asOf, o)
Resolve(svc, base, quote, asOf, o) ==
  LET plain == Leg(svc, base, quote, asOf, o)
  IN  IF plain.found THEN plain ELSE Cross(plain.svc, base, quote, asOf, o)

-----------------------------------------------------------------------------
(* Reports *)

\* While a report asks, the provider answers for all pairs, all but one, or none;
\* and a range without a bar is an error of the provider, or an empty answer of
\* the months in the cache.
Outages == [down: {{}, Pairs} \cup {{p} : p \in Pairs}, raises: BOOLEAN]

\* A report for a cutoff uses no rate of the day of the cutoff.
AsOf(want) == Min({want.day, want.cutoff - 1})

WritesRates(r, next) == next.rates # service[r].rates
Down(o) ==
  IF o.down = {} THEN UNCHANGED downs ELSE downs < MaxDown /\ downs' = downs + 1

\* Mutant: rows are flushed whoever holds the lock.
FlushAnyway(r, next) ==
  /\ service' = [service EXCEPT ![r] = next]
  /\ writer' = IF WritesRates(r, next) THEN r ELSE writer

\* The flush of new rows takes the write lock, and the session keeps it.
Flush(r, next) ==
  /\ WritesRates(r, next) => writer \in {Nobody, r}
  /\ service' = [service EXCEPT ![r] = next]
  /\ writer' = IF WritesRates(r, next) THEN r ELSE writer

Alive(r) == answer[r].state # "locked"

\* convert.
Convert(r, want, o) ==
  LET asOf == AsOf(want)
      result == Resolve(service[r], want.base, want.quote, asOf, o)
  IN  /\ Alive(r) /\ asOf \in Days
      /\ Down(o)
      /\ Flush(r, result.svc)
      /\ answer' = [answer EXCEPT ![r] =
           [state |-> IF result.found THEN "converted" ELSE "unavailable",
            base |-> want.base, quote |-> want.quote, asOf |-> asOf, legs |-> result.legs]]
      /\ UNCHANGED <<published, fxRates>>

PairsOf(span) ==
  {<<span.base, span.quote>>} \cup
  UNION {{<<span.base, m>>, <<m, span.quote>>} : m \in Range(CROSS_CURRENCIES) \ {span.base, span.quote}}

\* Every pair is fetched, and none counts as failed afterwards.
Prefetched(svc, span, o) ==
  LET asked == PairsOf(span)
  IN  [rates   |-> [p \in Pairs |-> svc.rates[p] \cup (IF p \in asked THEN Bars(p, span.from, span.to, o) ELSE {})],
       failed  |-> svc.failed \ asked,
       covered |-> [p \in Pairs |-> IF p \in asked THEN <<span.from, span.to>> ELSE svc.covered[p]],
       missed  |-> svc.missed \cup {p \in asked : Fails(p, span.from, span.to, o)}]

\* prefetch_range, before a series converts anything: the pair and the legs of
\* its crosses, in the direction they are named.
PrefetchRange(r, span, o) ==
  /\ answer[r] = NoAnswer
  /\ Down(o)
  /\ Flush(r, Prefetched(service[r], span, o))
  /\ UNCHANGED <<published, fxRates, answer>>

\* The write lock was not to be had in time: the report fails.
LockedOut(r) ==
  /\ Alive(r) /\ writer \notin {Nobody, r}
  /\ answer' = [answer EXCEPT ![r] = [state |-> "locked"]]
  /\ UNCHANGED <<published, fxRates, service, writer, downs>>

\* get_session closes the session: what was not committed is rolled back.
EndReport(r) ==
  /\ service[r] # Opened \/ ~Alive(r)
  /\ service' = [service EXCEPT ![r] = Opened]
  /\ answer' = [answer EXCEPT ![r] = NoAnswer]
  /\ writer' = IF writer = r THEN Nobody ELSE writer
  /\ UNCHANGED <<published, fxRates, downs>>

FxNext ==
  \/ \E r \in Reports, o \in Outages :
       \/ \E want \in Wanted : Convert(r, want, o)
       \/ \E span \in Spans : PrefetchRange(r, span, o)
  \/ \E r \in Reports : LockedOut(r) \/ EndReport(r)

FxSpec == FxInit /\ [][FxNext]_fxVars

-----------------------------------------------------------------------------
(* Properties *)

Converted(r) == answer[r].state = "converted"

\* The days a report has asked about: those of one fetch, or what it has fetched
\* of a range as a whole.
Window(svc, p, asOf) ==
  IF IsCovered(svc, p, asOf) THEN svc.covered[p][1] .. asOf ELSE asOf - LookbackDays .. asOf

Newest(svc, p, asOf) ==
  LET days == published[p] \cap Window(svc, p, asOf)
  IN  IF days = {} THEN NoRate ELSE Max(days)

\* What was stored for another date does not stand in for the newest rate: no
\* conversion uses a rate of a later day than the one it is for, although the
\* session holds those of conversions before it, and an older one only if asking
\* for the pair failed in this report.
NewestRateIsUsed ==
  \A r \in Reports : Converted(r) =>
    \A i \in DOMAIN answer[r].legs :
      LET leg == answer[r].legs[i]
      IN  /\ leg.day <= answer[r].asOf
          /\ leg.day >= Newest(service[r], leg.pair, answer[r].asOf) \/ leg.pair \in service[r].missed

\* An amount stays unconverted, and a published pair is replaced by its inverse
\* or a cross, only if asking for the pair failed in this report.
PublishedPairsConvert ==
  \A r \in Reports : answer[r].state \in {"converted", "unavailable"} =>
    LET a == answer[r]
        pair == <<a.base, a.quote>>
    IN  (a.base # a.quote /\ Newest(service[r], pair, a.asOf) # NoRate /\ pair \notin service[r].missed) =>
          (a.state = "converted" /\ \E i \in DOMAIN a.legs : a.legs[i].pair = pair)

\* The comment of FxRate: one observed exchange rate, kept so a conversion can
\* be audited.  The rates of every report that ended are in the table.
FxRatesAreKept ==
  [][\A r \in Reports : (Converted(r) /\ answer'[r] = NoAnswer) =>
       \A i \in DOMAIN answer[r].legs : answer[r].legs[i].day \in fxRates'[answer[r].legs[i].pair]]_fxVars
=============================================================================
