SPECIFICATION Spec
CONSTANTS
  r1 = r1
  r2 = r2
  DayLength = 8
  FirstWeekday = 0
  MARKET_SESSIONS <- WorldSessions
  Markets <- SomeMarkets
  Prices = {1, 2}
  NoQuote = NoQuote
  OpenTtl = 1
  RequestTicks = 1
  Starts <- QuoteStarts
  QuoteHorizon = 6
  Readers = {r1, r2}
  DayTicks = 2
  MonthDays = 2
  Months = 2
  RecentTtl = 1
  LongTtl = 4
  FillTicks = 1
  Ranges <- SomeRanges
  Clients = {r1, r2}
  NoBucket = NoBucket
  MaxFaults = 1
  Currencies <- SomeCurrencies
  CROSS_CURRENCIES <- UsdThenEur
  Days = {0, 1, 2, 3}
  LookbackDays = 1
  PublishedRates <- SomeWorlds
  Wanted <- SomeConversions
  Spans <- SomeSpans
  Reports = {r1, r2}
  Nobody = Nobody
  NotCovered = NotCovered
  MaxDown = 1
PROPERTIES FxRatesAreKept
CHECK_DEADLOCK FALSE
