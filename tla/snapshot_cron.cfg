SPECIFICATION FairSpec
CONSTANTS
  p1 = p1
  w1 = w1
  w2 = w2
  DayLength = 2
  FirstWeekday = 3
  MARKET_SESSIONS <- DaySessions
  Portfolios <- OnePortfolio
  Market = "US"
  ReportZone = 0
  Workers = {w1, w2}
  Requests <- ClientRequests
  Lookback = 1
  FirstDay = 0
  LastDay = 2
  Postings <- ClientPostings
  Budgets <- CronTroubles
PROPERTIES EveryDayIsValued
