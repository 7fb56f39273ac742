SPECIFICATION Spec
CONSTANTS
  Focuses = {"groups", "summary", "series", "classification", "issuers"}
  e1 = e1
  e2 = e2
  inv = inv
  loan = loan
  bank = bank
  tsm = tsm
  tw2330 = tw2330
  tsmc = tsmc
  umc = umc
  Portfolios = {inv, loan, bank}
  created_at <- SomeCreations
  MemberLists <- SomeLists
  Editors = {e1, e2}
  GroupStart = 1
  GroupHorizon = 3
  EditTicks = 1
  Currencies = {"USD", "TWD"}
  BaseCurrency <- SomeBases
  Liabilities = {loan}
  Opening <- SomeOpenings
  Holding <- SomeHoldings
  Movements <- SomeMovements
  MaxPosts = 2
  RateTables <- SomeRates
  PriceGaps <- SomeGaps
  DayTicks = 1
  MaxSnapshots = 3
  Values = {"equity", "fixed_income"}
  NoValue = NoValue
  Listings = {tsm, tw2330}
  Names = {tsmc, umc}
  NoIssuer = NoIssuer
  Curators = {e1, e2}
  MaxIssuers = 3
SYMMETRY ThreadSymmetry
CHECK_DEADLOCK FALSE
INVARIANTS
  TypesOK MembersAreThoseAsked ReportAddsUp LikeWithLike SeriesAgreesWithSummary
  WinnerIsTheLastWord ListingsShareTheIssuer
PROPERTIES HistoryIsNotRestated SummaryIsOfItsCutoff CompletePointsCoverTheStarted
