SPECIFICATION MCSpec
CONSTANTS
  Mixes = {"trades", "actions", "flows", "returns", "early"}
  inv = inv
  acme = acme
  w1 = w1
  w2 = w2
  Books = {inv}
  Tickers = {acme}
  NoTicker = NoTicker
  NoAmount = NoAmount
  NoAction = NoAction
  Currency <- OneCurrency
  Workers = {w1}
  Orders <- AllOrders
  Actions <- AllActions
  Corrected <- AllTypes
  MaxDelay = 1
  MaxEvents = 6
  Horizon = 4
  DayTicks = 1
  Tapes <- SomeTapes
INVARIANTS
  TypeOK CostIsConserved JournalIsEnough FlowsAgree GainsComeFromThePortfolio ReturnsAgreeWithValues
PROPERTIES MeasuredReturnsStand
