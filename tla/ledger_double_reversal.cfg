SPECIFICATION MCSpec
CONSTANTS
  Mixes = {"reversals"}
  inv = inv
  bank = bank
  loan = loan
  acme = acme
  r1 = r1
  r2 = r2
  r3 = r3
  r4 = r4
  r5 = r5
  r6 = r6
  r7 = r7
  w1 = w1
  w2 = w2
  w3 = w3
  Books = {bank, inv, loan}
  Tickers = {acme}
  NoTicker = NoTicker
  NoAmount = NoAmount
  NoRequest = NoRequest
  NoEvent = NoEvent
  Kind <- MCKind
  Currency <- TwoCurrencies
  RequestIds = {r1, r2, r3, r4, r5, r6, r7}
  Workers = {w1, w2}
  Requests <- AllRequests
INVARIANTS ReversedAtMostOnce
