------------------------------- MODULE Journal -------------------------------
(***************************************************************************)
(* The double-entry vocabulary of the ledger: what a client may ask to be  *)
(* recorded, the legs a request is turned into, and when a set of legs     *)
(* balances.                                                               *)
(*                                                                         *)
(* The legs of one event are summed per destination: `cash' is the sum of  *)
(* its CASH legs, `security' and `quantity' are its SECURITY leg, and      *)
(* `counter' is the sum of every other leg (external money, income,        *)
(* withholding, expense).  Capitalized fee and tax legs carry no amount    *)
(* and vanish in the sum.  Every leg is in the book's own currency, as     *)
(* build_legs and transfer_cash make them, so no leg carries an fx_rate.   *)
(***************************************************************************)
EXTENDS Integers, Sequences

CONSTANTS
  Books,        \* portfolios, cash accounts and liability accounts
  Tickers,      \* instruments
  NoTicker,     \* the absent ticker of a request or of a leg
  Currency,     \* the base currency of a book, the quote currency of a ticker
  NoAmount      \* an absent settlement_amount or fx_rate

ASSUME JournalAssumption ==
  /\ Books \cap Tickers = {}
  /\ NoTicker \notin Tickers
  /\ NoAmount \notin Int
  /\ DOMAIN Currency = Books \cup Tickers

Trades   == {"buy", "sell"}
Inflows  == {"deposit", "transfer_in"}
Outflows == {"withdrawal", "transfer_out"}
Incomes  == {"dividend", "interest"}
Expenses == {"fee", "tax"}
ActionTypes == {"split", "stock_dividend", "return_of_capital",
                "symbol_change", "merger", "spinoff"}

EventTypes == Trades \cup Inflows \cup Outflows \cup Incomes \cup Expenses
                     \cup ActionTypes \cup {"reversal"}

\* Events that presuppose a holding; interest on a bank balance does not.
HoldingEvents == Trades \cup {"dividend"} \cup ActionTypes

\* The body of a record_transaction request.  `costs' is fee plus tax on a
\* trade and the withholding tax on income.  The schema admits only positive
\* quantities and prices and nonnegative costs.
Transactions ==
  [type: EventTypes, ticker: Tickers \cup {NoTicker}, quantity: Nat, unit_price: Nat,
   amount: Int, costs: Nat, settlement: Int \cup {NoAmount}]

Legs == [ticker: Tickers \cup {NoTicker}, quantity: Int,
         security: Int, cash: Int, counter: Int]

\* A cash movement and its balancing counterpart.
CashPair(delta) ==
  [ticker |-> NoTicker, quantity |-> 0, security |-> 0, cash |-> delta, counter |-> -delta]

\* The broker's exact figure wins over the computed one.
Settled(tx, computed) == IF tx.settlement = NoAmount THEN computed ELSE tx.settlement

TradeLegs(tx) ==
  LET consideration == tx.quantity * tx.unit_price
      security == IF tx.type = "buy" THEN consideration + tx.costs
                                     ELSE tx.costs - consideration
  IN  [ticker   |-> tx.ticker,
       quantity |-> IF tx.type = "buy" THEN tx.quantity ELSE -tx.quantity,
       security |-> security,
       cash     |-> Settled(tx, -security),
       counter  |-> 0]

\* Gross income against the withholding tax and the net cash received.
BuildLegs(tx) ==
  CASE tx.type \in Trades   -> TradeLegs(tx)
    [] tx.type \in Inflows  -> CashPair(tx.amount)
    [] tx.type \in Incomes  -> CashPair(tx.amount - tx.costs)
    [] OTHER                -> CashPair(-tx.amount)

\* What build_legs demands before it builds anything.
Buildable(tx) ==
  \/ tx.type \in Trades /\ tx.ticker # NoTicker
  \/ tx.type \in Inflows \cup Outflows \cup Incomes \cup Expenses /\ tx.amount > 0

Balanced(legs) == legs.security + legs.cash + legs.counter = 0

Invert(legs) ==
  [ticker |-> legs.ticker, quantity |-> -legs.quantity, security |-> -legs.security,
   cash |-> -legs.cash, counter |-> -legs.counter]
=============================================================================
