----------------------------- MODULE MCHoldings -----------------------------
(***************************************************************************)
(* Instances of Holdings, and of Performance on top of it, for TLC.        *)
(* Amounts are small and chosen so that averages are fractions and         *)
(* everything held can be sold.  A behaviour begins with a mix: what is    *)
(* ordered, applied and reversed, how far back transactions are dated, and *)
(* the bounds on the journal and on time; snapshots are taken in one mix.  *)
(***************************************************************************)
EXTENDS Performance, TLC

CONSTANTS Mixes, inv, acme, w1, w2

OneCurrency == [x \in Books \cup Tickers |-> "USD"]

Money(type, amount, tax) ==
  [type |-> type, ticker |-> NoTicker, quantity |-> 0, unit_price |-> 0,
   amount |-> amount, costs |-> tax, settlement |-> NoAmount]
Trade(type, quantity, price, costs) ==
  [type |-> type, ticker |-> acme, quantity |-> quantity, unit_price |-> price,
   amount |-> 0, costs |-> costs, settlement |-> NoAmount]

\* Every set of orders holds a deposit of nothing, which is always refused.

\* Purchases at two prices, sales of part and of all, with a fee.
TradeOrders ==
  { Money("deposit", 0, 0), Money("deposit", 8, 0), Trade("buy", 2, 2, 1), Trade("buy", 1, 3, 0),
    Trade("sell", 1, 4, 1), Trade("sell", 2, 3, 0) }

\* One purchase and one sale, for the runs about actions.
PlainOrders ==
  { Money("deposit", 0, 0), Money("deposit", 9, 0), Trade("buy", 3, 3, 0), Trade("sell", 1, 4, 0) }

\* Capital, income and costs.
FlowOrders ==
  { Money("deposit", 0, 0), Money("deposit", 4, 0), Money("withdrawal", 1, 0), Money("dividend", 2, 1), Money("fee", 1, 0) }

Action(kind, num, den, per_share, tax, effective) ==
  [kind |-> kind, ratio |-> [num |-> num, den |-> den], per_share |-> per_share,
   withholding |-> tax, effective |-> effective, cancelled |-> FALSE]

NoActions == {}

\* A split that leaves a fraction of a share, a dividend, a return of capital,
\* and two that are never applied.
PlainActions ==
  { Action("split", 3, 2, 0, 0, 1), Action("cash_dividend", 1, 1, 1, 2, 1),
    Action("return_of_capital", 1, 1, 1, 0, 1), Action("spinoff", 1, 1, 0, 0, 1),
    [Action("split", 2, 1, 0, 0, 1) EXCEPT !.cancelled = TRUE] }
Split == { Action("split", 2, 1, 0, 0, 1) }
\* A dividend that is recorded before it takes effect.
Announced == { Action("cash_dividend", 1, 1, 1, 0, 2) }

\* Capital that comes and goes around a purchase and a dividend larger than it.
ReturnOrders ==
  { Money("deposit", 0, 0), Money("deposit", 2, 0), Money("withdrawal", 4, 0), Money("dividend", 4, 0),
    Trade("buy", 1, 2, 0) }

SomeTapes == {<<1, 3, 1, 2>>}

AllOrders == TradeOrders \cup PlainOrders \cup FlowOrders \cup ReturnOrders
AllActions == PlainActions \cup Split \cup Announced
AllTypes == EventTypes

Mix(orders, actions, corrected, delay, events, horizon) ==
  [orders |-> orders, actions |-> actions, corrected |-> corrected, delay |-> delay,
   events |-> events, horizon |-> horizon]
MixNamed(name) ==
  CASE name = "trades"  -> Mix(TradeOrders, NoActions, AllTypes, 0, 6, 2)
    [] name = "actions" -> Mix(PlainOrders, PlainActions, {"buy", "sell", "split", "dividend"}, 0, 6, 1)
    [] name = "flows"   -> Mix(FlowOrders, NoActions, AllTypes, 1, 4, 3)
    [] name = "returns" -> Mix(ReturnOrders, NoActions, {"deposit", "dividend"}, 1, 3, 4)
    [] name = "races"   -> Mix(PlainOrders, PlainActions, AllTypes, 0, 5, 1)
    [] name = "early"   -> Mix(PlainOrders, Announced, {"dividend"}, 0, 4, 2)
    [] name = "split"   -> Mix(PlainOrders, Split, {}, 0, 5, 1)

VARIABLE mix
mcVars == <<vars, perfVars, mix>>

MCInit ==
  /\ Init /\ PerformanceInit /\ mix \in Mixes
  /\ mix # "returns" => tape = CHOOSE prices \in Tapes : TRUE

MCNext ==
  LET m == MixNamed(mix)
      room == Len(journal) < m.events
      Posts == \/ \E w \in Workers :
                    \/ \E tx \in m.orders : \E occurred \in (now - m.delay)..now :
                         room /\ RecordTransaction(w, tx, occurred)
                    \/ \E tx \in m.orders : RefuseTransaction(w, tx)
                    \/ \E i \in DOMAIN journal :
                         room /\ journal[i].type \in m.corrected /\ ReverseTransaction(w, i)
                    \/ \E a \in m.actions : PreviewApplication(w, a)
                    \/ room /\ ApplyCorporateAction(w)
                    \/ AbandonApplication(w)
               \/ \E a \in m.actions : RecordCorporateAction(a)
  IN  /\ UNCHANGED mix
      /\ \/ Posts /\ UNCHANGED perfVars
         \/ now < m.horizon /\ Tick /\ UNCHANGED perfVars
         \/ mix = "returns" /\ SnapshotsNext /\ \A s \in snapshots' : s.day < 3

MCSpec == MCInit /\ [][MCNext]_mcVars
=============================================================================
