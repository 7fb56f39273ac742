--------------------------- MODULE HoldingsProofs ---------------------------
(***************************************************************************)
(* Proofs about Holdings, for every set of orders, actions and workers.    *)
(*                                                                         *)
(* Shares and cash come first, with averages and profits left open: they   *)
(* do not depend on them.  The fractions of the averages follow, and with  *)
(* them the type of the state and the conservation of the cost.  What is   *)
(* replayed comes next: that the past is covered by the projection, and    *)
(* that the whole journal, replayed, gives back what the book holds.  Last *)
(* are the flows: sums over the events that stand, and those of one pass   *)
(* over many windows.                                                      *)
(***************************************************************************)
EXTENDS Holdings, Induction

\* Legs that move shares name the security, so that they move the position.
Sound(legs) == legs \in Legs /\ (legs.ticker = NoTicker => legs.quantity = 0)

\* A position of some average cost and some realized profit.
IsPosition(p) ==
  /\ p.quantity \in Nat
  /\ \E average, realized :
        p = [quantity |-> p.quantity, average |-> average, realized |-> realized]

IsPreview(p) ==
  /\ p.action \in Actions /\ Sound(p.legs)
  /\ p.income \in Nat /\ p.costs \in Nat

\* TypeOK but for the averages, and with legs that are sound.
WholeNumbers ==
  /\ now \in Moments
  /\ journal \in Seq(Events) /\ \A i \in DOMAIN journal : Sound(journal[i].legs)
  /\ IsPosition(position)
  /\ cash \in Nat
  /\ DOMAIN preview = Workers
  /\ \A w \in Workers : preview[w] = NoPreview \/ IsPreview(preview[w])

-----------------------------------------------------------------------------
(* Legs and projections *)

LEMMA CashPairSound == ASSUME NEW delta \in Int PROVE Sound(CashPair(delta))
BY DEF Sound, CashPair, Legs

LEMMA InvertSound == ASSUME NEW legs, Sound(legs) PROVE Sound(Invert(legs))
BY DEF Sound, Invert, Legs

LEMMA TradeLegsSound ==
  ASSUME NEW tx \in Transactions, tx.ticker # NoTicker
  PROVE  Sound(TradeLegs(tx))
<1> DEFINE consideration == tx.quantity * tx.unit_price
           security == IF tx.type = "buy" THEN consideration + tx.costs ELSE tx.costs - consideration
           legs == TradeLegs(tx)
<1>1. consideration \in Int /\ tx.costs \in Int /\ tx.quantity \in Int /\ tx.settlement \in Int \cup {NoAmount}
      /\ tx.ticker \in Tickers
  BY DEF Transactions
<1> HIDE DEF consideration
<1>2. security \in Int /\ -security \in Int
  BY <1>1
<1>3. Settled(tx, -security) \in Int
  BY <1>1, <1>2 DEF Settled
<1>4. legs = [ticker |-> tx.ticker, quantity |-> IF tx.type = "buy" THEN tx.quantity ELSE -tx.quantity,
              security |-> security, cash |-> Settled(tx, -security), counter |-> 0]
  BY DEF TradeLegs, consideration
<1> HIDE DEF security
<1> QED
  BY <1>1, <1>2, <1>3, <1>4 DEF Sound, Legs

LEMMA BuildLegsSound ==
  ASSUME NEW tx \in Transactions, Buildable(tx)
  PROVE  Sound(BuildLegs(tx))
<1>1. tx.amount \in Int /\ tx.amount - tx.costs \in Int /\ -tx.amount \in Int
  BY DEF Transactions
<1>2. CASE tx.type \in Trades /\ tx.ticker # NoTicker
  <2>1. BuildLegs(tx) = TradeLegs(tx)
    BY <1>2 DEF BuildLegs, Trades, Inflows, Incomes
  <2> QED
    BY <1>2, <2>1, TradeLegsSound
<1>3. CASE tx.type \in Inflows \cup Outflows \cup Incomes \cup Expenses
  <2>1. \E delta \in {tx.amount, tx.amount - tx.costs, -tx.amount} : BuildLegs(tx) = CashPair(delta)
    BY <1>3 DEF BuildLegs, Trades, Inflows, Outflows, Incomes, Expenses
  <2> QED
    BY <1>1, <2>1, CashPairSound
<1> QED
  BY <1>2, <1>3 DEF Buildable

LEMMA SecuritySound ==
  ASSUME NEW q \in Int, NEW a \in Int, NEW c \in Int
  PROVE  Sound(Security(q, a, c))
<1>1. (CHOOSE t \in Tickers : TRUE) \in Tickers
  BY HoldingsAssumption
<1> QED BY <1>1, JournalAssumption DEF Sound, Security, Legs

\* What an update of a position makes of it, and what makes one.
LEMMA UpdatedPosition ==
  ASSUME NEW p, NEW q, NEW a, NEW r, p = [quantity |-> q, average |-> a, realized |-> r],
         NEW quantity, NEW average, NEW realized
  PROVE  [p EXCEPT !.quantity = quantity, !.average = average, !.realized = realized]
           = [quantity |-> quantity, average |-> average, realized |-> realized]
<1> DEFINE p1 == [p EXCEPT !.quantity = quantity]
           p2 == [p1 EXCEPT !.average = average]
           p3 == [p2 EXCEPT !.realized = realized]
<1>1. p1 = [quantity |-> quantity, average |-> a, realized |-> r]
  OBVIOUS
<1> HIDE DEF p1
<1>2. p2 = [quantity |-> quantity, average |-> average, realized |-> r]
  BY <1>1
<1> HIDE DEF p2
<1>3. p3 = [quantity |-> quantity, average |-> average, realized |-> realized]
  BY <1>2
<1> QED BY <1>3 DEF p1, p2

LEMMA MadePosition ==
  ASSUME NEW p, NEW quantity \in Nat, NEW average, NEW realized,
         p = [quantity |-> quantity, average |-> average, realized |-> realized]
  PROVE  IsPosition(p) /\ p.quantity = quantity
<1>1. p.quantity = quantity
  OBVIOUS
<1> QED BY <1>1 DEF IsPosition

\* A position keeps its form, and moves by the quantity of the legs alone.
LEMMA AppliedIs ==
  ASSUME NEW p, IsPosition(p), NEW quantity \in Int, p.quantity + quantity \in Nat, NEW amount
  PROVE  /\ IsPosition(ApplyPosition(p, quantity, amount))
         /\ ApplyPosition(p, quantity, amount).quantity = p.quantity + quantity
<1>1. p.quantity \in Nat
  BY DEF IsPosition
<1>2. PICK a, r : p = [quantity |-> p.quantity, average |-> a, realized |-> r]
  BY DEF IsPosition
<1>3. CASE quantity > 0
  <2> DEFINE q == p.quantity + quantity
             average == UnitCost(Plus(Basis(p), Whole(amount)), q)
             moved == [p EXCEPT !.quantity = q]
  <2>1. ApplyPosition(p, quantity, amount) = [moved EXCEPT !.average = average]
    BY <1>3 DEF ApplyPosition, Acquired
  <2>2. q \in Nat
    OBVIOUS
  <2> HIDE DEF average, q
  <2>3. moved = [quantity |-> q, average |-> p.average, realized |-> r]
    BY <1>2
  <2> HIDE DEF moved
  <2>4. ApplyPosition(p, quantity, amount) = [quantity |-> q, average |-> average, realized |-> r]
    BY <2>1, <2>3
  <2> QED BY <2>2, <2>4, MadePosition DEF q
<1>4. CASE quantity < 0
  <2> DEFINE q == p.quantity - (-quantity)
             average == IF p.quantity = -quantity THEN Zero ELSE p.average
             realized == Plus(p.realized, Minus(Whole(-amount), Times(p.average, -quantity)))
  <2>1. ApplyPosition(p, quantity, amount) =
          [p EXCEPT !.quantity = q, !.average = average, !.realized = realized]
    BY <1>4 DEF ApplyPosition, Released
  <2> HIDE DEF average, realized
  <2>2. ApplyPosition(p, quantity, amount) = [quantity |-> q, average |-> average, realized |-> realized]
    BY <1>2, <2>1, UpdatedPosition
  <2>3. q \in Nat /\ q = p.quantity + quantity
    BY <1>1, <1>4
  <2> QED BY <2>2, <2>3, MadePosition
<1>5. CASE quantity = 0
  BY <1>1, <1>5 DEF ApplyPosition
<1> QED BY <1>3, <1>4, <1>5

LEMMA ProjectedIs ==
  ASSUME IsPosition(position), NEW legs, Sound(legs), Affordable(legs)
  PROVE  /\ IsPosition(Projected(legs))
         /\ Projected(legs).quantity = position.quantity + legs.quantity
<1>1. legs.quantity \in Int /\ position.quantity \in Nat /\ position.quantity + legs.quantity \in Nat
  BY DEF Sound, Legs, IsPosition, Affordable
<1>2. CASE legs.ticker = NoTicker
  BY <1>1, <1>2 DEF Sound, Projected
<1>3. CASE legs.ticker # NoTicker
  BY <1>1, <1>3, AppliedIs DEF Projected
<1> QED BY <1>2, <1>3

LEMMA AffordableKeepsCash ==
  ASSUME cash \in Nat, NEW legs, Sound(legs), Affordable(legs)
  PROVE  cash + legs.cash \in Nat
BY DEF Sound, Legs, Affordable

-----------------------------------------------------------------------------
(* What a step does *)

\* An event is posted: the journal grows by it, shares and cash by its legs.
\* The earlier events keep their legs.
Posted(e) ==
  LET n == Len(journal)
  IN  /\ e \in Events /\ Sound(e.legs)
      /\ journal' \in Seq(Events) /\ Len(journal') = n + 1 /\ journal'[n + 1] = e
      /\ \A i \in 1..n : journal'[i].legs = journal[i].legs
      /\ IsPosition(position') /\ position'.quantity = position.quantity + e.legs.quantity
      /\ cash' \in Nat /\ cash' = cash + e.legs.cash

\* The book is left alone.
Untouched == UNCHANGED <<journal, position, cash>>

LEMMA PostedAppended ==
  ASSUME journal \in Seq(Events), NEW before \in Seq(Events), Len(before) = Len(journal),
         \A i \in DOMAIN journal : before[i].legs = journal[i].legs,
         NEW e \in Events, Sound(e.legs), journal' = Append(before, e),
         IsPosition(position'), position'.quantity = position.quantity + e.legs.quantity,
         cash' \in Nat, cash' = cash + e.legs.cash
  PROVE  Posted(e)
BY DEF Posted

LEMMA EventType ==
  ASSUME NEW type \in EventTypes, NEW legs \in Legs, NEW income \in Nat, NEW costs \in Nat,
         NEW occurred \in Moments, NEW reverses \in Nat
  PROVE  /\ NewEvent(type, legs, income, costs, occurred, reverses) \in Events
         /\ NewEvent(type, legs, income, costs, occurred, reverses).legs = legs
BY DEF NewEvent, Events

LEMMA RecordStep ==
  ASSUME WholeNumbers, NEW w \in Workers, NEW tx \in Orders, NEW occurred \in Moments,
         RecordTransaction(w, tx, occurred)
  PROVE  \E e : Posted(e)
<1> DEFINE legs == BuildLegs(tx)
           e == NewEvent(tx.type, legs, IncomeOf(tx), CostsOf(tx), occurred, 0)
<1>1. tx \in Transactions
  BY HoldingsAssumption
<1>2. Sound(legs) /\ Affordable(legs)
  BY <1>1, BuildLegsSound DEF RecordTransaction
<1>3. tx.type \in EventTypes /\ IncomeOf(tx) \in Nat /\ CostsOf(tx) \in Nat
  BY <1>1 DEF RecordTransaction, Buildable, Transactions, IncomeOf, CostsOf,
              Trades, Inflows, Outflows, Incomes, Expenses
<1>4. e \in Events /\ e.legs = legs
  <2> HIDE DEF legs
  <2> QED BY <1>2, <1>3, EventType DEF Sound
<1>5. journal' = Append(journal, e) /\ position' = Projected(legs) /\ cash' = cash + legs.cash
  BY DEF RecordTransaction
<1> HIDE DEF e, legs
<1>6. /\ IsPosition(position') /\ position'.quantity = position.quantity + legs.quantity
      /\ cash' \in Nat
  BY <1>2, <1>5, ProjectedIs, AffordableKeepsCash DEF WholeNumbers
<1> QED BY <1>2, <1>4, <1>5, <1>6, PostedAppended DEF WholeNumbers

LEMMA ReverseStep ==
  ASSUME WholeNumbers, NEW w \in Workers, NEW i \in DOMAIN journal, ReverseTransaction(w, i)
  PROVE  \E e : Posted(e)
<1> DEFINE legs == Invert(journal[i].legs)
           before == [journal EXCEPT ![i].reversed = TRUE]
           e == NewEvent("reversal", legs, journal[i].income, journal[i].costs, now, i)
<1>1. journal[i] \in Events /\ i \in Nat /\ Sound(journal[i].legs) /\ now \in Moments
  BY DEF WholeNumbers
<1>2. Sound(legs) /\ Affordable(legs)
  BY <1>1, InvertSound DEF ReverseTransaction
<1>3. e \in Events /\ e.legs = legs
  <2>1. journal[i].income \in Nat /\ journal[i].costs \in Nat /\ "reversal" \in EventTypes
    BY <1>1 DEF Events, EventTypes
  <2> HIDE DEF legs
  <2> QED BY <1>1, <1>2, <2>1, EventType DEF Sound
<1>4. /\ before \in Seq(Events) /\ Len(before) = Len(journal)
      /\ \A j \in DOMAIN journal : before[j].legs = journal[j].legs
  <2>1. [journal[i] EXCEPT !.reversed = TRUE] \in Events
    BY <1>1 DEF Events
  <2>2. [journal[i] EXCEPT !.reversed = TRUE].legs = journal[i].legs
    BY <1>1 DEF Events
  <2> QED BY <2>1, <2>2 DEF WholeNumbers
<1>5. journal' = Append(before, e) /\ position' = Projected(legs) /\ cash' = cash + legs.cash
  BY DEF ReverseTransaction
<1> HIDE DEF e, legs, before
<1>6. /\ IsPosition(position') /\ position'.quantity = position.quantity + legs.quantity
      /\ cash' \in Nat
  BY <1>2, <1>5, ProjectedIs, AffordableKeepsCash DEF WholeNumbers
<1> QED BY <1>2, <1>3, <1>4, <1>5, <1>6, PostedAppended DEF WholeNumbers

LEMMA ApplyStep ==
  ASSUME WholeNumbers, NEW w \in Workers, ApplyCorporateAction(w)
  PROVE  \E e : Posted(e)
<1> DEFINE p == preview[w]
           legs == p.legs
           e == NewEvent(EventTypeOf(p.action), legs, p.income, p.costs, p.action.effective, 0)
<1>1. IsPreview(p)
  BY DEF WholeNumbers, ApplyCorporateAction, Free
<1>2. Sound(legs) /\ Affordable(legs)
  BY <1>1 DEF ApplyCorporateAction, IsPreview
<1>3. e \in Events /\ e.legs = legs
  <2>1. p.action.kind \in ActionKinds /\ p.action.effective \in Moments
    BY <1>1, HoldingsAssumption DEF IsPreview, ActionSet, Moments
  <2>2. EventTypeOf(p.action) \in EventTypes
    <3> HIDE DEF p
    <3> QED BY <2>1 DEF EventTypeOf, EventTypes, ActionKinds, ActionTypes, Incomes
  <2> HIDE DEF p
  <2> QED BY <1>1, <1>2, <2>1, <2>2, EventType DEF Sound, IsPreview, legs
<1>4. /\ journal' = Append(journal, e) /\ cash' = cash + legs.cash
      /\ position' = [Projected(legs) EXCEPT !.average = p.average]
  BY DEF ApplyCorporateAction, ProjectedAndOverridden
<1> HIDE DEF e, legs, p
<1>5. IsPosition(position') /\ position'.quantity = position.quantity + legs.quantity
  <2>1. /\ IsPosition(Projected(legs))
        /\ Projected(legs).quantity = position.quantity + legs.quantity
    BY <1>2, ProjectedIs DEF WholeNumbers
  <2>2. PICK a, r : Projected(legs) = [quantity |-> Projected(legs).quantity,
                                       average |-> a, realized |-> r]
    BY <2>1 DEF IsPosition
  <2>3. position' = [quantity |-> Projected(legs).quantity, average |-> p.average, realized |-> r]
    BY <1>4, <2>2
  <2> QED BY <2>1, <2>3 DEF IsPosition
<1>6. cash' \in Nat
  BY <1>2, <1>4, AffordableKeepsCash DEF WholeNumbers
<1> QED BY <1>2, <1>3, <1>4, <1>5, <1>6, PostedAppended DEF WholeNumbers

\* Whatever a step does, it posts one event or leaves the book alone.
LEMMA StepShape ==
  ASSUME WholeNumbers, [Next]_vars
  PROVE  Untouched \/ \E e : Posted(e)
<1>1. CASE UNCHANGED vars
  BY <1>1 DEF vars, Untouched
<1>2. ASSUME NEW w \in Workers, NEW tx \in Orders, RefuseTransaction(w, tx)
      PROVE  Untouched
  BY <1>2 DEF RefuseTransaction, vars, Untouched
<1>3. ASSUME NEW w \in Workers, NEW a \in Actions, PreviewApplication(w, a)
      PROVE  Untouched
  BY <1>3 DEF PreviewApplication, Untouched
<1>4. ASSUME NEW w \in Workers, AbandonApplication(w) PROVE Untouched
  BY <1>4 DEF AbandonApplication, Untouched
<1>5. ASSUME NEW a \in Actions, RecordCorporateAction(a) PROVE Untouched
  BY <1>5 DEF RecordCorporateAction, Untouched
<1>6. CASE Tick
  BY <1>6 DEF Tick, Untouched
<1> QED BY <1>1, <1>2, <1>3, <1>4, <1>5, <1>6, RecordStep, ReverseStep, ApplyStep DEF Next

-----------------------------------------------------------------------------
(* What is previewed, and the invariant *)

\* What is previewed can be posted.
LEMMA PreviewStep ==
  ASSUME WholeNumbers, NEW w \in Workers, NEW a \in Actions, PreviewApplication(w, a)
  PROVE  \E p : preview' = [preview EXCEPT ![w] = p] /\ IsPreview(p)
<1> DEFINE held == position.quantity
<1>1. /\ a \in ActionSet /\ a.ratio.num \in Nat /\ a.ratio.den \in Nat \ {0}
      /\ a.per_share \in Nat /\ a.withholding \in Nat
      /\ a.kind \in Determined /\ held \in Nat
  BY HoldingsAssumption DEF ActionSet, PreviewApplication, Applicable, WholeNumbers, IsPosition
<1>2. IsPreview(PreviewSplit(a))
  <2> DEFINE scaled == held * a.ratio.num
             resulting == scaled \div a.ratio.den
  <2>1. scaled \in Nat
    BY <1>1
  <2> HIDE DEF scaled
  <2>2. resulting \in Nat
    BY <1>1, <2>1
  <2> HIDE DEF resulting
  <2>3. resulting - held \in Int
    BY <1>1, <2>2
  <2>4. Sound(Security(resulting - held, 0, 0))
    BY <2>3, SecuritySound
  <2> QED BY <2>4 DEF PreviewSplit, Previewed, IsPreview, resulting, scaled
<1>3. IsPreview(PreviewCashIncome(a))
  <2> DEFINE gross == a.per_share * held
  <2>1. gross \in Nat
    BY <1>1
  <2> HIDE DEF gross
  <2>2. gross - a.withholding \in Int
    BY <1>1, <2>1
  <2>3. Sound(CashPair(gross - a.withholding))
    BY <2>2, CashPairSound
  <2> QED BY <1>1, <2>1, <2>3 DEF PreviewCashIncome, Previewed, IsPreview, gross
<1>4. IsPreview(PreviewReturnOfCapital(a))
  <2> DEFINE paid == a.per_share * held
  <2>1. paid \in Int /\ -paid \in Int
    BY <1>1
  <2> HIDE DEF paid
  <2>2. Sound(Security(0, -paid, paid))
    BY <2>1, SecuritySound
  <2> QED BY <2>2 DEF PreviewReturnOfCapital, Previewed, IsPreview, paid
<1>5. CASE a.kind \in {"split", "reverse_split"}
  BY <1>2, <1>5 DEF PreviewApplication
<1>6. CASE a.kind \in {"cash_dividend", "interest"}
  BY <1>3, <1>6 DEF PreviewApplication
<1>7. CASE a.kind = "return_of_capital"
  BY <1>4, <1>7 DEF PreviewApplication
<1> QED BY <1>1, <1>5, <1>6, <1>7 DEF Determined

\* What becomes of the previews in a step.
LEMMA PreviewsStep ==
  ASSUME WholeNumbers, [Next]_vars
  PROVE  /\ now' \in Moments
         /\ DOMAIN preview' = Workers
         /\ \A w \in Workers : preview'[w] = NoPreview \/ IsPreview(preview'[w])
<1> DEFINE Goal == /\ now' \in Moments
                   /\ DOMAIN preview' = Workers
                   /\ \A w \in Workers : preview'[w] = NoPreview \/ IsPreview(preview'[w])
<1>1. ASSUME now' = now, preview' = preview PROVE Goal
  BY <1>1 DEF WholeNumbers
<1>2. ASSUME NEW w \in Workers, NEW p, p = NoPreview \/ IsPreview(p),
             preview' = [preview EXCEPT ![w] = p], now' = now
      PROVE  Goal
  BY <1>2 DEF WholeNumbers
<1>3. ASSUME Tick PROVE Goal
  BY <1>3, HoldingsAssumption DEF Tick, WholeNumbers, Moments
<1> HIDE DEF Goal
<1>4. ASSUME NEW w \in Workers, NEW tx \in Orders, NEW t \in Moments, RecordTransaction(w, tx, t)
      PROVE  Goal
  BY <1>1, <1>4 DEF RecordTransaction
<1>5. ASSUME NEW w \in Workers, NEW tx \in Orders, RefuseTransaction(w, tx) PROVE Goal
  BY <1>1, <1>5 DEF RefuseTransaction, vars
<1>6. ASSUME NEW w \in Workers, NEW i \in DOMAIN journal, ReverseTransaction(w, i) PROVE Goal
  BY <1>1, <1>6 DEF ReverseTransaction
<1>7. ASSUME NEW w \in Workers, NEW a \in Actions, PreviewApplication(w, a) PROVE Goal
  <2>1. now' = now
    BY <1>7 DEF PreviewApplication
  <2> QED BY <1>2, <1>7, <2>1, PreviewStep
<1>8. ASSUME NEW w \in Workers, ApplyCorporateAction(w) \/ AbandonApplication(w) PROVE Goal
  BY <1>2, <1>8 DEF ApplyCorporateAction, AbandonApplication
<1>9. ASSUME NEW a \in Actions, RecordCorporateAction(a) PROVE Goal
  BY <1>1, <1>9 DEF RecordCorporateAction
<1>10. ASSUME UNCHANGED vars PROVE Goal
  BY <1>1, <1>10 DEF vars
<1>11. ASSUME Next PROVE Goal
  BY <1>3, <1>4, <1>5, <1>6, <1>7, <1>8, <1>9, <1>11 DEF Next
<1> QED BY <1>10, <1>11 DEF Goal

LEMMA WholeNumbersInit == Init => WholeNumbers
<1> SUFFICES ASSUME Init PROVE WholeNumbers
  OBVIOUS
<1>1. IsPosition(position)
  BY MadePosition DEF Init, NoPosition
<1>2. journal \in Seq(Events) /\ DOMAIN journal = {}
  BY DEF Init
<1> QED BY <1>1, <1>2, HoldingsAssumption DEF Init, WholeNumbers, Moments

LEMMA WholeNumbersStep == WholeNumbers /\ [Next]_vars => WholeNumbers'
<1> SUFFICES ASSUME WholeNumbers, [Next]_vars PROVE WholeNumbers'
  OBVIOUS
<1>1. CASE Untouched
  <2>1. /\ journal' \in Seq(Events) /\ \A i \in DOMAIN journal' : Sound(journal'[i].legs)
        /\ IsPosition(position') /\ cash' \in Nat
    BY <1>1 DEF Untouched, WholeNumbers
  <2> QED BY <2>1, PreviewsStep DEF WholeNumbers
<1>2. ASSUME NEW e, Posted(e) PROVE WholeNumbers'
  <2> DEFINE n == Len(journal)
  <2>1. n \in Nat /\ DOMAIN journal = 1..n /\ DOMAIN journal' = 1..(n + 1)
    BY <1>2 DEF WholeNumbers, Posted
  <2>2. ASSUME NEW i \in DOMAIN journal' PROVE Sound(journal'[i].legs)
    <3>1. CASE i = n + 1
      BY <1>2, <3>1 DEF Posted
    <3>2. CASE i \in 1..n
      <4>1. Sound(journal[i].legs)
        BY <2>1, <3>2 DEF WholeNumbers
      <4> QED BY <1>2, <3>2, <4>1 DEF Posted
    <3> QED BY <2>1, <3>1, <3>2
  <2>3. journal' \in Seq(Events) /\ IsPosition(position') /\ cash' \in Nat
    BY <1>2 DEF Posted
  <2> QED BY <2>2, <2>3, PreviewsStep DEF WholeNumbers
<1> QED BY <1>1, <1>2, StepShape

\* Shares and cash are whole numbers, never below zero, and every event in the
\* journal has sound legs: what _apply_projections refuses is never posted, not
\* even on a stale preview.
THEOREM NothingHeldShort == Spec => []WholeNumbers
BY WholeNumbersInit, WholeNumbersStep, PTL DEF Spec

-----------------------------------------------------------------------------
(* Shares, cash and the journal *)

JournalTotals ==
  /\ Totals(Quantities, Len(journal), position.quantity)
  /\ Totals(Payments, Len(journal), cash)

LEMMA TotalsInit == Init => JournalTotals
<1> SUFFICES ASSUME Init PROVE JournalTotals
  OBVIOUS
<1>1. Len(journal) = 0 /\ position.quantity = 0 /\ cash = 0
  BY DEF Init, NoPosition
<1> QED BY <1>1, NothingTotals DEF JournalTotals

LEMMA TotalsStep == WholeNumbers /\ JournalTotals /\ [Next]_vars => JournalTotals'
<1> SUFFICES ASSUME WholeNumbers, JournalTotals, [Next]_vars PROVE JournalTotals'
  OBVIOUS
<1>1. CASE Untouched
  BY <1>1 DEF Untouched, JournalTotals, Quantities, Payments
<1>2. ASSUME NEW e, Posted(e) PROVE JournalTotals'
  <2> DEFINE n == Len(journal)
             moved == Quantities
             moved1 == Quantities'
             paid == Payments
             paid1 == Payments'
  <2>1. /\ n \in Nat /\ DOMAIN journal = 1..n /\ DOMAIN journal' = 1..(n + 1)
        /\ Len(journal') = n + 1 /\ journal'[n + 1] = e
        /\ \A i \in 1..n : journal'[i].legs = journal[i].legs
    BY <1>2 DEF WholeNumbers, Posted
  <2>2. moved1[n + 1] = e.legs.quantity /\ \A i \in 1..n : moved1[i] = moved[i]
    BY <2>1 DEF Quantities
  <2>3. paid1[n + 1] = e.legs.cash /\ \A i \in 1..n : paid1[i] = paid[i]
    BY <2>1 DEF Payments
  <2>4. Totals(moved, n, position.quantity) /\ Totals(paid, n, cash)
    BY DEF JournalTotals
  <2>5. position'.quantity = position.quantity + e.legs.quantity /\ cash' = cash + e.legs.cash
    BY <1>2 DEF Posted
  <2> HIDE DEF n, moved, moved1, paid, paid1
  <2>6. Totals(moved1, n, position.quantity) /\ Totals(paid1, n, cash)
    BY <2>1, <2>2, <2>3, <2>4, TotalsOfSame
  <2>7. /\ Totals(moved1, n + 1, position.quantity + moved1[n + 1])
        /\ Totals(paid1, n + 1, cash + paid1[n + 1])
    BY <2>1, <2>6, TotalsOfMore
  <2> QED BY <2>1, <2>2, <2>3, <2>5, <2>7 DEF JournalTotals, moved1, paid1
<1> QED BY <1>1, <1>2, StepShape

\* However sessions race, and whatever a stale preview makes of the average cost,
\* shares and cash are the sums of the journal.
THEOREM SharesAndCashAreTheJournalsSums == Spec => []SharesAndCashAreSums
<1>1. WholeNumbers /\ JournalTotals => SharesAndCashAreSums
  <2> SUFFICES ASSUME WholeNumbers, JournalTotals PROVE SharesAndCashAreSums
    OBVIOUS
  <2>1. Len(journal) \in Nat
    BY DEF WholeNumbers
  <2> QED BY <2>1, TotalIsSum DEF JournalTotals, SharesAndCashAreSums
<1> QED BY <1>1, TotalsInit, TotalsStep, NothingHeldShort, PTL DEF Spec

-----------------------------------------------------------------------------
(* Applications *)

\* The applications are a list, and no action is in it twice.
AppliedList == (\E S : applications \in Seq(S)) /\ AppliedAtMostOnce

LEMMA AppliedInit == Init => AppliedList
<1> SUFFICES ASSUME Init PROVE AppliedList
  OBVIOUS
<1>1. applications = << >>
  BY DEF Init
<1>2. applications \in Seq({}) /\ DOMAIN applications = {}
  BY <1>1
<1> QED BY <1>2 DEF AppliedList, AppliedAtMostOnce

LEMMA AppliedStep == AppliedList /\ [Next]_vars => AppliedList'
<1> SUFFICES ASSUME AppliedList, [Next]_vars PROVE AppliedList'
  OBVIOUS
<1>1. CASE applications' = applications
  BY <1>1 DEF AppliedList, AppliedAtMostOnce
<1>2. ASSUME NEW w \in Workers, ApplyCorporateAction(w) PROVE AppliedList'
  <2> DEFINE p == preview[w]
             row == [action |-> p.action, quantity |-> p.quantity, average |-> p.average]
  <2>1. applications' = Append(applications, row) /\ FirstApplication(p.action)
    BY <1>2 DEF ApplyCorporateAction
  <2>2. row.action = p.action
    OBVIOUS
  <2> HIDE DEF row, p
  <2>3. PICK S : applications \in Seq(S)
    BY DEF AppliedList
  <2>4. applications \in Seq(S \cup {row})
    BY <2>3
  <2>5. /\ applications' \in Seq(S \cup {row})
        /\ DOMAIN applications' = DOMAIN applications \cup {Len(applications) + 1}
        /\ applications'[Len(applications) + 1] = row
        /\ Len(applications) + 1 \notin DOMAIN applications
        /\ \A k \in DOMAIN applications : applications'[k] = applications[k]
    BY <2>1, <2>4
  <2>6. AppliedAtMostOnce'
    BY <2>1, <2>2, <2>5 DEF AppliedList, AppliedAtMostOnce, FirstApplication
  <2> QED BY <2>5, <2>6 DEF AppliedList
<1>3. ASSUME NEW w \in Workers, NEW tx \in Orders, NEW t \in Moments, RecordTransaction(w, tx, t)
      PROVE  applications' = applications
  BY <1>3 DEF RecordTransaction
<1>4. ASSUME NEW w \in Workers, NEW tx \in Orders, RefuseTransaction(w, tx)
      PROVE  applications' = applications
  BY <1>4 DEF RefuseTransaction, vars
<1>5. ASSUME NEW w \in Workers, NEW i \in DOMAIN journal, ReverseTransaction(w, i)
      PROVE  applications' = applications
  BY <1>5 DEF ReverseTransaction
<1>6. ASSUME NEW w \in Workers, NEW a \in Actions, PreviewApplication(w, a)
      PROVE  applications' = applications
  BY <1>6 DEF PreviewApplication
<1>7. ASSUME NEW w \in Workers, AbandonApplication(w) PROVE applications' = applications
  BY <1>7 DEF AbandonApplication
<1>8. ASSUME NEW a \in Actions, RecordCorporateAction(a) PROVE applications' = applications
  BY <1>8 DEF RecordCorporateAction
<1>9. CASE Tick \/ UNCHANGED vars
  BY <1>1, <1>9 DEF Tick, vars
<1> QED BY <1>1, <1>2, <1>3, <1>4, <1>5, <1>6, <1>7, <1>8, <1>9 DEF Next

\* Any number of sessions may have previewed an action: it is applied to the book
\* at most once.
THEOREM ActionsApplyOnce == Spec => []AppliedAtMostOnce
<1>1. AppliedList => AppliedAtMostOnce
  BY DEF AppliedList
<1> QED BY <1>1, AppliedInit, AppliedStep, PTL DEF Spec

\* So racing applications and trades keep the book, for any orders, corporate
\* actions and number of sessions.
THEOREM RacesAreSafe == Spec => []RacesKeepTheBook
<1>1. SharesAndCashAreSums /\ AppliedAtMostOnce => RacesKeepTheBook
  BY DEF RacesKeepTheBook
<1> QED BY <1>1, SharesAndCashAreTheJournalsSums, ActionsApplyOnce, PTL

-----------------------------------------------------------------------------
(* Products and quotients *)

LEMMA ProductType == \A a, b \in Int : a * b \in Int
OBVIOUS

LEMMA NaturalProduct == \A a, b \in Nat : a * b \in Nat
OBVIOUS

LEMMA PositiveProduct == \A a, b \in Nat \ {0} : a * b \in Nat \ {0}
OBVIOUS

LEMMA Commutes == \A a, b \in Int : a * b = b * a
OBVIOUS

LEMMA Associates == \A a, b, c \in Int : a * (b * c) = (a * b) * c
OBVIOUS

LEMMA Distributes == \A a, b, c \in Int : a * (b + c) = a * b + a * c /\ (b + c) * a = b * a + c * a
OBVIOUS

LEMMA DistributesMinus == \A a, b, c \in Int : a * (b - c) = a * b - a * c /\ (b - c) * a = b * a - c * a
OBVIOUS

LEMMA Grows == \A a, b, c \in Int : (a <= b /\ 0 <= c) => (c * a <= c * b /\ a * c <= b * c)
OBVIOUS

LEMMA Cancels == \A a, b, c \in Int : (c # 0 /\ c * a = c * b) => a = b
OBVIOUS

\* A quotient and a remainder are what they are.
LEMMA DivisionIs ==
  ASSUME NEW a \in Int, NEW b \in Nat \ {0}
  PROVE  /\ a \div b \in Int /\ a % b \in Nat /\ a % b < b
         /\ a = b * (a \div b) + (a % b)
OBVIOUS

LEMMA DivisionIsOne ==
  ASSUME NEW a \in Int, NEW b \in Nat \ {0}, NEW q \in Int, NEW r \in Nat, r < b, a = b * q + r
  PROVE  a \div b = q /\ a % b = r
<1>1. /\ a \div b \in Int /\ a % b \in Nat /\ a % b < b
      /\ a = b * (a \div b) + (a % b)
  BY DivisionIs
<1>2. PICK p \in Int, s \in Nat : p = a \div b /\ s = a % b
  BY <1>1
<1>3. s < b /\ b * q + r = b * p + s
  BY <1>1, <1>2
<1>4. b * q \in Int /\ b * p \in Int
  BY ProductType
<1>5. ~(q <= p - 1)
  <2> SUFFICES ASSUME q <= p - 1 PROVE FALSE
    OBVIOUS
  <2>1. b * q <= b * (p - 1) /\ b * (p - 1) = b * p - b
    BY Grows, DistributesMinus
  <2> QED
    BY <1>3, <1>4, <2>1
<1>6. ~(p <= q - 1)
  <2> SUFFICES ASSUME p <= q - 1 PROVE FALSE
    OBVIOUS
  <2>1. b * p <= b * (q - 1) /\ b * (q - 1) = b * q - b
    BY Grows, DistributesMinus
  <2> QED
    BY <1>3, <1>4, <2>1
<1>7. p = q
  BY <1>5, <1>6
<1>8. s = r
  BY <1>3, <1>4, <1>7
<1> QED
  BY <1>2, <1>7, <1>8

-----------------------------------------------------------------------------
(* The greatest common divisor *)

\* g divides a.
Divides(g, a) == \E m \in Nat : a = g * m

\* What gcd is defined by.
IsGcd(f) == f = [p \in Nat \X Nat |-> IF p[2] = 0 THEN p[1] ELSE f[<<p[2], p[1] % p[2]>>]]

Common(a, b) == {g \in Nat \ {0} : Divides(g, a) /\ Divides(g, b)}

\* The same divisors, a remainder on.
LEMMA CommonIsKept ==
  ASSUME NEW a \in Nat, NEW b \in Nat \ {0}
  PROVE  Common(a, b) = Common(b, a % b)
<1> DEFINE q == a \div b
           r == a % b
<1>1. q \in Nat /\ r \in Nat /\ a = b * q + r
  BY DivisionIs
<1>2. ASSUME NEW g \in Nat \ {0}, Divides(g, a), Divides(g, b)
      PROVE  Divides(g, r)
  <2>1. PICK m \in Nat, n \in Nat : a = g * m /\ b = g * n
    BY <1>2 DEF Divides
  <2> HIDE DEF q, r
  <2>2. n * q \in Int /\ m - n * q \in Int
    BY <1>1
  <2>3. b * q = g * (n * q)
    BY <1>1, <2>1, Associates
  <2>4. r = g * m - g * (n * q)
    BY <1>1, <2>1, <2>2, <2>3
  <2>5. r = g * (m - n * q)
    BY <2>2, <2>4, DistributesMinus
  <2>6. m - n * q >= 0
    <3> SUFFICES ASSUME m - n * q <= -1 PROVE FALSE
      BY <2>2
    <3>1. g * (m - n * q) <= g * (-1)
      BY <2>2, Grows
    <3> QED
      BY <1>1, <2>5, <3>1
  <2>7. PICK e \in Nat : e = m - n * q
    BY <2>2, <2>6
  <2>8. r = g * e
    BY <2>5, <2>7
  <2> QED
    BY <2>8 DEF Divides
<1>3. ASSUME NEW g \in Nat \ {0}, Divides(g, b), Divides(g, r)
      PROVE  Divides(g, a)
  <2>1. PICK m \in Nat, n \in Nat : b = g * m /\ r = g * n
    BY <1>3 DEF Divides
  <2> HIDE DEF q, r
  <2>2. m * q \in Nat /\ m * q + n \in Nat
    BY <1>1
  <2>3. b * q = g * (m * q)
    BY <1>1, <2>1, Associates
  <2>4. a = g * (m * q + n)
    BY <1>1, <2>1, <2>2, <2>3, Distributes
  <2> QED
    BY <2>2, <2>4 DEF Divides
<1> QED
  BY <1>2, <1>3 DEF Common

LEMMA GcdExists == \E f : IsGcd(f)
<1> DEFINE f == [p \in Nat \X Nat |-> IF p[2] = 0 THEN p[1] ELSE
                                      CHOOSE g \in Common(p[1], p[2]) : \A h \in Common(p[1], p[2]) : h <= g]
           Greatest(S) == CHOOSE g \in S : \A h \in S : h <= g
<1>1. ASSUME NEW a \in Nat, NEW b \in Nat \ {0}
      PROVE  f[<<a, b>>] = f[<<b, a % b>>]
  <2>1. a % b \in Nat
    BY DivisionIs
  <2>2. f[<<a, b>>] = Greatest(Common(a, b))
    OBVIOUS
  <2>3. CASE a % b # 0
    <3>1. f[<<b, a % b>>] = Greatest(Common(b, a % b))
      BY <2>1, <2>3
    <3> QED
      BY <2>2, <3>1, CommonIsKept
  <2>4. CASE a % b = 0
    <3>1. f[<<b, a % b>>] = b
      BY <2>4
    <3>2. Common(a, b) = Common(b, 0)
      BY <2>4, CommonIsKept
    <3>3. b \in Common(b, 0) /\ \A h \in Common(b, 0) : h <= b
      <4>1. Divides(b, b) /\ Divides(b, 0)
        <5>1. b = b * 1 /\ 0 = b * 0
          OBVIOUS
        <5> QED
          BY <5>1 DEF Divides
      <4>2. ASSUME NEW h \in Nat \ {0}, Divides(h, b) PROVE h <= b
        <5>1. PICK m \in Nat : b = h * m
          BY <4>2 DEF Divides
        <5>2. m # 0
          BY <5>1
        <5>3. h * 1 <= h * m
          BY <5>2, Grows
        <5> QED
          BY <5>1, <5>3
      <4> QED
        BY <4>1, <4>2 DEF Common
    <3>4. Greatest(Common(b, 0)) = b
      <4>1. \A g \in Common(b, 0) : (\A h \in Common(b, 0) : h <= g) => g = b
        BY <3>3 DEF Common
      <4> QED
        BY <3>3, <4>1
    <3> QED
      BY <2>2, <3>1, <3>2, <3>4
  <2> QED
    BY <2>3, <2>4
<1>2. ASSUME NEW p \in Nat \X Nat
      PROVE  f[p] = IF p[2] = 0 THEN p[1] ELSE f[<<p[2], p[1] % p[2]>>]
  <2>1. PICK a \in Nat, b \in Nat : p = <<a, b>>
    OBVIOUS
  <2>2. CASE b = 0
    BY <2>1, <2>2
  <2>3. CASE b # 0
    <3> HIDE DEF f
    <3> QED
      BY <1>1, <2>1, <2>3
  <2> QED
    BY <2>2, <2>3
<1>3. f = [p \in Nat \X Nat |-> f[p]]
  OBVIOUS
<1> HIDE DEF f
<1> QED
  BY <1>2, <1>3 DEF IsGcd

LEMMA GcdStep ==
  ASSUME NEW a \in Nat, NEW b \in Nat
  PROVE  gcd[<<a, b>>] = IF b = 0 THEN a ELSE gcd[<<b, a % b>>]
<1>1. PICK f : IsGcd(f)
  BY GcdExists
<1>2. IsGcd(gcd)
  BY <1>1, Zenon DEF IsGcd, gcd
<1>3. PICK g : g = gcd
  OBVIOUS
<1>4. g = [p \in Nat \X Nat |-> IF p[2] = 0 THEN p[1] ELSE g[<<p[2], p[1] % p[2]>>]]
  BY <1>2, <1>3 DEF IsGcd
<1>5. g[<<a, b>>] = IF b = 0 THEN a ELSE g[<<b, a % b>>]
  BY <1>4
<1> QED
  BY <1>3, <1>5

\* What is kept by every step of the algorithm holds of every pair: induction on
\* the second number, by the least that refutes it.
LEMMA GcdDivides ==
  ASSUME NEW a \in Nat, NEW b \in Nat, a # 0 \/ b # 0
  PROVE  /\ gcd[<<a, b>>] \in Nat \ {0}
         /\ Divides(gcd[<<a, b>>], a) /\ Divides(gcd[<<a, b>>], b)
<1> DEFINE Right(x, y) == /\ gcd[<<x, y>>] \in Nat \ {0}
                          /\ Divides(gcd[<<x, y>>], x) /\ Divides(gcd[<<x, y>>], y)
           Bad == {y \in Nat : \E x \in Nat : (x # 0 \/ y # 0) /\ ~Right(x, y)}
<1> SUFFICES ASSUME Bad # {} PROVE FALSE
  OBVIOUS
<1>1. PICK y \in Bad : \A z \in Bad : y <= z
  BY LeastNatural
<1>2. PICK x \in Nat : (x # 0 \/ y # 0) /\ ~Right(x, y)
  OBVIOUS
<1>3. CASE y = 0
  <2>1. gcd[<<x, y>>] = x
    BY <1>3, GcdStep
  <2>2. x = x * 1 /\ y = x * 0
    BY <1>3
  <2> QED
    BY <1>2, <1>3, <2>1, <2>2 DEF Divides
<1>4. CASE y # 0
  <2>1. x % y \in Nat /\ x % y < y
    BY <1>4, DivisionIs
  <2>2. Right(y, x % y)
    <3>1. x % y \notin Bad
      BY <1>1, <2>1
    <3> HIDE DEF Right
    <3> QED
      BY <1>4, <2>1, <3>1
  <2>3. gcd[<<x, y>>] = gcd[<<y, x % y>>]
    BY <1>4, GcdStep
  <2>4. gcd[<<x, y>>] \in Common(y, x % y)
    BY <2>2, <2>3 DEF Common
  <2>5. gcd[<<x, y>>] \in Common(x, y)
    BY <1>4, <2>4, CommonIsKept
  <2> QED
    BY <1>2, <2>5 DEF Common
<1> QED
  BY <1>3, <1>4

LEMMA GcdScaled ==
  ASSUME NEW a \in Nat, NEW b \in Nat, a # 0 \/ b # 0, NEW k \in Nat \ {0}
  PROVE  gcd[<<k * a, k * b>>] = k * gcd[<<a, b>>]
<1> DEFINE Right(x, y) == gcd[<<k * x, k * y>>] = k * gcd[<<x, y>>]
           Bad == {y \in Nat : \E x \in Nat : (x # 0 \/ y # 0) /\ ~Right(x, y)}
<1> SUFFICES ASSUME Bad # {} PROVE FALSE
  OBVIOUS
<1>1. PICK y \in Bad : \A z \in Bad : y <= z
  BY LeastNatural
<1>2. PICK x \in Nat : (x # 0 \/ y # 0) /\ ~Right(x, y)
  OBVIOUS
<1>3. CASE y = 0
  <2>1. k * y = 0 /\ k * x \in Nat
    BY <1>3
  <2>2. gcd[<<k * x, k * y>>] = k * x /\ gcd[<<x, y>>] = x
    BY <1>3, <2>1, GcdStep
  <2> QED
    BY <1>2, <2>2
<1>4. CASE y # 0
  <2>1. x % y \in Nat /\ x % y < y /\ x \div y \in Int /\ x = y * (x \div y) + (x % y)
    BY <1>4, DivisionIs
  <2>2. PICK r \in Nat, q \in Int : r = x % y /\ q = x \div y
    BY <2>1
  <2>3. Right(y, r)
    <3>a. r < y
      BY <2>1, <2>2
    <3>b. y \in Nat
      OBVIOUS
    <3>1. r \notin Bad
      <4> HIDE DEF Bad
      <4> QED
        BY <1>1, <3>a, <3>b
    <3> HIDE DEF Right
    <3> QED
      BY <1>4, <2>1, <3>1
  <2>4. k * x \in Nat /\ k * y \in Nat \ {0} /\ k * r \in Nat /\ y * q \in Int
    BY <1>4, PositiveProduct, NaturalProduct, ProductType
  <2>5. k * x = (k * y) * q + k * r
    <3>1. k * x = k * (y * q) + k * r
      BY <2>1, <2>2, <2>4, Distributes
    <3> QED
      BY <3>1, Associates
  <2>6. k * r < k * y
    <3>1. k * r <= k * (y - 1) /\ k * (y - 1) = k * y - k
      BY <2>1, <2>2, Grows, DistributesMinus
    <3> QED
      BY <2>4, <3>1
  <2>7. (k * x) % (k * y) = k * r
    <3>1. PICK dividend \in Nat, divisor \in Nat \ {0}, rest \in Nat :
            dividend = k * x /\ divisor = k * y /\ rest = k * r
      BY <2>4
    <3>2. dividend = divisor * q + rest /\ rest < divisor
      BY <2>5, <2>6, <3>1
    <3>3. dividend % divisor = rest
      BY <3>2, DivisionIsOne
    <3> QED
      BY <3>1, <3>3
  <2>8. gcd[<<k * x, k * y>>] = gcd[<<k * y, k * r>>]
    BY <2>4, <2>7, GcdStep
  <2>9. gcd[<<x, y>>] = gcd[<<y, r>>]
    BY <1>4, <2>2, GcdStep
  <2> QED
    BY <1>2, <2>3, <2>8, <2>9
<1> QED
  BY <1>3, <1>4

-----------------------------------------------------------------------------
(* Fractions *)

IsFraction(x) == x = [num |-> x.num, den |-> x.den] /\ x.num \in Int /\ x.den \in Nat \ {0}

\* A quotient that is exact.
LEMMA ExactDivision ==
  ASSUME NEW g \in Nat \ {0}, NEW m \in Int
  PROVE  (g * m) \div g = m
<1>1. g * m \in Int /\ g * m = g * m + 0
  BY ProductType
<1> QED
  BY <1>1, DivisionIsOne

LEMMA FractionParts ==
  ASSUME NEW n \in Int, NEW d \in Nat \ {0}
  PROVE  \E g \in Nat \ {0}, u \in Int, v \in Nat \ {0} :
           /\ g = gcd[<<Magnitude(n), d>>] /\ n = g * u /\ d = g * v
           /\ Fraction(n, d) = [num |-> u, den |-> v]
<1>1. Magnitude(n) \in Nat /\ Magnitude(d) = d /\ (n = Magnitude(n) \/ n = -Magnitude(n))
  BY DEF Magnitude
<1>2. PICK g \in Nat \ {0} : g = gcd[<<Magnitude(n), d>>] /\ Divides(g, Magnitude(n)) /\ Divides(g, d)
  BY <1>1, GcdDivides
<1>3. PICK m \in Nat, v \in Nat : Magnitude(n) = g * m /\ d = g * v
  BY <1>2 DEF Divides
<1>4. v # 0
  BY <1>3
<1>5. PICK u \in Int : n = g * u
  <2>1. CASE n = Magnitude(n)
    BY <1>3, <2>1
  <2>2. CASE n = -Magnitude(n)
    <3>1. g * m \in Int /\ -m \in Int /\ g * (-m) = -(g * m)
      BY ProductType
    <3> QED
      BY <1>3, <2>2, <3>1
  <2> QED
    BY <1>1, <2>1, <2>2
<1>6. n \div g = u /\ d \div g = v
  BY <1>3, <1>5, ExactDivision
<1>7. Fraction(n, d) = [num |-> n \div g, den |-> d \div g]
  <2>1. Fraction(n, d) = [num |-> 1 * (n \div g), den |-> 1 * (d \div g)]
    BY <1>1, <1>2 DEF Fraction
  <2>2. 1 * (n \div g) = n \div g /\ 1 * (d \div g) = d \div g
    BY <1>6
  <2> QED
    BY <2>1, <2>2
<1> QED
  BY <1>2, <1>3, <1>4, <1>5, <1>6, <1>7

\* A fraction, and its value.
LEMMA FractionIs ==
  ASSUME NEW n \in Int, NEW d \in Nat \ {0}
  PROVE  IsFraction(Fraction(n, d)) /\ Fraction(n, d).num * d = n * Fraction(n, d).den
<1>1. PICK g \in Nat \ {0}, u \in Int, v \in Nat \ {0} :
        /\ g = gcd[<<Magnitude(n), d>>] /\ n = g * u /\ d = g * v
        /\ Fraction(n, d) = [num |-> u, den |-> v]
  BY FractionParts
<1>2. u * (g * v) = (g * u) * v
  BY <1>1, Associates, Commutes
<1>3. u * d = n * v
  BY <1>1, <1>2
<1> QED
  BY <1>1, <1>3 DEF IsFraction

LEMMA FractionScaled ==
  ASSUME NEW n \in Int, NEW d \in Nat \ {0}, NEW k \in Nat \ {0}
  PROVE  Fraction(k * n, k * d) = Fraction(n, d)
<1>1. k * n \in Int /\ k * d \in Nat \ {0}
  BY ProductType, PositiveProduct
<1>2. PICK g \in Nat \ {0}, u \in Int, v \in Nat \ {0} :
        /\ g = gcd[<<Magnitude(n), d>>] /\ n = g * u /\ d = g * v
        /\ Fraction(n, d) = [num |-> u, den |-> v]
  BY FractionParts
<1>3. PICK h \in Nat \ {0}, x \in Int, y \in Nat \ {0} :
        /\ h = gcd[<<Magnitude(k * n), k * d>>] /\ k * n = h * x /\ k * d = h * y
        /\ Fraction(k * n, k * d) = [num |-> x, den |-> y]
  BY <1>1, FractionParts
<1>4. Magnitude(n) \in Nat /\ Magnitude(k * n) = k * Magnitude(n)
  <2>1. CASE n < 0
    <3>1. k * n <= k * (-1) /\ -(k * n) = k * (-n)
      BY <1>1, <2>1, Grows
    <3> QED
      BY <1>1, <2>1, <3>1 DEF Magnitude
  <2>2. CASE ~(n < 0)
    <3>1. k * 0 <= k * n
      BY <2>2, Grows
    <3> QED
      BY <1>1, <2>2, <3>1 DEF Magnitude
  <2> QED
    BY <2>1, <2>2
<1>5. h = k * g
  <2>1. PICK m \in Nat : m = Magnitude(n)
    BY <1>4
  <2>2. gcd[<<k * m, k * d>>] = k * gcd[<<m, d>>]
    BY GcdScaled
  <2>3. h = gcd[<<k * m, k * d>>] /\ g = gcd[<<m, d>>]
    BY <1>2, <1>3, <1>4, <2>1
  <2> QED
    BY <2>2, <2>3
<1>6. (k * g) * u = (k * g) * x /\ (k * g) * v = (k * g) * y
  <2>1. k * (g * u) = (k * g) * u /\ k * (g * v) = (k * g) * v
    BY Associates
  <2>2. k * n = (k * g) * u /\ k * d = (k * g) * v
    BY <1>2, <2>1
  <2>3. k * n = (k * g) * x /\ k * d = (k * g) * y
    BY <1>3, <1>5
  <2> QED
    BY <2>2, <2>3
<1>7. k * g \in Int /\ k * g # 0
  BY PositiveProduct
<1>8. x = u /\ y = v
  BY <1>6, <1>7, Cancels
<1> QED
  BY <1>2, <1>3, <1>8

\* Equal quotients are one fraction.
LEMMA FractionsAreEqual ==
  ASSUME NEW n \in Int, NEW d \in Nat \ {0}, NEW m \in Int, NEW e \in Nat \ {0}, n * e = m * d
  PROVE  Fraction(n, d) = Fraction(m, e)
<1>1. Fraction(e * n, e * d) = Fraction(n, d) /\ Fraction(d * m, d * e) = Fraction(m, e)
  BY FractionScaled
<1>2. e * n = d * m /\ e * d = d * e
  BY Commutes
<1> QED
  BY <1>1, <1>2

\* x, in units of which there are `scale' in one, is `amount' of them.
Measures(x, scale, amount) == IsFraction(x) /\ amount \in Int /\ x.num * scale = amount * x.den

\* In units that are small enough the value of a fraction is a whole number.
LEMMA EveryFractionMeasures ==
  ASSUME NEW x, IsFraction(x), NEW k \in Nat \ {0}
  PROVE  Measures(x, x.den * k, x.num * k) /\ Measures(x, k * x.den, k * x.num)
<1>1. PICK n \in Int, d \in Nat \ {0} : n = x.num /\ d = x.den
  BY DEF IsFraction
<1>2. n * k \in Int /\ k * n \in Int
  BY ProductType
<1>3. n * (d * k) = (n * k) * d /\ n * (k * d) = (k * n) * d
  BY Associates, Commutes
<1> QED
  BY <1>1, <1>2, <1>3 DEF Measures

LEMMA FractionMeasures ==
  ASSUME NEW n \in Int, NEW d \in Nat \ {0}, NEW scale \in Nat \ {0}, NEW amount \in Int, n * scale = amount * d
  PROVE  Measures(Fraction(n, d), scale, amount)
<1>1. PICK x : x = Fraction(n, d)
  OBVIOUS
<1>2. IsFraction(x) /\ x.num * d = n * x.den
  BY <1>1, FractionIs
<1>3. PICK u \in Int, v \in Nat \ {0} : u = x.num /\ v = x.den
  BY <1>2 DEF IsFraction
<1>4. u * scale \in Int /\ amount * v \in Int
  BY ProductType
<1>5. d * (u * scale) = d * (amount * v)
  <2>1. d * (u * scale) = (u * d) * scale
    BY Associates, Commutes
  <2>2. (u * d) * scale = (n * v) * scale
    BY <1>2, <1>3
  <2>3. (n * v) * scale = (n * scale) * v
    BY Associates, Commutes
  <2>4. (n * scale) * v = (amount * d) * v
    OBVIOUS
  <2>5. (amount * d) * v = d * (amount * v)
    BY Associates, Commutes
  <2> QED
    BY <2>1, <2>2, <2>3, <2>4, <2>5
<1>6. u * scale = amount * v
  BY <1>4, <1>5, Cancels
<1> QED
  BY <1>1, <1>2, <1>3, <1>6 DEF Measures

LEMMA WholeMeasures ==
  ASSUME NEW n \in Int, NEW scale \in Nat \ {0}
  PROVE  Measures(Whole(n), scale, n * scale)
<1>1. n * scale \in Int /\ n * scale = (n * scale) * 1
  BY ProductType
<1> QED
  BY <1>1 DEF Measures, IsFraction, Whole

LEMMA PlusMeasures ==
  ASSUME NEW scale \in Nat \ {0}, NEW x, NEW a, Measures(x, scale, a), NEW y, NEW b, Measures(y, scale, b)
  PROVE  /\ Measures(Plus(x, y), scale, a + b)
         /\ Measures(Minus(x, y), scale, a - b)
<1>1. PICK n \in Int, d \in Nat \ {0}, m \in Int, e \in Nat \ {0} :
        n = x.num /\ d = x.den /\ m = y.num /\ e = y.den
  BY DEF Measures, IsFraction
<1>2. a \in Int /\ b \in Int /\ n * scale = a * d /\ m * scale = b * e
  BY <1>1 DEF Measures
<1>3. n * e \in Int /\ m * d \in Int /\ d * e \in Nat \ {0} /\ (n * e) * scale \in Int /\ (m * d) * scale \in Int
      /\ a * (d * e) \in Int /\ b * (d * e) \in Int
  BY <1>2, ProductType, PositiveProduct
<1>4. (n * e) * scale = a * (d * e)
  <2>1. (n * e) * scale = (n * scale) * e
    BY Associates, Commutes
  <2>2. (a * d) * e = a * (d * e)
    BY <1>2, Associates
  <2> QED
    BY <1>2, <2>1, <2>2
<1>5. (m * d) * scale = b * (d * e)
  <2>1. (m * d) * scale = (m * scale) * d
    BY Associates, Commutes
  <2>2. (b * e) * d = b * (d * e)
    BY <1>2, Associates, Commutes
  <2> QED
    BY <1>2, <2>1, <2>2
<1>6. (n * e + m * d) * scale = (a + b) * (d * e)
  BY <1>2, <1>3, <1>4, <1>5, Distributes
<1>7. (n * e - m * d) * scale = (a - b) * (d * e)
  BY <1>2, <1>3, <1>4, <1>5, DistributesMinus
<1>8. Measures(Fraction(n * e + m * d, d * e), scale, a + b)
  <2>1. PICK p \in Int, q \in Nat \ {0} : p = n * e + m * d /\ q = d * e
    BY <1>3
  <2>2. a + b \in Int /\ p * scale = (a + b) * q
    BY <1>2, <1>6, <2>1
  <2> QED
    BY <2>1, <2>2, FractionMeasures
<1>9. Measures(Fraction(n * e - m * d, d * e), scale, a - b)
  <2>1. PICK p \in Int, q \in Nat \ {0} : p = n * e - m * d /\ q = d * e
    BY <1>3
  <2>2. a - b \in Int /\ p * scale = (a - b) * q
    BY <1>2, <1>7, <2>1
  <2> QED
    BY <2>1, <2>2, FractionMeasures
<1> QED
  BY <1>1, <1>8, <1>9 DEF Plus, Minus

LEMMA TimesMeasures ==
  ASSUME NEW scale \in Nat \ {0}, NEW x, NEW a, Measures(x, scale, a), NEW k \in Int
  PROVE  Measures(Times(x, k), scale, a * k)
<1>1. PICK n \in Int, d \in Nat \ {0} : n = x.num /\ d = x.den
  BY DEF Measures, IsFraction
<1>2. a \in Int /\ n * scale = a * d
  BY <1>1 DEF Measures
<1>3. n * k \in Int /\ a * k \in Int
  BY <1>2, ProductType
<1>4. (n * k) * scale = (a * k) * d
  <2>1. (n * k) * scale = (n * scale) * k
    BY Associates, Commutes
  <2>2. (a * d) * k = (a * k) * d
    BY <1>2, Associates, Commutes
  <2> QED
    BY <1>2, <2>1, <2>2
<1>5. Measures(Fraction(n * k, d), scale, a * k)
  BY <1>3, <1>4, FractionMeasures
<1> QED
  BY <1>1, <1>5 DEF Times

LEMMA OverMeasures ==
  ASSUME NEW scale \in Nat \ {0}, NEW k \in Nat \ {0}, NEW a \in Int, NEW x, Measures(x, scale, a * k)
  PROVE  Measures(Over(x, k), scale, a)
<1>1. PICK n \in Int, d \in Nat \ {0} : n = x.num /\ d = x.den
  BY DEF Measures, IsFraction
<1>2. n * scale = (a * k) * d
  BY <1>1 DEF Measures
<1>3. d * k \in Nat \ {0}
  BY PositiveProduct
<1>4. n * scale = a * (d * k)
  BY <1>2, Associates, Commutes
<1>5. Measures(Fraction(n, d * k), scale, a)
  BY <1>3, <1>4, FractionMeasures
<1> QED
  BY <1>1, <1>5 DEF Over

\* In lowest terms a value is one fraction.
Lowest(x) == IsFraction(x) /\ x = Fraction(x.num, x.den)

LEMMA FractionIsLowest ==
  ASSUME NEW n \in Int, NEW d \in Nat \ {0}
  PROVE  Lowest(Fraction(n, d))
<1>1. PICK x : x = Fraction(n, d)
  OBVIOUS
<1>2. IsFraction(x) /\ x.num * d = n * x.den
  BY <1>1, FractionIs
<1>3. PICK u \in Int, v \in Nat \ {0} : u = x.num /\ v = x.den
  BY <1>2 DEF IsFraction
<1>4. Fraction(u, v) = Fraction(n, d)
  BY <1>2, <1>3, FractionsAreEqual
<1> QED
  BY <1>1, <1>2, <1>3, <1>4 DEF Lowest

LEMMA WholeIsLowest ==
  ASSUME NEW n \in Int
  PROVE  Lowest(Whole(n))
<1>1. PICK d \in Nat \ {0} : d = 1
  OBVIOUS
<1>2. PICK g \in Nat \ {0}, u \in Int, v \in Nat \ {0} :
        /\ g = gcd[<<Magnitude(n), d>>] /\ n = g * u /\ d = g * v
        /\ Fraction(n, d) = [num |-> u, den |-> v]
  BY FractionParts
<1>3. g = 1 /\ v = 1
  <2>1. g * 1 <= g * v /\ v * 1 <= v * g /\ g * v = v * g
    BY Grows, Commutes
  <2> QED
    BY <1>1, <1>2, <2>1
<1>4. u = n
  BY <1>2, <1>3
<1> QED
  BY <1>1, <1>2, <1>3, <1>4 DEF Lowest, Whole, IsFraction

LEMMA MeasuresTell ==
  ASSUME NEW scale \in Nat \ {0}, NEW a, NEW x, Lowest(x), Measures(x, scale, a),
         NEW y, Lowest(y), Measures(y, scale, a)
  PROVE  x = y
<1>1. PICK n \in Int, d \in Nat \ {0}, m \in Int, e \in Nat \ {0} :
        n = x.num /\ d = x.den /\ m = y.num /\ e = y.den
  BY DEF Measures, IsFraction
<1>2. a \in Int /\ n * scale = a * d /\ m * scale = a * e
  BY <1>1 DEF Measures
<1>3. scale * (n * e) = scale * (m * d)
  <2>1. scale * (n * e) = (n * scale) * e /\ scale * (m * d) = (m * scale) * d
    BY Associates, Commutes
  <2>2. (a * d) * e = (a * e) * d
    BY <1>2, Associates, Commutes
  <2> QED
    BY <1>2, <2>1, <2>2
<1>4. n * e = m * d
  <2>1. n * e \in Int /\ m * d \in Int
    BY ProductType
  <2> QED
    BY <1>3, <2>1, Cancels
<1> QED
  BY <1>1, <1>4, FractionsAreEqual DEF Lowest

LEMMA MeasuresOnce ==
  ASSUME NEW scale \in Nat \ {0}, NEW x, NEW a, NEW b, Measures(x, scale, a), Measures(x, scale, b)
  PROVE  a = b
<1>1. PICK d \in Nat \ {0} : d = x.den
  BY DEF Measures, IsFraction
<1>2. a \in Int /\ b \in Int /\ a * d = b * d
  BY <1>1 DEF Measures
<1>3. d * a = d * b
  BY <1>2, Commutes
<1> QED
  BY <1>2, <1>3, Cancels

-----------------------------------------------------------------------------
(* The type of the averages *)

PositionSet == [quantity: Nat, average: FractionSet, realized: FractionSet]

LEMMA FractionSetIs == ASSUME NEW x PROVE x \in FractionSet <=> IsFraction(x)
BY DEF FractionSet, IsFraction

LEMMA FractionType ==
  ASSUME NEW n \in Int, NEW d \in Nat \ {0}
  PROVE  Fraction(n, d) \in FractionSet
BY FractionIs, FractionSetIs

LEMMA WholeType == ASSUME NEW n \in Int PROVE Whole(n) \in FractionSet /\ Zero \in FractionSet
BY DEF Whole, Zero, FractionSet

LEMMA SumType ==
  ASSUME NEW x \in FractionSet, NEW y \in FractionSet
  PROVE  Plus(x, y) \in FractionSet /\ Minus(x, y) \in FractionSet
<1>1. PICK n \in Int, d \in Nat \ {0}, m \in Int, e \in Nat \ {0} :
        n = x.num /\ d = x.den /\ m = y.num /\ e = y.den
  BY DEF FractionSet
<1>2. n * e \in Int /\ m * d \in Int /\ d * e \in Nat \ {0}
  BY ProductType, PositiveProduct
<1>3. n * e + m * d \in Int /\ n * e - m * d \in Int
  BY <1>2
<1> QED
  BY <1>1, <1>2, <1>3, FractionType DEF Plus, Minus

LEMMA TimesType ==
  ASSUME NEW x \in FractionSet, NEW k \in Int
  PROVE  Times(x, k) \in FractionSet
<1>1. PICK n \in Int, d \in Nat \ {0} : n = x.num /\ d = x.den
  BY DEF FractionSet
<1>2. n * k \in Int
  BY ProductType
<1> QED
  BY <1>1, <1>2, FractionType DEF Times

LEMMA OverType ==
  ASSUME NEW x \in FractionSet, NEW k \in Nat \ {0}
  PROVE  Over(x, k) \in FractionSet
<1>1. PICK n \in Int, d \in Nat \ {0} : n = x.num /\ d = x.den
  BY DEF FractionSet
<1>2. d * k \in Nat \ {0}
  BY PositiveProduct
<1> QED
  BY <1>1, <1>2, FractionType DEF Over

LEMMA UnitCostType ==
  ASSUME NEW x \in FractionSet, NEW k \in Nat
  PROVE  UnitCost(x, k) \in FractionSet
BY OverType, WholeType DEF UnitCost

LEMMA BasisType ==
  ASSUME NEW p \in PositionSet
  PROVE  /\ p.quantity \in Nat /\ p.average \in FractionSet /\ p.realized \in FractionSet
         /\ Basis(p) \in FractionSet
<1>1. p.quantity \in Int /\ p.quantity \in Nat /\ p.average \in FractionSet /\ p.realized \in FractionSet
  BY DEF PositionSet
<1> QED
  BY <1>1, TimesType DEF Basis

\* What a purchase makes of a position.
LEMMA AcquiredIs ==
  ASSUME NEW p \in PositionSet, NEW k \in Nat \ {0}, NEW a \in Int
  PROVE  /\ Acquired(p, k, a) \in PositionSet
         /\ Acquired(p, k, a).quantity = p.quantity + k
         /\ Acquired(p, k, a).average = Over(Plus(Basis(p), Whole(a)), p.quantity + k)
         /\ Acquired(p, k, a).realized = p.realized
<1> DEFINE average == UnitCost(Plus(Basis(p), Whole(a)), p.quantity + k)
<1>1. p.quantity \in Nat /\ p.quantity + k \in Nat \ {0} /\ p.realized \in FractionSet
  BY BasisType
<1>2. average \in FractionSet /\ average = Over(Plus(Basis(p), Whole(a)), p.quantity + k)
  <2>1. Plus(Basis(p), Whole(a)) \in FractionSet
    BY BasisType, WholeType, SumType
  <2> QED
    BY <1>1, <2>1, UnitCostType DEF UnitCost
<1>3. Acquired(p, k, a) = [p EXCEPT !.quantity = p.quantity + k, !.average = average]
  BY DEF Acquired
<1> HIDE DEF average
<1>4. Acquired(p, k, a) = [quantity |-> p.quantity + k, average |-> average, realized |-> p.realized]
  BY <1>3 DEF PositionSet
<1> QED
  BY <1>1, <1>2, <1>4 DEF PositionSet

\* What a sale makes of it.
LEMMA ReleasedIs ==
  ASSUME NEW p \in PositionSet, NEW sold \in Nat, sold <= p.quantity, NEW a \in Int
  PROVE  /\ Released(p, sold, a) \in PositionSet
         /\ Released(p, sold, a).quantity = p.quantity - sold
         /\ Released(p, sold, a).average = IF p.quantity = sold THEN Zero ELSE p.average
         /\ Released(p, sold, a).realized = Plus(p.realized, Minus(Whole(-a), Times(p.average, sold)))
<1> DEFINE average == IF p.quantity = sold THEN Zero ELSE p.average
           realized == Plus(p.realized, Minus(Whole(-a), Times(p.average, sold)))
<1>1. p.quantity \in Nat /\ p.quantity - sold \in Nat
  BY BasisType
<1>2. average \in FractionSet
  BY BasisType, WholeType
<1>3. realized \in FractionSet
  <2>1. -a \in Int /\ sold \in Int
    OBVIOUS
  <2>2. Minus(Whole(-a), Times(p.average, sold)) \in FractionSet
    BY <2>1, BasisType, WholeType, TimesType, SumType
  <2> QED
    BY <2>2, BasisType, SumType
<1>4. Released(p, sold, a) = [p EXCEPT !.quantity = p.quantity - sold, !.average = average, !.realized = realized]
  BY DEF Released
<1> HIDE DEF average, realized
<1>5. Released(p, sold, a) = [quantity |-> p.quantity - sold, average |-> average, realized |-> realized]
  <2>1. p = [quantity |-> p.quantity, average |-> p.average, realized |-> p.realized]
    BY DEF PositionSet
  <2> QED
    BY <1>4, <2>1, UpdatedPosition
<1>6. Released(p, sold, a) \in PositionSet
  BY <1>1, <1>2, <1>3, <1>5 DEF PositionSet
<1> QED
  BY <1>5, <1>6 DEF average, realized

LEMMA ProjectedType ==
  ASSUME position \in PositionSet, NEW legs, Sound(legs), Affordable(legs)
  PROVE  Projected(legs) \in PositionSet
<1>1. legs.quantity \in Int /\ legs.security \in Int /\ position.quantity \in Nat
  BY BasisType DEF Sound, Legs
<1>2. CASE legs.ticker = NoTicker \/ legs.quantity = 0
  BY <1>1, <1>2 DEF Projected, ApplyPosition
<1>3. CASE legs.ticker # NoTicker /\ legs.quantity > 0
  <2>1. Projected(legs) = Acquired(position, legs.quantity, legs.security)
    BY <1>3 DEF Projected, ApplyPosition
  <2>2. legs.quantity \in Nat \ {0}
    BY <1>1, <1>3
  <2> QED
    BY <1>1, <2>1, <2>2, AcquiredIs
<1>4. CASE legs.ticker # NoTicker /\ legs.quantity < 0
  <2>1. Projected(legs) = Released(position, -legs.quantity, legs.security)
    BY <1>1, <1>4 DEF Projected, ApplyPosition
  <2>2. -legs.quantity \in Nat /\ -legs.quantity <= position.quantity
    BY <1>1, <1>4 DEF Affordable
  <2> QED
    BY <1>1, <2>1, <2>2, ReleasedIs
<1> QED
  BY <1>1, <1>2, <1>3, <1>4

-----------------------------------------------------------------------------
(* The type of the state *)

LEMMA PreviewedType ==
  ASSUME NEW a \in Actions, NEW legs \in Legs, NEW income \in Nat, NEW costs \in Nat,
         NEW quantity \in Nat, NEW average \in FractionSet
  PROVE  Previewed(a, legs, income, costs, quantity, average) \in Previews
BY DEF Previewed, Previews

LEMMA PreviewSplitIs ==
  ASSUME position \in PositionSet, NEW a \in Actions
  PROVE  \E resulting \in Nat :
           /\ PreviewSplit(a) = Previewed(a, Security(resulting - position.quantity, 0, 0), 0, 0,
                                          resulting, UnitCost(Basis(position), resulting))
           /\ PreviewSplit(a) \in Previews
<1> DEFINE resulting == (position.quantity * a.ratio.num) \div a.ratio.den
<1>1. a.ratio.num \in Nat /\ a.ratio.den \in Nat \ {0} /\ position.quantity \in Nat
  BY HoldingsAssumption, BasisType DEF ActionSet
<1>2. PICK n \in Nat : n = resulting
  <2>1. PICK scaled \in Nat : scaled = position.quantity * a.ratio.num
    BY <1>1, NaturalProduct
  <2>2. scaled \div a.ratio.den \in Nat
    BY <1>1, <2>1
  <2> QED
    BY <2>1, <2>2
<1>3. PreviewSplit(a) = Previewed(a, Security(n - position.quantity, 0, 0), 0, 0,
                                  n, UnitCost(Basis(position), n))
  BY <1>2 DEF PreviewSplit
<1>4. Security(n - position.quantity, 0, 0) \in Legs
  BY <1>1, SecuritySound DEF Sound
<1>5. UnitCost(Basis(position), n) \in FractionSet
  BY BasisType, UnitCostType
<1>6. PreviewSplit(a) \in Previews
  BY <1>3, <1>4, <1>5, PreviewedType
<1> QED
  BY <1>3, <1>6

LEMMA PreviewCashIncomeType ==
  ASSUME position \in PositionSet, NEW a \in Actions
  PROVE  PreviewCashIncome(a) \in Previews
<1>1. a.per_share \in Nat /\ a.withholding \in Nat /\ position.quantity \in Nat /\ position.average \in FractionSet
  BY HoldingsAssumption, BasisType DEF ActionSet
<1>2. PICK gross \in Nat : gross = a.per_share * position.quantity
  BY <1>1, NaturalProduct
<1>3. CashPair(gross - a.withholding) \in Legs
  BY <1>1, CashPairSound DEF Sound
<1> QED
  BY <1>1, <1>2, <1>3, PreviewedType DEF PreviewCashIncome

\* The average cost after a return of capital, which stops at zero.
LEMMA RepaidIs ==
  ASSUME NEW p \in PositionSet, p.quantity # 0, NEW a \in Int
  PROVE  /\ Repaid(p, a).average \in FractionSet
         /\ Positive(Repaid(p, a).average) =>
              Repaid(p, a).average = Over(Plus(Basis(p), Whole(a)), p.quantity)
<1> DEFINE adjusted == Plus(Basis(p), Whole(a))
<1>1. p.quantity \in Nat \ {0} /\ adjusted \in FractionSet
  BY BasisType, WholeType, SumType
<1> HIDE DEF adjusted
<1>2. Over(adjusted, p.quantity) \in FractionSet /\ Zero \in FractionSet /\ ~Positive(Zero)
  BY <1>1, OverType, WholeType DEF Positive, Zero, Whole
<1>3. Repaid(p, a).average = IF Positive(adjusted) THEN Over(adjusted, p.quantity) ELSE Zero
  BY DEF Repaid, PositionSet, adjusted
<1> QED
  BY <1>2, <1>3 DEF adjusted

LEMMA PreviewReturnOfCapitalType ==
  ASSUME position \in PositionSet, position.quantity > 0, NEW a \in Actions
  PROVE  PreviewReturnOfCapital(a) \in Previews
<1>1. a.per_share \in Nat /\ position.quantity \in Nat
  BY HoldingsAssumption, BasisType DEF ActionSet
<1>2. PICK paid \in Nat : paid = a.per_share * position.quantity
  BY <1>1, NaturalProduct
<1>3. Security(0, -paid, paid) \in Legs
  <2>1. -paid \in Int /\ paid \in Int
    OBVIOUS
  <2> QED
    BY <2>1, SecuritySound DEF Sound
<1>4. Repaid(position, -paid).average \in FractionSet
  BY <1>1, RepaidIs
<1> QED
  BY <1>1, <1>2, <1>3, <1>4, PreviewedType DEF PreviewReturnOfCapital

\* What is previewed of an action, on the position as it is.
PreviewOf(a) ==
  CASE a.kind \in {"split", "reverse_split"}    -> PreviewSplit(a)
    [] a.kind \in {"cash_dividend", "interest"} -> PreviewCashIncome(a)
    [] a.kind = "return_of_capital"             -> PreviewReturnOfCapital(a)

LEMMA PreviewOfIs ==
  ASSUME NEW a, a.kind \in Determined
  PROVE  \/ a.kind \in {"split", "reverse_split"} /\ PreviewOf(a) = PreviewSplit(a)
         \/ a.kind \in {"cash_dividend", "interest"} /\ PreviewOf(a) = PreviewCashIncome(a)
         \/ a.kind = "return_of_capital" /\ PreviewOf(a) = PreviewReturnOfCapital(a)
<1>1. CASE a.kind \in {"split", "reverse_split"}
  BY <1>1 DEF PreviewOf
<1>2. CASE a.kind \in {"cash_dividend", "interest"}
  BY <1>2 DEF PreviewOf
<1>3. CASE a.kind = "return_of_capital"
  BY <1>3 DEF PreviewOf
<1> QED
  BY <1>1, <1>2, <1>3 DEF Determined

LEMMA PreviewOfNames == ASSUME NEW a, a.kind \in Determined PROVE PreviewOf(a).action = a
<1>1. PreviewSplit(a).action = a /\ PreviewCashIncome(a).action = a /\ PreviewReturnOfCapital(a).action = a
  BY DEF PreviewSplit, PreviewCashIncome, PreviewReturnOfCapital, Previewed
<1> QED
  BY <1>1, PreviewOfIs

LEMMA PreviewOfType ==
  ASSUME position \in PositionSet, position.quantity > 0, NEW a \in Actions, a.kind \in Determined
  PROVE  PreviewOf(a) \in Previews
BY PreviewOfIs, PreviewSplitIs, PreviewCashIncomeType, PreviewReturnOfCapitalType

LEMMA TypeInit == Init => TypeOK
<1> SUFFICES ASSUME Init PROVE TypeOK
  OBVIOUS
<1>1. position \in PositionSet
  BY WholeType DEF Init, NoPosition, PositionSet
<1>2. journal \in Seq(Events) /\ applications \in Seq([action: Actions, quantity: Nat, average: FractionSet])
  BY DEF Init
<1>3. preview \in [Workers -> Previews \cup {NoPreview}]
  BY DEF Init
<1> QED
  BY <1>1, <1>2, <1>3, HoldingsAssumption DEF Init, TypeOK, Moments, PositionSet

\* What a step does to the part of the state that is not whole numbers.
AveragesTyped ==
  /\ position \in PositionSet
  /\ announced \subseteq Actions
  /\ applications \in Seq([action: Actions, quantity: Nat, average: FractionSet])
  /\ preview \in [Workers -> Previews \cup {NoPreview}]

LEMMA AveragesStep == WholeNumbers /\ TypeOK /\ [Next]_vars => AveragesTyped'
<1> SUFFICES ASSUME WholeNumbers, TypeOK, [Next]_vars PROVE AveragesTyped'
  OBVIOUS
<1>1. AveragesTyped
  BY DEF TypeOK, AveragesTyped, PositionSet
<1>2. CASE UNCHANGED vars
  BY <1>1, <1>2 DEF vars, AveragesTyped
<1>3. ASSUME NEW w \in Workers, NEW tx \in Orders, NEW t \in Moments, RecordTransaction(w, tx, t)
      PROVE  AveragesTyped'
  <2>1. Sound(BuildLegs(tx)) /\ Affordable(BuildLegs(tx))
    BY <1>3, HoldingsAssumption, BuildLegsSound DEF RecordTransaction
  <2>2. Projected(BuildLegs(tx)) \in PositionSet
    BY <1>1, <2>1, ProjectedType DEF AveragesTyped
  <2> QED
    BY <1>1, <1>3, <2>2 DEF RecordTransaction, AveragesTyped
<1>4. ASSUME NEW w \in Workers, NEW i \in DOMAIN journal, ReverseTransaction(w, i)
      PROVE  AveragesTyped'
  <2> DEFINE legs == Invert(journal[i].legs)
  <2>1. Sound(legs) /\ Affordable(legs)
    BY <1>4, InvertSound DEF WholeNumbers, ReverseTransaction
  <2>2. position' = Projected(legs) /\ UNCHANGED <<announced, applications, preview>>
    BY <1>4 DEF ReverseTransaction
  <2> HIDE DEF legs
  <2>3. Projected(legs) \in PositionSet
    BY <1>1, <2>1, ProjectedType DEF AveragesTyped
  <2> QED
    BY <1>1, <2>2, <2>3 DEF AveragesTyped
<1>5. ASSUME NEW w \in Workers, NEW a \in Actions, PreviewApplication(w, a)
      PROVE  AveragesTyped'
  <2>1. PreviewOf(a) \in Previews
    BY <1>1, <1>5, PreviewOfType DEF PreviewApplication, Applicable, AveragesTyped
  <2>2. preview' = [preview EXCEPT ![w] = PreviewOf(a)] /\ UNCHANGED <<position, announced, applications>>
    BY <1>5 DEF PreviewApplication, PreviewOf
  <2> QED
    BY <1>1, <2>1, <2>2 DEF AveragesTyped
<1>6. ASSUME NEW w \in Workers, ApplyCorporateAction(w)
      PROVE  AveragesTyped'
  <2> DEFINE p == preview[w]
             row == [action |-> p.action, quantity |-> p.quantity, average |-> p.average]
  <2>1. preview[w] \in Previews /\ Sound(preview[w].legs)
    BY <1>1, <1>6 DEF ApplyCorporateAction, Free, AveragesTyped, WholeNumbers, IsPreview
  <2>2. p.action \in Actions /\ p.quantity \in Nat /\ p.average \in FractionSet /\ Sound(p.legs)
    BY <2>1 DEF Previews
  <2>3. row \in [action: Actions, quantity: Nat, average: FractionSet]
    BY <2>2
  <2>4. /\ Affordable(p.legs) /\ position' = [Projected(p.legs) EXCEPT !.average = p.average]
        /\ applications' = Append(applications, row)
        /\ preview' = [preview EXCEPT ![w] = NoPreview] /\ announced' = announced
    BY <1>6 DEF ApplyCorporateAction, ProjectedAndOverridden
  <2> HIDE DEF p, row
  <2>5. Projected(p.legs) \in PositionSet
    BY <1>1, <2>2, <2>4, ProjectedType DEF AveragesTyped
  <2>6. position' \in PositionSet
    BY <2>2, <2>4, <2>5 DEF PositionSet
  <2>7. applications' \in Seq([action: Actions, quantity: Nat, average: FractionSet])
    BY <1>1, <2>3, <2>4 DEF AveragesTyped
  <2> QED
    BY <1>1, <2>4, <2>6, <2>7 DEF AveragesTyped
<1>7. ASSUME NEW w \in Workers, AbandonApplication(w)
      PROVE  AveragesTyped'
  BY <1>1, <1>7 DEF AbandonApplication, AveragesTyped
<1>8. ASSUME NEW a \in Actions, RecordCorporateAction(a)
      PROVE  AveragesTyped'
  BY <1>1, <1>8 DEF RecordCorporateAction, AveragesTyped
<1>9. CASE Tick
  BY <1>1, <1>9 DEF Tick, AveragesTyped
<1>10. ASSUME NEW w \in Workers, NEW tx \in Orders, RefuseTransaction(w, tx)
       PROVE  AveragesTyped'
  BY <1>2, <1>10 DEF RefuseTransaction
<1> QED
  BY <1>2, <1>3, <1>4, <1>5, <1>6, <1>7, <1>8, <1>9, <1>10 DEF Next

\* Every average and every profit, previewed and applied ones included, is a
\* fraction with a positive denominator: no division by no shares is ever made.
THEOREM HoldingsTypesCorrect == Spec => []TypeOK
<1>1. WholeNumbers' /\ AveragesTyped' => TypeOK'
  BY DEF WholeNumbers, AveragesTyped, TypeOK, PositionSet
<1> QED
  BY <1>1, TypeInit, AveragesStep, WholeNumbersStep, NothingHeldShort, PTL DEF Spec

-----------------------------------------------------------------------------
(* The cost that is left in an average, and the cost that was realized *)

LEMMA ResultsAreLowest ==
  ASSUME NEW x \in FractionSet, NEW y \in FractionSet, NEW k \in Int
  PROVE  Lowest(Plus(x, y)) /\ Lowest(Minus(x, y)) /\ Lowest(Times(x, k))
<1>1. PICK n \in Int, d \in Nat \ {0}, m \in Int, e \in Nat \ {0} :
        n = x.num /\ d = x.den /\ m = y.num /\ e = y.den
  BY DEF FractionSet
<1>2. n * e \in Int /\ m * d \in Int /\ n * k \in Int /\ d * e \in Nat \ {0}
  BY ProductType, PositiveProduct
<1>3. n * e + m * d \in Int /\ n * e - m * d \in Int
  BY <1>2
<1>4. Lowest(Fraction(n * e + m * d, d * e)) /\ Lowest(Fraction(n * e - m * d, d * e)) /\ Lowest(Fraction(n * k, d))
  BY <1>2, <1>3, FractionIsLowest
<1> QED
  BY <1>1, <1>4 DEF Plus, Minus, Times

\* A unit cost restores the basis it was made of.
LEMMA BasisRestored ==
  ASSUME NEW x \in FractionSet, Lowest(x), NEW k \in Nat \ {0}
  PROVE  Times(Over(x, k), k) = x
<1>1. IsFraction(x) /\ Over(x, k) \in FractionSet
  BY OverType, FractionSetIs
<1>2. PICK n \in Int, d \in Nat \ {0}, scale \in Nat \ {0} : n = x.num /\ d = x.den /\ scale = d * k
  <2>1. x.num \in Int /\ x.den \in Nat \ {0} /\ x.den * k \in Nat \ {0}
    BY <1>1, PositiveProduct DEF IsFraction
  <2> QED
    BY <2>1
<1>3. Measures(x, scale, n * k)
  BY <1>1, <1>2, EveryFractionMeasures
<1>4. Measures(Over(x, k), scale, n)
  BY <1>3, OverMeasures
<1>5. Measures(Times(Over(x, k), k), scale, n * k)
  BY <1>4, TimesMeasures
<1>6. Lowest(Times(Over(x, k), k))
  BY <1>1, ResultsAreLowest
<1> QED
  BY <1>3, <1>5, <1>6, MeasuresTell

\* Two fractions in common units, and what their difference says of them there.
LEMMA CommonUnits ==
  ASSUME NEW x \in FractionSet, NEW r \in FractionSet
  PROVE  \E scale \in Nat \ {0}, a \in Int, b \in Int :
           Measures(x, scale, a) /\ Measures(r, scale, b)
<1>1. IsFraction(x) /\ IsFraction(r)
  BY FractionSetIs
<1>2. PICK n \in Int, d \in Nat \ {0}, m \in Int, e \in Nat \ {0} :
        n = x.num /\ d = x.den /\ m = r.num /\ e = r.den
  BY <1>1 DEF IsFraction
<1>3. Measures(x, d * e, n * e) /\ Measures(r, d * e, d * m)
  BY <1>1, <1>2, EveryFractionMeasures
<1>4. d * e \in Nat \ {0} /\ n * e \in Int /\ d * m \in Int
  BY ProductType, PositiveProduct
<1> QED
  BY <1>3, <1>4

LEMMA WholeDifference ==
  ASSUME NEW scale \in Nat \ {0}, NEW x \in FractionSet, NEW a \in Int, Measures(x, scale, a),
         NEW r \in FractionSet, NEW b \in Int, Measures(r, scale, b), NEW T \in Int
  PROVE  Minus(x, r) = Whole(T) <=> a - b = T * scale
<1>1. Measures(Minus(x, r), scale, a - b) /\ Measures(Whole(T), scale, T * scale)
  BY PlusMeasures, WholeMeasures
<1>2. Lowest(Minus(x, r)) /\ Lowest(Whole(T))
  BY ResultsAreLowest, WholeIsLowest
<1>3. ASSUME Minus(x, r) = Whole(T) PROVE a - b = T * scale
  BY <1>1, <1>3, MeasuresOnce
<1>4. ASSUME a - b = T * scale PROVE Minus(x, r) = Whole(T)
  BY <1>1, <1>2, <1>4, MeasuresTell
<1> QED
  BY <1>3, <1>4

\* What comes in at a cost adds it to the basis.
LEMMA CostComesIn ==
  ASSUME NEW x \in FractionSet, NEW r \in FractionSet, NEW T \in Int, Minus(x, r) = Whole(T), NEW cost \in Int
  PROVE  Minus(Plus(x, Whole(cost)), r) = Whole(T + cost)
<1>1. PICK scale \in Nat \ {0}, a \in Int, b \in Int : Measures(x, scale, a) /\ Measures(r, scale, b)
  BY CommonUnits
<1>2. a - b = T * scale
  BY <1>1, WholeDifference
<1>3. Measures(Plus(x, Whole(cost)), scale, a + cost * scale)
  BY <1>1, WholeMeasures, PlusMeasures
<1>4. T * scale \in Int /\ cost * scale \in Int /\ (T + cost) * scale = T * scale + cost * scale
  BY ProductType, Distributes
<1>5. PICK c \in Int : c = a + cost * scale
  BY <1>4
<1>6. c - b = (T + cost) * scale
  BY <1>2, <1>4, <1>5
<1>7. Plus(x, Whole(cost)) \in FractionSet /\ T + cost \in Int
  BY WholeType, SumType
<1> QED
  BY <1>1, <1>3, <1>5, <1>6, <1>7, WholeDifference

\* What goes out takes its part of the basis with it, and the profit the rest.
LEMMA CostGoesOut ==
  ASSUME NEW average \in FractionSet, NEW r \in FractionSet, NEW q \in Nat, NEW sold \in Nat,
         NEW T \in Int, Minus(Times(average, q), r) = Whole(T), NEW cost \in Int
  PROVE  Minus(Times(average, q - sold), Plus(r, Minus(Whole(-cost), Times(average, sold)))) = Whole(T + cost)
<1>1. PICK scale \in Nat \ {0}, a \in Int, b \in Int : Measures(average, scale, a) /\ Measures(r, scale, b)
  BY CommonUnits
<1>2. a * q \in Int /\ a * sold \in Int /\ q - sold \in Int /\ a * (q - sold) = a * q - a * sold
      /\ -cost \in Int /\ T * scale \in Int /\ cost * scale \in Int /\ (-cost) * scale = -(cost * scale)
      /\ (T + cost) * scale = T * scale + cost * scale
  <2>1. a * q \in Int /\ a * sold \in Int /\ T * scale \in Int /\ cost * scale \in Int
    BY ProductType
  <2>2. a * (q - sold) = a * q - a * sold /\ (T + cost) * scale = T * scale + cost * scale
    BY DistributesMinus, Distributes
  <2>3. (0 - cost) * scale = 0 * scale - cost * scale
    BY DistributesMinus
  <2> QED
    BY <2>1, <2>2, <2>3
<1>3. Measures(Times(average, q), scale, a * q) /\ Measures(Times(average, sold), scale, a * sold)
      /\ Measures(Times(average, q - sold), scale, a * (q - sold))
  <2>1. \A k \in Int : Measures(Times(average, k), scale, a * k)
    BY <1>1, TimesMeasures
  <2> QED
    BY <1>2, <2>1
<1>4. a * q - b = T * scale
  BY <1>1, <1>2, <1>3, TimesType, WholeDifference
<1>5. Measures(Minus(Whole(-cost), Times(average, sold)), scale, (-cost) * scale - a * sold)
  BY <1>2, <1>3, WholeMeasures, PlusMeasures
<1>6. Measures(Plus(r, Minus(Whole(-cost), Times(average, sold))), scale, b + ((-cost) * scale - a * sold))
  BY <1>1, <1>5, PlusMeasures
<1>7. PICK left \in Int, taken \in Int : left = a * (q - sold) /\ taken = b + ((-cost) * scale - a * sold)
  BY <1>2
<1>8. left - taken = (T + cost) * scale
  BY <1>2, <1>4, <1>7
<1>9. /\ Times(average, q - sold) \in FractionSet /\ T + cost \in Int
      /\ Plus(r, Minus(Whole(-cost), Times(average, sold))) \in FractionSet
  BY <1>2, WholeType, TimesType, SumType
<1> QED
  BY <1>3, <1>6, <1>7, <1>8, <1>9, WholeDifference

\* A basis of no shares is nothing, whatever the average.
LEMMA NoSharesNoBasis ==
  ASSUME NEW x \in FractionSet
  PROVE  Times(x, 0) = Zero
<1>1. PICK scale \in Nat \ {0}, a \in Int : Measures(x, scale, a)
  BY CommonUnits
<1>2. Measures(Times(x, 0), scale, 0)
  <2>1. Measures(Times(x, 0), scale, a * 0) /\ a * 0 = 0
    BY <1>1, TimesMeasures
  <2> QED
    BY <2>1
<1>3. Measures(Zero, scale, 0)
  <2>1. Measures(Whole(0), scale, 0 * scale) /\ 0 * scale = 0
    BY WholeMeasures
  <2> QED
    BY <2>1 DEF Zero
<1>4. Lowest(Times(x, 0)) /\ Lowest(Zero)
  BY ResultsAreLowest, WholeIsLowest DEF Zero
<1> QED
  BY <1>2, <1>3, <1>4, MeasuresTell

\* The cost a position accounts for.
Accounted(p) == Minus(Basis(p), p.realized)

LEMMA AcquiredAccounts ==
  ASSUME NEW p \in PositionSet, NEW T \in Int, Accounted(p) = Whole(T), NEW k \in Nat \ {0}, NEW cost \in Int
  PROVE  Accounted(Acquired(p, k, cost)) = Whole(T + cost)
<1>1. p.quantity \in Nat /\ Basis(p) \in FractionSet /\ p.realized \in FractionSet
  BY BasisType
<1>2. Plus(Basis(p), Whole(cost)) \in FractionSet /\ Lowest(Plus(Basis(p), Whole(cost)))
  BY <1>1, WholeType, SumType, ResultsAreLowest
<1>3. Basis(Acquired(p, k, cost)) = Plus(Basis(p), Whole(cost))
  <2>1. PICK q \in Nat \ {0} : q = p.quantity + k
    BY <1>1
  <2>2. Times(Over(Plus(Basis(p), Whole(cost)), q), q) = Plus(Basis(p), Whole(cost))
    BY <1>2, BasisRestored
  <2> QED
    BY <2>1, <2>2, AcquiredIs DEF Basis
<1> QED
  BY <1>1, <1>3, AcquiredIs, CostComesIn DEF Accounted

LEMMA ReleasedAccounts ==
  ASSUME NEW p \in PositionSet, NEW T \in Int, Accounted(p) = Whole(T),
         NEW sold \in Nat, sold <= p.quantity, NEW cost \in Int
  PROVE  Accounted(Released(p, sold, cost)) = Whole(T + cost)
<1>1. p.quantity \in Nat /\ p.average \in FractionSet /\ p.realized \in FractionSet
  BY BasisType
<1>2. Basis(Released(p, sold, cost)) = Times(p.average, p.quantity - sold)
  <2>1. CASE p.quantity = sold
    <3>1. Released(p, sold, cost).average = Zero /\ Released(p, sold, cost).quantity = 0 /\ p.quantity - sold = 0
      BY <1>1, <2>1, ReleasedIs
    <3>2. Times(Zero, 0) = Zero /\ Times(p.average, 0) = Zero
      BY <1>1, WholeType, NoSharesNoBasis
    <3> QED
      BY <3>1, <3>2 DEF Basis
  <2>2. CASE p.quantity # sold
    BY <2>2, ReleasedIs DEF Basis
  <2> QED
    BY <2>1, <2>2
<1>3. Minus(Times(p.average, p.quantity), p.realized) = Whole(T)
  BY DEF Accounted, Basis
<1>4. Minus(Times(p.average, p.quantity - sold), Plus(p.realized, Minus(Whole(-cost), Times(p.average, sold)))) = Whole(T + cost)
  BY <1>1, <1>3, CostGoesOut
<1> QED
  BY <1>2, <1>4, ReleasedIs DEF Accounted

-----------------------------------------------------------------------------
(* The cost in the journal *)

SecurityOf(log) == [i \in DOMAIN log |-> log[i].legs.security]
CostIn(log) == SumOn(SecurityOf(log), DOMAIN log)

LEMMA CostInIs ==
  ASSUME NEW log
  PROVE  MapThenSumSet(LAMBDA i : log[i].legs.security, DOMAIN log) = CostIn(log)
BY ZenonT(40) DEF CostIn, SecurityOf, SumOn, MapThenSumSet, MapThenFoldSet

LEMMA CostInNothing == ASSUME NEW log, DOMAIN log = {} PROVE CostIn(log) = 0
BY SumOnNothing DEF CostIn

LEMMA EventSecurity == ASSUME NEW e \in Events PROVE e.legs.security \in Int
<1>1. e.legs \in Legs
  BY DEF Events
<1> QED
  BY <1>1 DEF Legs

LEMMA CostInMore ==
  ASSUME NEW log \in Seq(Events), NEW more \in Seq(Events), Len(more) = Len(log) + 1,
         \A i \in 1..Len(log) : more[i].legs = log[i].legs
  PROVE  CostIn(log) \in Int /\ CostIn(more) = CostIn(log) + more[Len(log) + 1].legs.security
<1> DEFINE n == Len(log)
           before == SecurityOf(log)
           after == SecurityOf(more)
<1>1. n \in Nat /\ DOMAIN log = 1..n /\ DOMAIN more = 1..(n + 1) /\ 1..(n + 1) = (1..n) \cup {n + 1} /\ n + 1 \notin 1..n
  OBVIOUS
<1>2. /\ \A i \in 1..n : before[i] = log[i].legs.security /\ before[i] \in Int /\ after[i] = before[i]
      /\ after[n + 1] = more[n + 1].legs.security /\ after[n + 1] \in Int
  <2>1. \A i \in 1..n : log[i].legs.security \in Int
    <3>1. \A i \in 1..n : log[i] \in Events
      BY <1>1
    <3> QED
      BY <3>1, EventSecurity
  <2>2. more[n + 1].legs.security \in Int
    <3>1. more[n + 1] \in Events
      BY <1>1
    <3> QED
      BY <3>1, EventSecurity
  <2> QED
    BY <1>1, <2>1, <2>2 DEF SecurityOf
<1>3. IsFiniteSet(1..n)
  BY <1>1, FS_Interval
<1> HIDE DEF before, after, n
<1>4. SumOn(after, (1..n) \cup {n + 1}) = SumOn(after, 1..n) + after[n + 1]
  <2>1. PICK m, S : m = n + 1 /\ S = 1..n
    OBVIOUS
  <2>2. IsFiniteSet(S) /\ m \notin S /\ \A x \in S \cup {m} : after[x] \in Int
    BY <1>1, <1>2, <1>3, <2>1
  <2>3. SumOn(after, S \cup {m}) = SumOn(after, S) + after[m]
    BY <2>2, SumOnAdded
  <2> QED
    BY <2>1, <2>3
<1>5. SumOn(before, 1..n) = SumOn(after, 1..n)
  <2>1. \A i \in 1..n : before[i] = after[i] /\ before[i] \in Int
    BY <1>2
  <2> QED
    BY <1>3, <2>1, SumOnSame
<1>6. SumOn(before, 1..n) \in Int
  <2>1. \A i \in 1..n : before[i] \in Int
    BY <1>2
  <2> QED
    BY <1>3, <2>1, SumOnInt
<1> QED
  BY <1>1, <1>2, <1>4, <1>5, <1>6 DEF CostIn, before, after, n

-----------------------------------------------------------------------------
(* No cost is lost *)

\* One session posts, and no trade is of no shares, which the schema refuses.
Undisturbed ==
  /\ \E w : Workers = {w}
  /\ \A tx \in Orders : tx.type \in Trades => tx.quantity > 0

\* No split took shares away, and no return of capital was reversed.
Ordinary ==
  \A i \in DOMAIN journal :
     /\ journal[i].type = "split" => journal[i].legs.quantity >= 0
     /\ journal[i].type = "return_of_capital" => ~journal[i].reversed

\* Nor did a return of capital use up the basis.
BasisRemains ==
  /\ Ordinary
  /\ \A k \in DOMAIN applications :
       applications[k].action.kind = "return_of_capital" => Positive(applications[k].average)

\* Legs without shares have no cost either.
CarriesItsCost(legs) == legs.quantity = 0 => legs.security = 0

CostKept ==
  /\ \A i \in DOMAIN journal : journal[i].type # "return_of_capital" => CarriesItsCost(journal[i].legs)
  /\ Accounted(position) = Whole(CostIn(journal))

\* What is previewed is still so.
PreviewsStand ==
  \A w \in Workers : preview[w] # NoPreview =>
     position.quantity > 0 /\ \E a \in Actions : a.kind \in Determined /\ preview[w] = PreviewOf(a)

Conserved == PreviewsStand /\ (BasisRemains => CostKept)

\* The journal grows by an event; the others keep their type and legs and stay
\* reversed if they are.
Grown(e) ==
  LET n == Len(journal)
  IN  /\ journal' \in Seq(Events) /\ Len(journal') = n + 1 /\ journal'[n + 1] = e /\ e \in Events
      /\ \A i \in 1..n : /\ journal'[i].legs = journal[i].legs /\ journal'[i].type = journal[i].type
                         /\ journal[i].reversed => journal'[i].reversed

LEMMA ProjectedAccounts ==
  ASSUME position \in PositionSet, NEW T \in Int, Accounted(position) = Whole(T),
         NEW legs, Sound(legs), Affordable(legs), CarriesItsCost(legs)
  PROVE  Accounted(Projected(legs)) = Whole(T + legs.security)
<1>1. legs.quantity \in Int /\ legs.security \in Int /\ position.quantity \in Nat
  BY BasisType DEF Sound, Legs
<1>2. CASE legs.ticker = NoTicker \/ legs.quantity = 0
  <2>1. Projected(legs) = position /\ legs.security = 0
    BY <1>2 DEF Projected, ApplyPosition, Sound, CarriesItsCost
  <2> QED
    BY <2>1
<1>3. CASE legs.ticker # NoTicker /\ legs.quantity > 0
  <2>1. Projected(legs) = Acquired(position, legs.quantity, legs.security)
    BY <1>3 DEF Projected, ApplyPosition
  <2>2. legs.quantity \in Nat \ {0}
    BY <1>1, <1>3
  <2> QED
    BY <1>1, <2>1, <2>2, AcquiredAccounts
<1>4. CASE legs.ticker # NoTicker /\ legs.quantity < 0
  <2>1. Projected(legs) = Released(position, -legs.quantity, legs.security)
    BY <1>1, <1>4 DEF Projected, ApplyPosition
  <2>2. -legs.quantity \in Nat /\ -legs.quantity <= position.quantity
    BY <1>1, <1>4 DEF Affordable
  <2> QED
    BY <1>1, <2>1, <2>2, ReleasedAccounts
<1> QED
  BY <1>1, <1>2, <1>3, <1>4

LEMMA GrownOnce ==
  ASSUME journal \in Seq(Events), NEW before \in Seq(Events), Len(before) = Len(journal),
         \A i \in DOMAIN journal : /\ before[i].legs = journal[i].legs /\ before[i].type = journal[i].type
                                   /\ journal[i].reversed => before[i].reversed,
         NEW e \in Events, journal' = Append(before, e)
  PROVE  Grown(e)
BY DEF Grown

\* An event is posted, projected by its legs, while nothing is previewed.
Projects(e) ==
  /\ Grown(e) /\ Sound(e.legs) /\ Affordable(e.legs)
  /\ position' = Projected(e.legs) /\ cash' = cash + e.legs.cash
  /\ UNCHANGED <<applications, preview>>
  /\ \A w \in Workers : preview[w] = NoPreview

LEMMA RecordProjects ==
  ASSUME Undisturbed, WholeNumbers, NEW w \in Workers, NEW tx \in Orders, NEW occurred \in Moments,
         RecordTransaction(w, tx, occurred)
  PROVE  \E e : Projects(e) /\ CarriesItsCost(e.legs)
<1> DEFINE legs == BuildLegs(tx)
           e == NewEvent(tx.type, legs, IncomeOf(tx), CostsOf(tx), occurred, 0)
<1>1. tx \in Transactions
  BY HoldingsAssumption
<1>2. Sound(legs) /\ Affordable(legs)
  BY <1>1, BuildLegsSound DEF RecordTransaction
<1>3. CarriesItsCost(legs)
  <2>1. CASE tx.type \in Trades
    <3>1. tx.quantity > 0 /\ tx.quantity \in Nat
      BY <1>1, <2>1 DEF Undisturbed, Transactions
    <3>2. legs = TradeLegs(tx)
      BY <2>1 DEF BuildLegs, Trades, Inflows, Incomes
    <3>3. TradeLegs(tx).quantity = IF tx.type = "buy" THEN tx.quantity ELSE -tx.quantity
      BY DEF TradeLegs
    <3> QED
      BY <3>1, <3>2, <3>3 DEF CarriesItsCost
  <2>2. CASE tx.type \notin Trades
    BY <2>2 DEF BuildLegs, CashPair, CarriesItsCost
  <2> QED
    BY <2>1, <2>2
<1>4. e \in Events /\ e.legs = legs
  <2>1. tx.type \in EventTypes /\ IncomeOf(tx) \in Nat /\ CostsOf(tx) \in Nat
    BY <1>1 DEF RecordTransaction, Buildable, Transactions, IncomeOf, CostsOf,
                Trades, Inflows, Outflows, Incomes, Expenses
  <2> HIDE DEF legs
  <2> QED
    BY <1>2, <2>1, EventType DEF Sound
<1>5. journal' = Append(journal, e) /\ position' = Projected(legs) /\ cash' = cash + legs.cash
      /\ Free(w) /\ UNCHANGED <<applications, preview>>
  BY DEF RecordTransaction
<1> HIDE DEF e, legs
<1>6. Grown(e)
  BY <1>4, <1>5, GrownOnce DEF WholeNumbers
<1>7. \A v \in Workers : preview[v] = NoPreview
  BY <1>5 DEF Undisturbed, Free
<1> QED
  BY <1>2, <1>3, <1>4, <1>5, <1>6, <1>7 DEF Projects

\* The event undoes the i-th, which is marked as reversed.
Undoes(e, i) ==
  /\ i \in DOMAIN journal' /\ journal'[i].reversed /\ journal'[i].type = journal[i].type
  /\ CarriesItsCost(journal[i].legs) => CarriesItsCost(e.legs)

LEMMA ReverseProjects ==
  ASSUME Undisturbed, WholeNumbers, NEW w \in Workers, NEW i \in DOMAIN journal, ReverseTransaction(w, i)
  PROVE  \E e : Projects(e) /\ Undoes(e, i)
<1> DEFINE legs == Invert(journal[i].legs)
           before == [journal EXCEPT ![i].reversed = TRUE]
           e == NewEvent("reversal", legs, journal[i].income, journal[i].costs, now, i)
<1>1. journal[i] \in Events /\ i \in Nat /\ Sound(journal[i].legs) /\ now \in Moments
  BY DEF WholeNumbers
<1>2. Sound(legs) /\ Affordable(legs)
  BY <1>1, InvertSound DEF ReverseTransaction
<1>3. ASSUME CarriesItsCost(journal[i].legs) PROVE CarriesItsCost(legs)
  <2>1. journal[i].legs.quantity \in Int /\ journal[i].legs.security \in Int
    BY <1>1 DEF Sound, Legs
  <2> QED
    BY <1>3, <2>1 DEF CarriesItsCost, Invert
<1>4. e \in Events /\ e.legs = legs
  <2>1. journal[i].income \in Nat /\ journal[i].costs \in Nat /\ "reversal" \in EventTypes
    BY <1>1 DEF Events, EventTypes
  <2> HIDE DEF legs
  <2> QED
    BY <1>1, <1>2, <2>1, EventType DEF Sound
<1>5. /\ before \in Seq(Events) /\ Len(before) = Len(journal)
      /\ \A j \in DOMAIN journal : /\ before[j].legs = journal[j].legs /\ before[j].type = journal[j].type
                                   /\ journal[j].reversed => before[j].reversed
      /\ before[i].reversed /\ before[i].type = journal[i].type
  <2>1. [journal[i] EXCEPT !.reversed = TRUE] \in Events
    BY <1>1 DEF Events
  <2>2. /\ [journal[i] EXCEPT !.reversed = TRUE].legs = journal[i].legs
        /\ [journal[i] EXCEPT !.reversed = TRUE].type = journal[i].type
        /\ [journal[i] EXCEPT !.reversed = TRUE].reversed
    BY <1>1 DEF Events
  <2>3. /\ before \in Seq(Events) /\ Len(before) = Len(journal)
        /\ \A j \in DOMAIN journal : before[j] = IF j = i THEN [journal[i] EXCEPT !.reversed = TRUE] ELSE journal[j]
    BY <2>1 DEF WholeNumbers
  <2> HIDE DEF before
  <2>4. before[i] = [journal[i] EXCEPT !.reversed = TRUE] /\ \A j \in DOMAIN journal : j # i => before[j] = journal[j]
    BY <2>3
  <2> QED
    BY <2>2, <2>3, <2>4
<1>6. journal' = Append(before, e) /\ position' = Projected(legs) /\ cash' = cash + legs.cash
      /\ Free(w) /\ UNCHANGED <<applications, preview>>
  BY DEF ReverseTransaction
<1> HIDE DEF e, legs, before
<1>7. Grown(e)
  BY <1>4, <1>5, <1>6, GrownOnce DEF WholeNumbers
<1>8. \A v \in Workers : preview[v] = NoPreview
  BY <1>6 DEF Undisturbed, Free
<1>9. i \in DOMAIN journal' /\ journal'[i] = before[i]
  BY <1>5, <1>6 DEF WholeNumbers
<1> QED
  BY <1>2, <1>3, <1>4, <1>5, <1>6, <1>7, <1>8, <1>9 DEF Projects, Undoes

\* What was left of the basis before a step, if it is left after it.
LEMMA BasisRemained ==
  ASSUME WholeNumbers, NEW e, Grown(e), applications' = applications, BasisRemains'
  PROVE  BasisRemains
<1>1. Len(journal) \in Nat /\ DOMAIN journal = 1..Len(journal) /\ DOMAIN journal' = 1..(Len(journal) + 1)
  BY DEF WholeNumbers, Grown
<1>2. \A i \in DOMAIN journal : /\ i \in DOMAIN journal' /\ journal'[i].type = journal[i].type
                                /\ journal'[i].legs = journal[i].legs
                                /\ journal[i].reversed => journal'[i].reversed
  BY <1>1 DEF Grown
<1> QED
  BY <1>2 DEF BasisRemains, Ordinary

\* An event like any other is posted on a position nobody has previewed.
LEMMA PostedConserves ==
  ASSUME WholeNumbers, TypeOK, Conserved, NEW e, Projects(e),
         BasisRemains' /\ CostKept => CarriesItsCost(e.legs)
  PROVE  Conserved'
<1>1. Len(journal) \in Nat /\ DOMAIN journal = 1..Len(journal) /\ DOMAIN journal' = 1..(Len(journal) + 1)
      /\ Grown(e) /\ Sound(e.legs) /\ Affordable(e.legs) /\ position' = Projected(e.legs)
      /\ UNCHANGED <<applications, preview>>
  BY DEF WholeNumbers, Projects, Grown
<1>2. ASSUME BasisRemains' PROVE CostKept'
  <2>1. CostKept /\ CarriesItsCost(e.legs)
    BY <1>1, <1>2, BasisRemained DEF Conserved
  <2>2. ASSUME NEW i \in DOMAIN journal', journal'[i].type # "return_of_capital" PROVE CarriesItsCost(journal'[i].legs)
    <3>1. CASE i \in DOMAIN journal
      BY <1>1, <2>1, <2>2, <3>1 DEF Grown, CostKept
    <3>2. CASE i = Len(journal) + 1
      BY <1>1, <2>1, <3>2 DEF Grown
    <3> QED
      BY <1>1, <3>1, <3>2
  <2>3. CostIn(journal) \in Int /\ CostIn(journal') = CostIn(journal) + e.legs.security
    BY <1>1, CostInMore DEF WholeNumbers, Grown
  <2>4. Accounted(Projected(e.legs)) = Whole(CostIn(journal) + e.legs.security)
    BY <1>1, <2>1, <2>3, ProjectedAccounts DEF CostKept, TypeOK, PositionSet
  <2> QED
    BY <1>1, <2>2, <2>3, <2>4 DEF CostKept
<1>3. \A w \in Workers : preview'[w] = NoPreview
  BY <1>1 DEF Projects
<1> QED
  BY <1>2, <1>3 DEF Conserved, PreviewsStand

LEMMA RecordConserves ==
  ASSUME Undisturbed, WholeNumbers, TypeOK, Conserved, NEW w \in Workers, NEW tx \in Orders,
         NEW occurred \in Moments, RecordTransaction(w, tx, occurred)
  PROVE  Conserved'
BY RecordProjects, PostedConserves

LEMMA ReverseConserves ==
  ASSUME Undisturbed, WholeNumbers, TypeOK, Conserved, NEW w \in Workers, NEW i \in DOMAIN journal,
         ReverseTransaction(w, i)
  PROVE  Conserved'
<1>1. PICK e : Projects(e) /\ Undoes(e, i)
  BY ReverseProjects
<1>2. BasisRemains' /\ CostKept => CarriesItsCost(e.legs)
  BY <1>1 DEF Undoes, BasisRemains, Ordinary, CostKept
<1> QED
  BY <1>1, <1>2, PostedConserves

\* An application of `a' posts what its preview showed.
Applies(w, a, e) ==
  /\ a \in Actions /\ a.kind \in Determined /\ position.quantity > 0 /\ preview[w] = PreviewOf(a)
  /\ Grown(e) /\ Sound(e.legs) /\ Affordable(e.legs) /\ e.legs = preview[w].legs
  /\ a.kind \in {"split", "reverse_split"} => e.type = "split"
  /\ a.kind # "return_of_capital" => e.type # "return_of_capital" /\ CarriesItsCost(e.legs)
  /\ a.kind = "return_of_capital" => e.type = "return_of_capital"
  /\ position' = [Projected(e.legs) EXCEPT !.average = preview[w].average] /\ cash' = cash + e.legs.cash
  /\ applications' = Append(applications, [action |-> a, quantity |-> preview[w].quantity,
                                           average |-> preview[w].average])
  /\ \A v \in Workers : preview'[v] = NoPreview

LEMMA ApplyPosts ==
  ASSUME Undisturbed, WholeNumbers, TypeOK, PreviewsStand, NEW w \in Workers, ApplyCorporateAction(w)
  PROVE  \E a, e : Applies(w, a, e)
<1> DEFINE p == preview[w]
           a == preview[w].action
           e == NewEvent(EventTypeOf(p.action), p.legs, p.income, p.costs, p.action.effective, 0)
           row == [action |-> p.action, quantity |-> p.quantity, average |-> p.average]
<1>1. /\ a \in Actions /\ a.kind \in Determined /\ position.quantity > 0 /\ p = PreviewOf(a) /\ IsPreview(p)
  <2>1. preview[w] # NoPreview /\ IsPreview(p) /\ position.quantity > 0
    BY DEF ApplyCorporateAction, Free, PreviewsStand, WholeNumbers
  <2>2. PICK b \in Actions : b.kind \in Determined /\ preview[w] = PreviewOf(b)
    BY <2>1 DEF PreviewsStand
  <2>3. preview[w].action = b
    BY <2>2, PreviewOfNames
  <2> QED
    BY <2>1, <2>2, <2>3
<1>2. /\ Affordable(p.legs) /\ journal' = Append(journal, e)
      /\ position' = [Projected(p.legs) EXCEPT !.average = p.average] /\ cash' = cash + p.legs.cash
      /\ applications' = Append(applications, row) /\ preview' = [preview EXCEPT ![w] = NoPreview]
  BY DEF ApplyCorporateAction, ProjectedAndOverridden
<1>3. /\ e \in Events /\ e.legs = p.legs /\ e.type = EventTypeOf(a)
  <2>1. a.kind \in ActionKinds /\ a.effective \in Moments
    BY <1>1, HoldingsAssumption DEF ActionSet, Moments
  <2>2. EventTypeOf(a) \in EventTypes
    <3> HIDE DEF a
    <3> QED
      BY <2>1 DEF EventTypeOf, EventTypes, ActionKinds, ActionTypes, Incomes
  <2>3. p.legs \in Legs /\ p.income \in Nat /\ p.costs \in Nat /\ 0 \in Nat
    BY <1>1 DEF IsPreview, Sound
  <2> HIDE DEF p
  <2>4. e.type = EventTypeOf(p.action)
    BY DEF NewEvent
  <2> QED
    BY <2>1, <2>2, <2>3, <2>4, EventType DEF p
<1>4. a.kind \in {"split", "reverse_split"} => EventTypeOf(a) = "split"
  <2> HIDE DEF a
  <2> QED
    BY DEF EventTypeOf
<1>5. a.kind # "return_of_capital" => EventTypeOf(a) # "return_of_capital"
  <2> HIDE DEF a
  <2> QED
    BY <1>1 DEF EventTypeOf, Determined
<1>6. a.kind = "return_of_capital" => EventTypeOf(a) = "return_of_capital"
  <2> HIDE DEF a
  <2> QED
    BY DEF EventTypeOf
<1>7. a.kind # "return_of_capital" => CarriesItsCost(p.legs)
  <2>1. CASE a.kind \in {"split", "reverse_split"}
    <3>1. PICK n \in Nat : PreviewSplit(a) = Previewed(a, Security(n - position.quantity, 0, 0), 0, 0,
                                                       n, UnitCost(Basis(position), n))
      BY <1>1, PreviewSplitIs DEF TypeOK, PositionSet
    <3>2. p = PreviewSplit(a)
      BY <1>1, <2>1, PreviewOfIs
    <3> HIDE DEF p, a
    <3> QED
      BY <3>1, <3>2 DEF Previewed, Security, CarriesItsCost
  <2>2. CASE a.kind \in {"cash_dividend", "interest"}
    <3>1. p = PreviewCashIncome(a)
      BY <1>1, <2>2, PreviewOfIs
    <3> HIDE DEF p, a
    <3> QED
      BY <3>1 DEF PreviewCashIncome, Previewed, CashPair, CarriesItsCost
  <2> QED
    BY <1>1, <2>1, <2>2 DEF Determined
<1> HIDE DEF p, e, row
<1>8. Grown(e)
  BY <1>2, <1>3, GrownOnce DEF WholeNumbers
<1>9. \A v \in Workers : preview'[v] = NoPreview
  BY <1>2 DEF Undisturbed, TypeOK
<1>10. Sound(p.legs)
  BY <1>1 DEF IsPreview
<1> QED
  BY <1>1, <1>2, <1>3, <1>4, <1>5, <1>6, <1>7, <1>8, <1>9, <1>10 DEF Applies, p, a, row

\* What the event of a preview changes of the cost that is accounted for.
LEMMA PreviewedAccounts ==
  ASSUME position \in PositionSet, position.quantity > 0, NEW T \in Int, Accounted(position) = Whole(T),
         NEW a \in Actions, a.kind \in Determined, NEW p, p = PreviewOf(a), NEW after,
         after = [Projected(p.legs) EXCEPT !.average = p.average], Affordable(p.legs),
         a.kind \in {"split", "reverse_split"} => p.legs.quantity >= 0,
         a.kind = "return_of_capital" => Positive(p.average)
  PROVE  Accounted(after) = Whole(T + p.legs.security)
<1>1. position.quantity \in Nat \ {0} /\ Basis(position) \in FractionSet /\ Lowest(Basis(position))
      /\ position.average \in FractionSet /\ position.realized \in FractionSet
  BY BasisType, ResultsAreLowest DEF Basis
<1>2. (CHOOSE t \in Tickers : TRUE) # NoTicker
  BY HoldingsAssumption, JournalAssumption
<1>3. CASE a.kind \in {"split", "reverse_split"}
  <2>1. PICK n \in Nat : PreviewSplit(a) = Previewed(a, Security(n - position.quantity, 0, 0), 0, 0,
                                                     n, UnitCost(Basis(position), n))
    BY PreviewSplitIs
  <2>2. p = PreviewSplit(a)
    BY <1>3, PreviewOfIs
  <2>3. /\ p.legs = Security(n - position.quantity, 0, 0) /\ p.average = UnitCost(Basis(position), n)
        /\ p.legs.quantity = n - position.quantity /\ p.legs.security = 0 /\ p.legs.ticker # NoTicker
    BY <1>2, <2>1, <2>2 DEF Previewed, Security
  <2>4. n >= position.quantity /\ n \in Nat \ {0}
    BY <1>1, <1>3, <2>3
  <2>5. Projected(p.legs) \in PositionSet /\ Projected(p.legs).quantity = n
        /\ Projected(p.legs).realized = position.realized
    <3>1. CASE n = position.quantity
      BY <2>3, <3>1 DEF Projected, ApplyPosition
    <3>2. CASE n > position.quantity
      <4>1. n - position.quantity \in Nat \ {0}
        BY <1>1, <3>2
      <4>2. Projected(p.legs) = Acquired(position, n - position.quantity, 0)
        BY <2>3, <4>1 DEF Projected, ApplyPosition
      <4>3. position.quantity + (n - position.quantity) = n
        BY <1>1
      <4> QED
        BY <4>1, <4>2, <4>3, AcquiredIs
    <3> QED
      BY <1>1, <2>4, <3>1, <3>2
  <2>6. p.average = Over(Basis(position), n)
    BY <2>3, <2>4 DEF UnitCost
  <2>7. after.quantity = n /\ after.average = Over(Basis(position), n) /\ after.realized = position.realized
    BY <2>5, <2>6 DEF PositionSet
  <2>8. Basis(after) = Basis(position)
    BY <1>1, <2>4, <2>7, BasisRestored DEF Basis
  <2> QED
    BY <2>3, <2>7, <2>8 DEF Accounted
<1>4. CASE a.kind \in {"cash_dividend", "interest"}
  <2>1. p = PreviewCashIncome(a)
    BY <1>4, PreviewOfIs
  <2>2. p.legs.ticker = NoTicker /\ p.legs.security = 0 /\ p.average = position.average
    BY <2>1 DEF PreviewCashIncome, Previewed, CashPair
  <2>3. after = position
    BY <2>2 DEF Projected, PositionSet
  <2> QED
    BY <2>2, <2>3
<1>5. CASE a.kind = "return_of_capital"
  <2>1. p = PreviewReturnOfCapital(a)
    BY <1>5, PreviewOfIs
  <2>2. PICK cost \in Int : cost = -(a.per_share * position.quantity)
    <3>1. a.per_share \in Nat
      BY HoldingsAssumption DEF ActionSet
    <3>2. PICK paid \in Nat : paid = a.per_share * position.quantity
      BY <1>1, <3>1, NaturalProduct
    <3> QED
      BY <3>2
  <2>3. /\ p.legs.ticker # NoTicker /\ p.legs.quantity = 0 /\ p.legs.security = cost
        /\ p.average = Repaid(position, cost).average
    BY <1>2, <2>1, <2>2 DEF PreviewReturnOfCapital, Previewed, Security
  <2>4. p.average = Over(Plus(Basis(position), Whole(cost)), position.quantity)
    BY <1>1, <1>5, <2>3, RepaidIs
  <2>5. Projected(p.legs) = position
    BY <2>3 DEF Projected, ApplyPosition
  <2>6. after.quantity = position.quantity /\ after.average = p.average /\ after.realized = position.realized
    BY <2>5 DEF PositionSet
  <2>7. Plus(Basis(position), Whole(cost)) \in FractionSet /\ Lowest(Plus(Basis(position), Whole(cost)))
    BY <1>1, WholeType, SumType, ResultsAreLowest
  <2>8. Basis(after) = Plus(Basis(position), Whole(cost))
    BY <1>1, <2>4, <2>6, <2>7, BasisRestored DEF Basis
  <2>9. Minus(Basis(position), position.realized) = Whole(T)
    BY DEF Accounted
  <2> QED
    BY <1>1, <2>3, <2>6, <2>8, <2>9, CostComesIn DEF Accounted
<1> QED
  BY <1>3, <1>4, <1>5 DEF Determined

LEMMA ApplyConserves ==
  ASSUME Undisturbed, WholeNumbers, TypeOK, Conserved, NEW w \in Workers, ApplyCorporateAction(w)
  PROVE  Conserved'
<1>1. PICK a, e : Applies(w, a, e)
  BY ApplyPosts DEF Conserved
<1> DEFINE p == preview[w]
           row == [action |-> a, quantity |-> p.quantity, average |-> p.average]
<1>2. /\ a \in Actions /\ a.kind \in Determined /\ position.quantity > 0 /\ p = PreviewOf(a)
      /\ Affordable(p.legs) /\ position' = [Projected(p.legs) EXCEPT !.average = p.average]
      /\ applications' = Append(applications, row) /\ row.action = a /\ row.average = p.average
      /\ e.legs = p.legs
  BY <1>1 DEF Applies
<1> HIDE DEF p, row
<1>3. /\ Len(journal) \in Nat /\ DOMAIN journal = 1..Len(journal) /\ DOMAIN journal' = 1..(Len(journal) + 1)
      /\ Grown(e) /\ journal'[Len(journal) + 1] = e
  <2>1. Grown(e)
    BY <1>1 DEF Applies
  <2> QED
    BY <2>1 DEF Grown, WholeNumbers
<1>4. ASSUME BasisRemains' PROVE CostKept'
  <2>1. applications' = Append(applications, row) /\ applications \in Seq([action: Actions, quantity: Nat, average: FractionSet])
    BY <1>2 DEF TypeOK
  <2>2. /\ \A k \in DOMAIN applications : k \in DOMAIN applications' /\ applications'[k] = applications[k]
        /\ Len(applications) + 1 \in DOMAIN applications' /\ applications'[Len(applications) + 1] = row
    BY <2>1
  <2>3. \A i \in DOMAIN journal : /\ i \in DOMAIN journal' /\ journal'[i].type = journal[i].type
                                  /\ journal'[i].legs = journal[i].legs
                                  /\ journal[i].reversed => journal'[i].reversed
    BY <1>3 DEF Grown
  <2>4. BasisRemains
    BY <1>4, <2>2, <2>3 DEF BasisRemains, Ordinary
  <2>5. a.kind = "return_of_capital" => Positive(p.average)
    BY <1>2, <1>4, <2>2 DEF BasisRemains
  <2>6. a.kind \in {"split", "reverse_split"} => p.legs.quantity >= 0
    <3>1. Len(journal) + 1 \in DOMAIN journal' /\ (a.kind \in {"split", "reverse_split"} => e.type = "split")
      BY <1>1, <1>3 DEF Applies
    <3> QED
      BY <1>2, <1>3, <1>4, <3>1 DEF BasisRemains, Ordinary
  <2>7. Accounted(position) = Whole(CostIn(journal)) /\ position \in PositionSet
    BY <2>4 DEF Conserved, CostKept, TypeOK, PositionSet
  <2>8. CostIn(journal) \in Int /\ CostIn(journal') = CostIn(journal) + e.legs.security
    BY <1>3, CostInMore DEF WholeNumbers, Grown
  <2>9. Accounted(position') = Whole(CostIn(journal) + p.legs.security)
    BY <1>2, <2>5, <2>6, <2>7, <2>8, PreviewedAccounts
  <2>10. ASSUME NEW i \in DOMAIN journal', journal'[i].type # "return_of_capital" PROVE CarriesItsCost(journal'[i].legs)
    <3>1. CASE i \in DOMAIN journal
      BY <1>3, <2>4, <2>10, <3>1 DEF Grown, Conserved, CostKept
    <3>2. CASE i = Len(journal) + 1
      BY <1>1, <1>3, <2>10, <3>2 DEF Applies
    <3> QED
      BY <1>3, <3>1, <3>2
  <2> QED
    BY <1>2, <2>8, <2>9, <2>10 DEF CostKept
<1>5. \A v \in Workers : preview'[v] = NoPreview
  BY <1>1 DEF Applies
<1> QED
  BY <1>4, <1>5 DEF Conserved, PreviewsStand

LEMMA PreviewConserves ==
  ASSUME Undisturbed, WholeNumbers, TypeOK, Conserved, NEW w \in Workers, NEW a \in Actions,
         PreviewApplication(w, a)
  PROVE  Conserved'
<1>1. /\ preview' = [preview EXCEPT ![w] = PreviewOf(a)] /\ UNCHANGED <<journal, position, applications>>
      /\ a.kind \in Determined /\ position.quantity > 0
  BY DEF PreviewApplication, PreviewOf, Applicable
<1>2. PreviewOf(a)' = PreviewOf(a)
  BY <1>1 DEF PreviewOf, PreviewSplit, PreviewCashIncome, PreviewReturnOfCapital
<1>3. ASSUME NEW v \in Workers
      PROVE  preview'[v] = PreviewOf(a)
  BY <1>1 DEF Undisturbed, TypeOK
<1>4. \A v \in Workers : \E b \in Actions : b.kind \in Determined /\ preview'[v] = PreviewOf(b)'
  BY <1>1, <1>2, <1>3
<1>5. BasisRemains' => CostKept'
  BY <1>1 DEF Conserved, PreviewsStand, BasisRemains, Ordinary, CostKept
<1> QED
  BY <1>1, <1>4, <1>5 DEF Conserved, PreviewsStand

\* Steps that leave the book, and the previews that still stand, as they are.
LEMMA OthersConserve ==
  ASSUME WholeNumbers, Conserved, UNCHANGED <<journal, position, applications>>,
         DOMAIN preview' = Workers, \A w \in Workers : preview'[w] \in {preview[w], NoPreview}
  PROVE  Conserved'
<1>1. \A a \in Actions : PreviewOf(a)' = PreviewOf(a)
  BY DEF PreviewOf, PreviewSplit, PreviewCashIncome, PreviewReturnOfCapital
<1>2. ASSUME NEW w \in Workers, preview'[w] # NoPreview
      PROVE  position'.quantity > 0 /\ \E a \in Actions : a.kind \in Determined /\ preview'[w] = PreviewOf(a)'
  <2>1. preview'[w] = preview[w] /\ preview[w] # NoPreview
    BY <1>2
  <2> QED
    BY <1>1, <2>1 DEF Conserved, PreviewsStand
<1>3. BasisRemains' => CostKept'
  BY DEF Conserved, PreviewsStand, BasisRemains, Ordinary, CostKept
<1> QED
  BY <1>2, <1>3 DEF Conserved, PreviewsStand

LEMMA ConservedInit == Init => Conserved
<1> SUFFICES ASSUME Init PROVE Conserved
  OBVIOUS
<1>1. DOMAIN journal = {} /\ \A w \in Workers : preview[w] = NoPreview
  BY DEF Init
<1>2. Accounted(position) = Whole(0)
  <2>1. position.average = Zero /\ position.quantity = 0 /\ position.realized = Zero
    BY DEF Init, NoPosition
  <2>2. Zero \in FractionSet /\ Times(Zero, 0) = Zero /\ Lowest(Minus(Zero, Zero)) /\ Lowest(Whole(0))
    BY WholeType, NoSharesNoBasis, ResultsAreLowest, WholeIsLowest
  <2>3. PICK scale \in Nat \ {0}, n \in Int : Measures(Zero, scale, n)
    BY <2>2, CommonUnits
  <2>4. Measures(Minus(Zero, Zero), scale, 0)
    <3>1. Measures(Minus(Zero, Zero), scale, n - n) /\ n - n = 0
      BY <2>3, PlusMeasures
    <3> QED
      BY <3>1
  <2>5. Measures(Whole(0), scale, 0)
    <3>1. Measures(Whole(0), scale, 0 * scale) /\ 0 * scale = 0
      BY WholeMeasures
    <3> QED
      BY <3>1
  <2>6. Minus(Zero, Zero) = Whole(0)
    BY <2>2, <2>4, <2>5, MeasuresTell
  <2> QED
    BY <2>1, <2>2, <2>6 DEF Accounted, Basis
<1>3. CostIn(journal) = 0
  BY <1>1, CostInNothing
<1> QED
  BY <1>1, <1>2, <1>3 DEF Conserved, PreviewsStand, CostKept

LEMMA ConservedStep ==
  ASSUME Undisturbed
  PROVE  WholeNumbers /\ TypeOK /\ Conserved /\ [Next]_vars => Conserved'
<1> SUFFICES ASSUME WholeNumbers, TypeOK, Conserved, [Next]_vars PROVE Conserved'
  OBVIOUS
<1>1. DOMAIN preview = Workers
  BY DEF TypeOK
<1>2. ASSUME UNCHANGED <<journal, position, applications, preview>> PROVE Conserved'
  <2>1. DOMAIN preview' = Workers /\ \A w \in Workers : preview'[w] \in {preview[w], NoPreview}
    BY <1>1, <1>2
  <2> QED
    BY <1>2, <2>1, OthersConserve
<1>3. ASSUME NEW w \in Workers, AbandonApplication(w) PROVE Conserved'
  <2>1. DOMAIN preview' = Workers /\ \A v \in Workers : preview'[v] \in {preview[v], NoPreview}
    BY <1>1, <1>3 DEF AbandonApplication
  <2> QED
    BY <1>3, <2>1, OthersConserve DEF AbandonApplication
<1>4. ASSUME NEW w \in Workers, NEW tx \in Orders, RefuseTransaction(w, tx) PROVE Conserved'
  BY <1>2, <1>4 DEF RefuseTransaction, vars
<1>5. ASSUME NEW a \in Actions, RecordCorporateAction(a) PROVE Conserved'
  BY <1>2, <1>5 DEF RecordCorporateAction
<1>6. CASE Tick \/ UNCHANGED vars
  BY <1>2, <1>6 DEF Tick, vars
<1> QED
  BY <1>3, <1>4, <1>5, <1>6, RecordConserves, ReverseConserves, ApplyConserves, PreviewConserves DEF Next

\* As long as one session posts, whatever is bought, sold, split, reversed, at
\* whatever prices and in whatever order, the average cost and the realized
\* profit account for what the security legs of the journal add up to.  Three
\* things take cost away, as they do in the code: a split that takes shares, a
\* return of capital beyond the basis, and the reversal of one.
THEOREM NoCostIsLost ==
  ASSUME Undisturbed
  PROVE  Spec => [](BasisRemains => CostIsConserved)
<1>1. Conserved => (BasisRemains => CostIsConserved)
  BY CostInIs DEF Conserved, CostKept, CostIsConserved, SumOver, Accounted
<1> QED
  BY <1>1, ConservedInit, ConservedStep, HoldingsTypesCorrect, NothingHeldShort, PTL DEF Spec

-----------------------------------------------------------------------------
(* A journal, folded *)

Start == [cash |-> 0, position |-> NoPosition]

\* `it' folds the events of every set of the first n, the latest last.
Folds(it, log, n) ==
  it = [s \in SUBSET (1..n) |-> IF s = {} THEN Start ELSE FoldEvent(it[s \ {Max(s)}], log[Max(s)])]

\* Folding the first n events gives `state', and nothing else.
Replayed(log, n, state) ==
  \E it : Folds(it, log, n) /\ it[1..n] = state /\ \A other : Folds(other, log, n) => other = it

LEMMA NothingReplayed == ASSUME NEW log PROVE Replayed(log, 0, Start)
<1> DEFINE it == [s \in SUBSET (1..0) |-> Start]
<1>1. 1..0 = {} /\ SUBSET (1..0) = {{}}
  OBVIOUS
<1>2. Folds(it, log, 0) /\ \A other : Folds(other, log, 0) => other = it
  BY <1>1 DEF Folds
<1> QED
  BY <1>1, <1>2 DEF Replayed

\* The greatest of some of the first n numbers.
LEMMA LatestIs ==
  ASSUME NEW n \in Nat, NEW s \in SUBSET (1..n), s # {}
  PROVE  Max(s) \in s /\ (n \in s => Max(s) = n)
<1>1. s \in SUBSET Int /\ \A y \in s : y <= n
  OBVIOUS
<1>2. PICK latest \in s : latest = Max(s) /\ \A y \in s : y <= latest
  <2>1. Max(s) \in s /\ \A y \in s : y <= Max(s)
    BY <1>1, MaxIs
  <2> QED
    BY <2>1
<1>3. n \in s => n <= latest
  BY <1>2
<1> QED
  BY <1>1, <1>2, <1>3

LEMMA ReplayedMore ==
  ASSUME NEW log, NEW n \in Nat, NEW state, Replayed(log, n, state)
  PROVE  Replayed(log, n + 1, FoldEvent(state, log[n + 1]))
<1>1. PICK it : Folds(it, log, n) /\ it[1..n] = state /\ \A other : Folds(other, log, n) => other = it
  BY DEF Replayed
<1> DEFINE m == n + 1
           more == [s \in SUBSET (1..m) |-> IF m \in s THEN FoldEvent(it[s \ {m}], log[m]) ELSE it[s]]
<1>2. /\ m \in Nat /\ m \in 1..m /\ m \notin 1..n /\ (1..m) \ {m} = 1..n /\ SUBSET (1..n) \subseteq SUBSET (1..m)
      /\ \A s \in SUBSET (1..m) : s \ {m} \in SUBSET (1..n) /\ (m \notin s => s \in SUBSET (1..n))
  OBVIOUS
<1> HIDE DEF m
<1>3. \A s \in SUBSET (1..n) : it[s] = IF s = {} THEN Start ELSE FoldEvent(it[s \ {Max(s)}], log[Max(s)])
  BY <1>1 DEF Folds
<1>4. Folds(more, log, m)
  <2>1. ASSUME NEW s \in SUBSET (1..m)
        PROVE  more[s] = IF s = {} THEN Start ELSE FoldEvent(more[s \ {Max(s)}], log[Max(s)])
    <3>1. CASE m \in s
      <4>1. Max(s) = m /\ s # {}
        BY <1>2, <3>1, LatestIs
      <4>2. s \ {m} \in SUBSET (1..m) /\ m \notin s \ {m}
        BY <1>2
      <4>3. more[s \ {m}] = it[s \ {m}]
        BY <4>2
      <4> QED
        BY <3>1, <4>1, <4>3
    <3>2. CASE m \notin s /\ s # {}
      <4>1. s \in SUBSET (1..n) /\ Max(s) \in s
        BY <1>2, <3>2, LatestIs
      <4>2. s \ {Max(s)} \in SUBSET (1..m) /\ m \notin s \ {Max(s)}
        BY <3>2
      <4>3. more[s \ {Max(s)}] = it[s \ {Max(s)}]
        BY <4>2
      <4> QED
        BY <1>3, <3>2, <4>1, <4>3
    <3>3. CASE s = {}
      BY <1>3, <3>3
    <3> QED
      BY <3>1, <3>2, <3>3
  <2> QED
    BY <2>1 DEF Folds
<1>5. ASSUME NEW other, Folds(other, log, m) PROVE other = more
  <2> DEFINE part == [s \in SUBSET (1..n) |-> other[s]]
  <2>1. other = [s \in SUBSET (1..m) |-> IF s = {} THEN Start ELSE FoldEvent(other[s \ {Max(s)}], log[Max(s)])]
    BY <1>5 DEF Folds
  <2>2. Folds(part, log, n)
    <3>1. ASSUME NEW s \in SUBSET (1..n)
          PROVE  part[s] = IF s = {} THEN Start ELSE FoldEvent(part[s \ {Max(s)}], log[Max(s)])
      <4>1. s \ {Max(s)} \in SUBSET (1..n) /\ s \in SUBSET (1..m)
        BY <1>2
      <4>2. part[s \ {Max(s)}] = other[s \ {Max(s)}]
        BY <4>1
      <4> QED
        BY <2>1, <4>1, <4>2
    <3> QED
      BY <3>1 DEF Folds
  <2>3. part = it
    BY <1>1, <2>2
  <2>4. ASSUME NEW s \in SUBSET (1..n) PROVE other[s] = it[s]
    BY <2>3
  <2>5. ASSUME NEW s \in SUBSET (1..m) PROVE other[s] = more[s]
    <3>1. CASE m \in s
      <4>1. Max(s) = m /\ s # {} /\ s \ {m} \in SUBSET (1..n)
        BY <1>2, <3>1, LatestIs
      <4>2. other[s \ {m}] = it[s \ {m}]
        BY <2>4, <4>1
      <4> QED
        BY <2>1, <3>1, <4>1, <4>2
    <3>2. CASE m \notin s
      BY <1>2, <2>4, <3>2
    <3> QED
      BY <3>1, <3>2
  <2> HIDE DEF more
  <2>6. more = [s \in SUBSET (1..m) |-> more[s]]
    BY DEF more
  <2> QED
    BY <2>1, <2>5, <2>6
<1>6. more[1..m] = FoldEvent(state, log[m])
  <2>1. more[1..m] = FoldEvent(it[(1..m) \ {m}], log[m])
    BY <1>2
  <2> QED
    BY <1>1, <1>2, <2>1
<1> HIDE DEF more
<1>7. Replayed(log, m, FoldEvent(state, log[m]))
  BY <1>4, <1>5, <1>6 DEF Replayed
<1> QED
  BY <1>7 DEF m

LEMMA ReplayedOnce ==
  ASSUME NEW log, NEW n, NEW x, Replayed(log, n, x), NEW y, Replayed(log, n, y)
  PROVE  x = y
<1>1. PICK it : Folds(it, log, n) /\ it[1..n] = x /\ \A other : Folds(other, log, n) => other = it
  BY DEF Replayed
<1>2. PICK that : Folds(that, log, n) /\ that[1..n] = y
  BY DEF Replayed
<1> QED
  BY <1>1, <1>2

\* A replay looks at nothing but legs.
LEMMA ReplayedSame ==
  ASSUME NEW log, NEW other, NEW n \in Nat, \A i \in 1..n : other[i].legs = log[i].legs,
         NEW state, Replayed(log, n, state)
  PROVE  Replayed(other, n, state)
<1>1. ASSUME NEW i \in 1..n, NEW x PROVE FoldEvent(x, other[i]) = FoldEvent(x, log[i])
  BY DEF FoldEvent
<1>2. ASSUME NEW it PROVE Folds(it, other, n) <=> Folds(it, log, n)
  <2>1. ASSUME NEW s \in SUBSET (1..n), s # {}
        PROVE  FoldEvent(it[s \ {Max(s)}], other[Max(s)]) = FoldEvent(it[s \ {Max(s)}], log[Max(s)])
    <3>1. Max(s) \in 1..n
      BY <2>1, LatestIs
    <3> QED
      BY <1>1, <3>1
  <2>2. [s \in SUBSET (1..n) |-> IF s = {} THEN Start ELSE FoldEvent(it[s \ {Max(s)}], other[Max(s)])]
          = [s \in SUBSET (1..n) |-> IF s = {} THEN Start ELSE FoldEvent(it[s \ {Max(s)}], log[Max(s)])]
    BY <2>1
  <2> QED
    BY <2>2 DEF Folds
<1> QED
  BY <1>2 DEF Replayed

LEMMA ReplayedExists ==
  ASSUME NEW log, NEW n \in Nat
  PROVE  \E state : Replayed(log, n, state)
<1> DEFINE Good == {m \in Nat : \E state : Replayed(log, m, state)}
<1>1. 0 \in Good
  BY NothingReplayed
<1>2. \A m \in Nat : m \in Good => m + 1 \in Good
  BY ReplayedMore
<1> HIDE DEF Good
<1>3. Nat \subseteq Good
  BY <1>1, <1>2, NaturalInduction
<1> QED
  BY <1>3 DEF Good

-----------------------------------------------------------------------------
(* What is replayed of a journal that was posted in order *)

InOrder(log) == \A i, j \in DOMAIN log : i < j => log[i].occurred <= log[j].occurred

\* A set of the first n numbers that has, with a number, those below it.
LEMMA InitialSegment ==
  ASSUME NEW n \in Nat, NEW S \in SUBSET (1..n), \A i \in S : \A j \in 1..n : j < i => j \in S
  PROVE  \E m \in 0..n : S = 1..m
<1>1. CASE S = {}
  <2>1. 0 \in 0..n /\ S = 1..0
    BY <1>1
  <2> QED
    BY <2>1
<1>2. CASE S # {}
  <2>1. S \in SUBSET Int /\ \A y \in S : y <= n
    OBVIOUS
  <2>2. PICK m \in S : \A y \in S : y <= m
    <3>1. Max(S) \in S /\ \A y \in S : y <= Max(S)
      <4>1. ASSUME NEW T \in SUBSET Int, T # {}, \A y \in T : y <= n
            PROVE  Max(T) \in T /\ \A y \in T : y <= Max(T)
        BY <4>1, MaxIs
      <4> QED
        BY <1>2, <2>1, <4>1
    <3> QED
      BY <3>1
  <2>3. S = 1..m
    <3>1. ASSUME NEW i \in S PROVE i \in 1..m
      BY <2>2
    <3>2. ASSUME NEW i \in 1..m PROVE i \in S
      BY <2>2
    <3> QED
      BY <3>1, <3>2
  <2> QED
    BY <2>3
<1> QED
  BY <1>1, <1>2

LEMMA FirstOnes ==
  ASSUME NEW m \in Nat
  PROVE  IsFiniteSet(1..m) /\ Cardinality(1..m) = m
<1>1. IsFiniteSet(1..m) /\ Cardinality(1..m) = IF 1 > m THEN 0 ELSE m - 1 + 1
  BY FS_Interval
<1> QED
  BY <1>1

\* The events are replayed as they lie, up to the last one that the cutoff shows.
LEMMA ReplayedInOrder ==
  ASSUME NEW log \in Seq(Events), InOrder(log), NEW cutoff \in Int
  PROVE  \E m \in 0..Len(log) : Through(log, cutoff) = 1..m /\ EventsThrough(log, cutoff) = [k \in 1..m |-> k]
<1>1. Len(log) \in Nat /\ DOMAIN log = 1..Len(log) /\ \A i \in DOMAIN log : log[i].occurred \in Int
  <2>1. \A i \in DOMAIN log : log[i] \in Events
    OBVIOUS
  <2> QED
    BY <2>1 DEF Events, Moments
<1>2. PICK m \in 0..Len(log) : Through(log, cutoff) = 1..m
  <2>1. Through(log, cutoff) \in SUBSET (1..Len(log))
    BY <1>1 DEF Through
  <2>2. ASSUME NEW i \in Through(log, cutoff), NEW j \in 1..Len(log), j < i PROVE j \in Through(log, cutoff)
    <3>1. log[j].occurred <= log[i].occurred /\ log[i].occurred <= cutoff
      BY <1>1, <2>2 DEF Through, InOrder
    <3> QED
      BY <1>1, <2>2, <3>1 DEF Through
  <2> QED
    BY <1>1, <2>1, <2>2, InitialSegment
<1>3. m \in Nat /\ 1..m \subseteq DOMAIN log
  BY <1>1
<1> DEFINE places == Places(log, 1..m)
<1>4. \A i \in 1..m : places[i] = i
  <2> SUFFICES ASSUME NEW i \in 1..m PROVE places[i] = i
    OBVIOUS
  <2>1. ASSUME NEW j \in 1..m PROVE Before(log, j, i) <=> j < i
    <3>1. CASE j < i
      BY <1>1, <1>3, <3>1 DEF Before, InOrder
    <3>2. CASE i < j
      <4>1. log[i].occurred <= log[j].occurred
        BY <1>3, <3>2 DEF InOrder
      <4> QED
        BY <1>1, <1>3, <3>2, <4>1 DEF Before
    <3>3. CASE i = j
      BY <1>1, <1>3, <3>3 DEF Before
    <3> QED
      BY <3>1, <3>2, <3>3
  <2>2. {j \in 1..m : Before(log, j, i)} = 1..(i - 1)
    BY <1>3, <2>1
  <2>3. i - 1 \in Nat /\ Cardinality(1..(i - 1)) = i - 1
    BY <1>3, FirstOnes
  <2>4. places[i] = Cardinality({j \in 1..m : Before(log, j, i)}) + 1
    BY DEF Places
  <2>5. PICK below \in Nat : below = Cardinality({j \in 1..m : Before(log, j, i)}) /\ below = i - 1
    BY <2>2, <2>3
  <2> HIDE DEF places
  <2> QED
    BY <1>3, <2>4, <2>5
<1>5. DOMAIN places = 1..m /\ Cardinality(1..m) = m
  BY <1>3, FirstOnes DEF Places
<1>6. EventsThrough(log, cutoff) = [k \in 1..m |-> CHOOSE i \in 1..m : places[i] = k]
  BY <1>2, <1>5 DEF EventsThrough
<1> HIDE DEF places
<1>7. \A k \in 1..m : (CHOOSE i \in 1..m : places[i] = k) = k
  BY <1>4
<1> QED
  BY <1>2, <1>6, <1>7

\* So the replay folds the first of them.
LEMMA ReplayIsOfFirst ==
  ASSUME NEW log, NEW cutoff, NEW m \in Nat, EventsThrough(log, cutoff) = [k \in 1..m |-> k],
         NEW state, Replayed(log, m, state)
  PROVE  ReplayState(log, cutoff) = state
<1>1. PICK it : Folds(it, log, m) /\ it[1..m] = state /\ \A other : Folds(other, log, m) => other = it
  BY DEF Replayed
<1> DEFINE Iterates(u) == u = [s \in SUBSET (1..m) |->
                                 IF s = {} THEN Start
                                 ELSE FoldEvent(u[s \ {Max(s)}], log[[k \in 1..m |-> k][Max(s)]])]
<1>2. ASSUME NEW u PROVE Iterates(u) <=> Folds(u, log, m)
  <2>1. ASSUME NEW s \in SUBSET (1..m), s # {} PROVE [k \in 1..m |-> k][Max(s)] = Max(s)
    <3>1. Max(s) \in 1..m
      BY <2>1, LatestIs
    <3> QED
      BY <3>1
  <2>2. [s \in SUBSET (1..m) |-> IF s = {} THEN Start ELSE FoldEvent(u[s \ {Max(s)}], log[[k \in 1..m |-> k][Max(s)]])]
          = [s \in SUBSET (1..m) |-> IF s = {} THEN Start ELSE FoldEvent(u[s \ {Max(s)}], log[Max(s)])]
    BY <2>1
  <2> QED
    BY <2>2 DEF Folds
<1>3. (CHOOSE u : Iterates(u)) = it
  BY <1>1, <1>2
<1>4. ReplayState(log, cutoff) = (CHOOSE u : Iterates(u))[1..m]
  BY DEF ReplayState, FoldLeft, MapThenFoldSet, Start
<1> QED
  BY <1>1, <1>3, <1>4

-----------------------------------------------------------------------------
(* The past is covered *)

LEMMA FoldedIs ==
  ASSUME NEW x, IsPosition(x.position), x.cash \in Nat, NEW e, Sound(e.legs),
         x.position.quantity + e.legs.quantity \in Nat, x.cash + e.legs.cash \in Nat
  PROVE  /\ IsPosition(FoldEvent(x, e).position)
         /\ FoldEvent(x, e).position.quantity = x.position.quantity + e.legs.quantity
         /\ FoldEvent(x, e).cash = x.cash + e.legs.cash
<1> DEFINE p == x.position
           q == e.legs.quantity
           a == e.legs.security
<1>1. /\ FoldEvent(x, e).position = IF e.legs.ticker = NoTicker THEN p ELSE FoldSecurityLeg(p, q, a)
      /\ FoldEvent(x, e).cash = x.cash + e.legs.cash
  BY DEF FoldEvent
<1>2. q \in Int /\ p.quantity \in Nat
  BY DEF Sound, Legs, IsPosition
<1>3. CASE e.legs.ticker = NoTicker
  BY <1>1, <1>2, <1>3 DEF Sound
<1>4. CASE e.legs.ticker # NoTicker /\ FoldSecurityLeg(p, q, a) = ApplyPosition(p, q, a)
  BY <1>1, <1>2, <1>4, AppliedIs
<1>5. CASE e.legs.ticker # NoTicker /\ q = 0 /\ FoldSecurityLeg(p, q, a) = Repaid(p, a)
  <2>1. PICK average, realized : p = [quantity |-> p.quantity, average |-> average, realized |-> realized]
    BY DEF IsPosition
  <2>2. PICK other : Repaid(p, a) = [p EXCEPT !.average = other]
    BY DEF Repaid
  <2>3. Repaid(p, a) = [quantity |-> p.quantity, average |-> other, realized |-> realized]
    BY <2>1, <2>2
  <2> QED
    BY <1>1, <1>2, <1>5, <2>3, MadePosition
<1>6. \/ FoldSecurityLeg(p, q, a) = ApplyPosition(p, q, a)
      \/ q = 0 /\ FoldSecurityLeg(p, q, a) = Repaid(p, a)
  BY <1>2 DEF FoldSecurityLeg, ApplyPosition
<1> QED
  BY <1>3, <1>4, <1>5, <1>6

\* However much of the journal is folded, nothing is short; all of it gives the
\* shares and the cash there are.
Covered ==
  /\ \A m \in 0..Len(journal) : \A x : Replayed(journal, m, x) => IsPosition(x.position) /\ x.cash \in Nat
  /\ \A x : Replayed(journal, Len(journal), x) => x.position.quantity = position.quantity /\ x.cash = cash

LEMMA CoveredInit == Init => Covered
<1> SUFFICES ASSUME Init PROVE Covered
  OBVIOUS
<1>1. Len(journal) = 0 /\ position = NoPosition /\ cash = 0
  BY DEF Init
<1>2. ASSUME NEW x, Replayed(journal, 0, x) PROVE x = Start
  BY <1>2, NothingReplayed, ReplayedOnce
<1>3. IsPosition(NoPosition) /\ Start.position = NoPosition /\ Start.cash = 0
  BY DEF IsPosition, NoPosition, Start
<1>4. \A m \in 0..Len(journal) : m = 0
  BY <1>1
<1> QED
  BY <1>1, <1>2, <1>3, <1>4 DEF Covered

\* What was replayed of a journal before an event was posted.
LEMMA ReplayedBefore ==
  ASSUME WholeNumbers, NEW e, Posted(e)
  PROVE  /\ \A m \in 0..Len(journal) : \A x : Replayed(journal', m, x) => Replayed(journal, m, x)
         /\ \A x : Replayed(journal', Len(journal) + 1, x) =>
              \E y : Replayed(journal, Len(journal), y) /\ x = FoldEvent(y, e)
<1> DEFINE n == Len(journal)
<1>1. /\ n \in Nat /\ journal'[n + 1] = e
      /\ \A i \in 1..n : journal[i].legs = journal'[i].legs
  BY DEF WholeNumbers, Posted
<1> HIDE DEF n
<1>2. ASSUME NEW m \in 0..n, NEW x, Replayed(journal', m, x) PROVE Replayed(journal, m, x)
  <2>1. m \in Nat /\ \A i \in 1..m : journal[i].legs = journal'[i].legs
    BY <1>1
  <2> QED
    BY <1>2, <2>1, ReplayedSame
<1>3. ASSUME NEW x, Replayed(journal', n + 1, x)
      PROVE  \E y : Replayed(journal, n, y) /\ x = FoldEvent(y, e)
  <2>1. PICK y : Replayed(journal, n, y)
    BY <1>1, ReplayedExists
  <2>2. Replayed(journal', n, y)
    <3>1. \A i \in 1..n : journal'[i].legs = journal[i].legs
      BY <1>1
    <3> QED
      BY <1>1, <2>1, <3>1, ReplayedSame
  <2>3. Replayed(journal', n + 1, FoldEvent(y, e))
    BY <1>1, <2>2, ReplayedMore
  <2> QED
    BY <1>3, <2>1, <2>3, ReplayedOnce
<1> QED
  BY <1>2, <1>3 DEF n

LEMMA CoveredStep == WholeNumbers /\ Covered /\ [Next]_vars => Covered'
<1> SUFFICES ASSUME WholeNumbers, Covered, [Next]_vars PROVE Covered'
  OBVIOUS
<1>1. CASE Untouched
  BY <1>1 DEF Untouched, Covered
<1>2. ASSUME NEW e, Posted(e) PROVE Covered'
  <2> DEFINE n == Len(journal)
  <2>1. /\ n \in Nat /\ Len(journal') = n + 1 /\ Sound(e.legs) /\ e.legs.quantity \in Int /\ e.legs.cash \in Int
        /\ position'.quantity \in Nat /\ position'.quantity = position.quantity + e.legs.quantity
        /\ cash' \in Nat /\ cash' = cash + e.legs.cash
    BY <1>2 DEF WholeNumbers, Posted, Sound, Legs, IsPosition
  <2>2. /\ \A m \in 0..n : \A x : Replayed(journal', m, x) => Replayed(journal, m, x)
        /\ \A x : Replayed(journal', n + 1, x) => \E y : Replayed(journal, n, y) /\ x = FoldEvent(y, e)
    BY <1>2, ReplayedBefore
  <2> HIDE DEF n
  <2>3. ASSUME NEW x, Replayed(journal', n + 1, x)
        PROVE  /\ IsPosition(x.position) /\ x.cash \in Nat
               /\ x.position.quantity = position'.quantity /\ x.cash = cash'
    <3>1. PICK y : Replayed(journal, n, y) /\ x = FoldEvent(y, e)
      BY <2>2, <2>3
    <3>2. IsPosition(y.position) /\ y.cash \in Nat /\ y.position.quantity = position.quantity /\ y.cash = cash
      <4>1. n \in 0..n
        BY <2>1
      <4> QED
        BY <3>1, <4>1 DEF Covered, n
    <3> QED
      BY <2>1, <3>1, <3>2, FoldedIs
  <2>4. ASSUME NEW m \in 0..(n + 1), NEW x, Replayed(journal', m, x) PROVE IsPosition(x.position) /\ x.cash \in Nat
    <3>1. CASE m \in 0..n
      BY <2>2, <2>4, <3>1 DEF Covered, n
    <3>2. CASE m = n + 1
      BY <2>3, <2>4, <3>2
    <3> QED
      BY <2>1, <3>1, <3>2
  <2> QED
    BY <2>1, <2>3, <2>4 DEF Covered
<1> QED
  BY <1>1, <1>2, StepShape

\* If events are posted as they occur, then no cutoff shows a past in which more
\* had been sold or spent than was there, however many sessions race.
THEOREM PastIsCovered == Spec => []HistoryIsCovered
<1>1. WholeNumbers /\ Covered => HistoryIsCovered
  <2> SUFFICES ASSUME WholeNumbers, Covered, PostedInOrder, NEW cutoff \in Moments
               PROVE  ReplayState(journal, cutoff).position.quantity >= 0 /\ ReplayState(journal, cutoff).cash >= 0
    BY DEF HistoryIsCovered
  <2>1. PICK m \in 0..Len(journal) : EventsThrough(journal, cutoff) = [k \in 1..m |-> k]
    <3>1. journal \in Seq(Events) /\ InOrder(journal) /\ cutoff \in Int
      BY HoldingsAssumption DEF WholeNumbers, PostedInOrder, InOrder, Moments
    <3> QED
      BY <3>1, ReplayedInOrder
  <2>2. m \in Nat
    BY DEF WholeNumbers
  <2>3. PICK x : Replayed(journal, m, x)
    BY <2>2, ReplayedExists
  <2>4. ReplayState(journal, cutoff) = x
    BY <2>1, <2>2, <2>3, ReplayIsOfFirst
  <2>5. IsPosition(x.position) /\ x.cash \in Nat
    BY <2>3 DEF Covered
  <2> QED
    BY <2>4, <2>5 DEF IsPosition
<1> QED
  BY <1>1, CoveredInit, CoveredStep, WholeNumbersStep, WholeNumbersInit, NothingHeldShort, PTL DEF Spec

-----------------------------------------------------------------------------
(* What is replayed of the whole journal is what the book holds *)

LEMMA OverIsLowest ==
  ASSUME NEW x \in FractionSet, NEW k \in Nat \ {0}
  PROVE  Lowest(Over(x, k))
<1>1. PICK n \in Int, d \in Nat \ {0} : n = x.num /\ d = x.den
  BY DEF FractionSet
<1>2. d * k \in Nat \ {0}
  BY PositiveProduct
<1> QED
  BY <1>1, <1>2, FractionIsLowest DEF Over

LEMMA ZeroIsLowest == Lowest(Zero) /\ Zero \in FractionSet
BY WholeIsLowest, WholeType DEF Zero

\* Nothing comes in.
LEMMA PlusNothing ==
  ASSUME NEW x \in FractionSet, Lowest(x)
  PROVE  Plus(x, Whole(0)) = x
<1>1. PICK scale \in Nat \ {0}, a \in Int : Measures(x, scale, a)
  BY CommonUnits
<1>2. Measures(Plus(x, Whole(0)), scale, a)
  <2>1. Measures(Whole(0), scale, 0 * scale) /\ 0 * scale = 0 /\ a + 0 = a
    BY WholeMeasures
  <2>2. Measures(Plus(x, Whole(0)), scale, a + 0)
    BY <1>1, <2>1, PlusMeasures
  <2> QED
    BY <2>1, <2>2
<1>3. Lowest(Plus(x, Whole(0)))
  BY WholeType, ResultsAreLowest
<1> QED
  BY <1>1, <1>2, <1>3, MeasuresTell

\* A basis restores the unit cost it was made of.
LEMMA AverageRestored ==
  ASSUME NEW x \in FractionSet, Lowest(x), NEW k \in Nat \ {0}
  PROVE  Over(Times(x, k), k) = x
<1>1. PICK scale \in Nat \ {0}, a \in Int : Measures(x, scale, a)
  BY CommonUnits
<1>2. Measures(Times(x, k), scale, a * k) /\ Times(x, k) \in FractionSet
  BY <1>1, TimesMeasures, TimesType
<1>3. Measures(Over(Times(x, k), k), scale, a)
  BY <1>2, OverMeasures
<1>4. Lowest(Over(Times(x, k), k))
  BY <1>2, OverIsLowest
<1> QED
  BY <1>1, <1>3, <1>4, MeasuresTell

LEMMA SameAverage ==
  ASSUME NEW p \in PositionSet
  PROVE  [p EXCEPT !.average = p.average] = p
BY DEF PositionSet

LEMMA ProjectedLowest ==
  ASSUME position \in PositionSet, Lowest(position.average), NEW legs, Sound(legs), Affordable(legs)
  PROVE  Lowest(Projected(legs).average)
<1>1. legs.quantity \in Int /\ legs.security \in Int /\ position.quantity \in Nat
  BY BasisType DEF Sound, Legs
<1>2. CASE legs.ticker = NoTicker \/ legs.quantity = 0
  BY <1>1, <1>2 DEF Projected, ApplyPosition
<1>3. CASE legs.ticker # NoTicker /\ legs.quantity > 0
  <2>1. Projected(legs) = Acquired(position, legs.quantity, legs.security)
    BY <1>3 DEF Projected, ApplyPosition
  <2>2. legs.quantity \in Nat \ {0} /\ position.quantity + legs.quantity \in Nat \ {0}
    BY <1>1, <1>3
  <2>3. Plus(Basis(position), Whole(legs.security)) \in FractionSet
    BY <1>1, BasisType, WholeType, SumType
  <2>4. Projected(legs).average =
          Over(Plus(Basis(position), Whole(legs.security)), position.quantity + legs.quantity)
    <3>1. PICK k \in Nat \ {0}, cost \in Int : k = legs.quantity /\ cost = legs.security
      BY <1>1, <2>2
    <3>2. Acquired(position, k, cost).average = Over(Plus(Basis(position), Whole(cost)), position.quantity + k)
      BY AcquiredIs
    <3> QED
      BY <2>1, <3>1, <3>2
  <2>5. Lowest(Over(Plus(Basis(position), Whole(legs.security)), position.quantity + legs.quantity))
    BY <2>2, <2>3, OverIsLowest
  <2> QED
    BY <2>4, <2>5
<1>4. CASE legs.ticker # NoTicker /\ legs.quantity < 0
  <2>1. Projected(legs) = Released(position, -legs.quantity, legs.security)
    BY <1>1, <1>4 DEF Projected, ApplyPosition
  <2>2. -legs.quantity \in Nat /\ -legs.quantity <= position.quantity
    BY <1>1, <1>4 DEF Affordable
  <2>3. Projected(legs).average = IF position.quantity = -legs.quantity THEN Zero ELSE position.average
    BY <1>1, <2>1, <2>2, ReleasedIs
  <2> QED
    BY <2>3, ZeroIsLowest
<1> QED
  BY <1>1, <1>2, <1>3, <1>4

\* The replay does with legs what the posting did.
LEMMA FoldFollowsPosting ==
  ASSUME NEW legs, Sound(legs), CarriesItsCost(legs)
  PROVE  Projected(legs) = IF legs.ticker = NoTicker THEN position
                           ELSE FoldSecurityLeg(position, legs.quantity, legs.security)
BY DEF Projected, ApplyPosition, FoldSecurityLeg, CarriesItsCost, Sound, Legs

\* It finds by itself the average cost that an application overrides the posting's
\* with, unless a split takes shares.
LEMMA FoldFollowsApplication ==
  ASSUME position \in PositionSet, position.quantity > 0, Lowest(position.average),
         NEW a \in Actions, a.kind \in Determined, NEW p, p = PreviewOf(a), Sound(p.legs),
         a.kind \in {"split", "reverse_split"} => p.legs.quantity >= 0
  PROVE  [Projected(p.legs) EXCEPT !.average = p.average]
           = IF p.legs.ticker = NoTicker THEN position
             ELSE FoldSecurityLeg(position, p.legs.quantity, p.legs.security)
<1>1. position.quantity \in Nat \ {0} /\ Basis(position) \in FractionSet /\ Lowest(Basis(position))
      /\ position.average \in FractionSet /\ position.realized \in FractionSet
  BY BasisType, ResultsAreLowest DEF Basis
<1>2. (CHOOSE t \in Tickers : TRUE) # NoTicker
  BY HoldingsAssumption, JournalAssumption
<1>3. CASE a.kind \in {"split", "reverse_split"}
  <2>1. PICK n \in Nat : PreviewSplit(a) = Previewed(a, Security(n - position.quantity, 0, 0), 0, 0,
                                                     n, UnitCost(Basis(position), n))
    BY PreviewSplitIs
  <2>2. p = PreviewSplit(a)
    BY <1>3, PreviewOfIs
  <2>3. /\ p.average = UnitCost(Basis(position), n) /\ p.legs.ticker # NoTicker
        /\ p.legs.quantity = n - position.quantity /\ p.legs.security = 0
    BY <1>2, <2>1, <2>2 DEF Previewed, Security
  <2>4. n >= position.quantity /\ n \in Nat \ {0}
    BY <1>1, <1>3, <2>3
  <2>5. p.average = Over(Basis(position), n)
    BY <2>3, <2>4 DEF UnitCost
  <2>6. CASE n = position.quantity
    <3>1. p.average = position.average
      BY <1>1, <2>5, <2>6, AverageRestored DEF Basis
    <3>2. Projected(p.legs) = position /\ FoldSecurityLeg(position, p.legs.quantity, p.legs.security) = position
      BY <1>1, <2>3, <2>6 DEF Projected, ApplyPosition, FoldSecurityLeg
    <3> QED
      BY <2>3, <3>1, <3>2, SameAverage
  <2>7. CASE n > position.quantity
    <3> DEFINE after == Acquired(position, n - position.quantity, 0)
    <3>1. n - position.quantity \in Nat \ {0} /\ position.quantity + (n - position.quantity) = n
      BY <1>1, <2>7
    <3>2. Projected(p.legs) = after /\ FoldSecurityLeg(position, p.legs.quantity, p.legs.security) = after
      BY <2>3, <3>1 DEF Projected, ApplyPosition, FoldSecurityLeg
    <3>3. after \in PositionSet /\ after.average = Over(Plus(Basis(position), Whole(0)), n)
      BY <3>1, AcquiredIs
    <3>4. after.average = p.average
      BY <1>1, <2>5, <3>3, PlusNothing
    <3> HIDE DEF after
    <3> QED
      BY <2>3, <3>2, <3>3, <3>4, SameAverage
  <2> QED
    BY <1>1, <2>4, <2>6, <2>7
<1>4. CASE a.kind \in {"cash_dividend", "interest"}
  <2>1. p = PreviewCashIncome(a)
    BY <1>4, PreviewOfIs
  <2>2. p.legs.ticker = NoTicker /\ p.average = position.average
    BY <2>1 DEF PreviewCashIncome, Previewed, CashPair
  <2> QED
    BY <2>2, SameAverage DEF Projected
<1>5. CASE a.kind = "return_of_capital"
  <2>1. p = PreviewReturnOfCapital(a)
    BY <1>5, PreviewOfIs
  <2>2. PICK paid \in Nat \ {0} : paid = a.per_share * position.quantity
    <3>1. a.per_share \in Nat \ {0}
      BY <1>5, HoldingsAssumption DEF ActionSet, PaidInCash
    <3> QED
      BY <1>1, <3>1, PositiveProduct
  <2>3. /\ p.legs.ticker # NoTicker /\ p.legs.quantity = 0 /\ p.legs.security = -paid
        /\ p.average = Repaid(position, -paid).average
    BY <1>2, <2>1, <2>2 DEF PreviewReturnOfCapital, Previewed, Security
  <2>4. Projected(p.legs) = position
    BY <2>3 DEF Projected, ApplyPosition
  <2>5. FoldSecurityLeg(position, p.legs.quantity, p.legs.security) = Repaid(position, -paid)
    BY <1>1, <2>2, <2>3 DEF FoldSecurityLeg
  <2>6. PICK average : Repaid(position, -paid) = [position EXCEPT !.average = average]
    BY DEF Repaid
  <2>7. p.average = average
    BY <2>3, <2>6 DEF PositionSet
  <2> QED
    BY <2>3, <2>4, <2>5, <2>6, <2>7
<1> QED
  BY <1>3, <1>4, <1>5 DEF Determined

\* What a preview shows is in lowest terms.
LEMMA PreviewedLowest ==
  ASSUME position \in PositionSet, position.quantity > 0, Lowest(position.average),
         NEW a \in Actions, a.kind \in Determined
  PROVE  Lowest(PreviewOf(a).average)
<1>1. position.quantity \in Nat \ {0} /\ Basis(position) \in FractionSet
  BY BasisType
<1>2. CASE a.kind \in {"split", "reverse_split"}
  <2>1. PICK n \in Nat : PreviewSplit(a) = Previewed(a, Security(n - position.quantity, 0, 0), 0, 0,
                                                     n, UnitCost(Basis(position), n))
    BY PreviewSplitIs
  <2>2. PreviewOf(a).average = UnitCost(Basis(position), n)
    BY <1>2, <2>1, PreviewOfIs DEF Previewed
  <2>3. UnitCost(Basis(position), n) = IF n = 0 THEN Zero ELSE Over(Basis(position), n)
    BY DEF UnitCost
  <2>4. n # 0 => Lowest(Over(Basis(position), n))
    BY <1>1, OverIsLowest
  <2> QED
    BY <2>2, <2>3, <2>4, ZeroIsLowest
<1>3. CASE a.kind \in {"cash_dividend", "interest"}
  <2>1. PreviewOf(a).average = position.average
    BY <1>3, PreviewOfIs DEF PreviewCashIncome, Previewed
  <2> QED
    BY <2>1
<1>4. CASE a.kind = "return_of_capital"
  <2>1. PICK cost \in Int : cost = -(a.per_share * position.quantity)
    <3>1. a.per_share \in Nat
      BY HoldingsAssumption DEF ActionSet
    <3>2. PICK paid \in Nat : paid = a.per_share * position.quantity
      BY <1>1, <3>1, NaturalProduct
    <3> QED
      BY <3>2
  <2>2. PreviewOf(a).average = Repaid(position, cost).average
    BY <1>4, <2>1, PreviewOfIs DEF PreviewReturnOfCapital, Previewed
  <2>3. Plus(Basis(position), Whole(cost)) \in FractionSet
    BY <1>1, WholeType, SumType
  <2>4. Lowest(Over(Plus(Basis(position), Whole(cost)), position.quantity))
    BY <1>1, <2>3, OverIsLowest
  <2>5. Repaid(position, cost).average \in {Over(Plus(Basis(position), Whole(cost)), position.quantity), Zero}
    BY DEF Repaid, PositionSet
  <2> QED
    BY <2>2, <2>4, <2>5, ZeroIsLowest
<1> QED
  BY <1>2, <1>3, <1>4 DEF Determined

Follows ==
  /\ \A i \in DOMAIN journal : journal[i].type # "return_of_capital" => CarriesItsCost(journal[i].legs)
  /\ \A x : Replayed(journal, Len(journal), x) => x = [cash |-> cash, position |-> position]

Followed == Lowest(position.average) /\ (Ordinary => Follows)

LEMMA FollowedInit == Init => Followed
<1> SUFFICES ASSUME Init PROVE Followed
  OBVIOUS
<1>1. Len(journal) = 0 /\ DOMAIN journal = {} /\ [cash |-> cash, position |-> position] = Start
  BY DEF Init, Start
<1>2. ASSUME NEW x, Replayed(journal, 0, x) PROVE x = Start
  BY <1>2, NothingReplayed, ReplayedOnce
<1>3. Lowest(position.average)
  BY ZeroIsLowest DEF Init, NoPosition
<1> QED
  BY <1>1, <1>2, <1>3 DEF Followed, Follows

\* The replay follows an event if it does with its legs what the step did.
LEMMA EventFollows ==
  ASSUME WholeNumbers, Followed, NEW e, Grown(e), Sound(e.legs), Ordinary',
         cash' = cash + e.legs.cash,
         Follows => position' = IF e.legs.ticker = NoTicker THEN position
                                ELSE FoldSecurityLeg(position, e.legs.quantity, e.legs.security),
         Follows /\ e.type # "return_of_capital" => CarriesItsCost(e.legs)
  PROVE  Follows'
<1> DEFINE n == Len(journal)
<1>1. /\ n \in Nat /\ DOMAIN journal = 1..n /\ DOMAIN journal' = 1..(n + 1) /\ Len(journal') = n + 1
      /\ journal'[n + 1] = e
      /\ \A i \in 1..n : /\ journal'[i].legs = journal[i].legs /\ journal'[i].type = journal[i].type
                         /\ journal[i].reversed => journal'[i].reversed
  BY DEF WholeNumbers, Grown
<1> HIDE DEF n
<1>2. Follows
  <2>1. \A i \in DOMAIN journal : i \in DOMAIN journal'
    BY <1>1
  <2>2. Ordinary
    BY <1>1, <2>1 DEF Ordinary
  <2> QED
    BY <2>2 DEF Followed
<1>3. ASSUME NEW x, Replayed(journal', n + 1, x)
      PROVE  x = [cash |-> cash', position |-> position']
  <2>1. PICK y : Replayed(journal, n, y)
    BY <1>1, ReplayedExists
  <2>2. y = [cash |-> cash, position |-> position]
    BY <1>2, <2>1 DEF Follows, n
  <2>3. Replayed(journal', n, y)
    BY <1>1, <2>1, ReplayedSame
  <2>4. Replayed(journal', n + 1, FoldEvent(y, e))
    BY <1>1, <2>3, ReplayedMore
  <2>5. x = FoldEvent(y, e)
    BY <1>3, <2>4, ReplayedOnce
  <2>6. y.cash = cash /\ y.position = position
    BY <2>2
  <2> QED
    BY <1>2, <2>5, <2>6 DEF FoldEvent
<1>4. ASSUME NEW i \in DOMAIN journal', journal'[i].type # "return_of_capital" PROVE CarriesItsCost(journal'[i].legs)
  <2>1. CASE i \in 1..n
    BY <1>1, <1>2, <1>4, <2>1 DEF Follows
  <2>2. CASE i = n + 1
    BY <1>1, <1>2, <1>4, <2>2
  <2> QED
    BY <1>1, <2>1, <2>2
<1> QED
  BY <1>1, <1>3, <1>4 DEF Follows

LEMMA ProjectionFollows ==
  ASSUME WholeNumbers, TypeOK, Followed, NEW e, Projects(e), Ordinary' /\ Follows => CarriesItsCost(e.legs)
  PROVE  Followed'
<1>1. Grown(e) /\ Sound(e.legs) /\ Affordable(e.legs) /\ position' = Projected(e.legs) /\ cash' = cash + e.legs.cash
  BY DEF Projects
<1>2. Lowest(position'.average)
  BY <1>1, ProjectedLowest DEF TypeOK, PositionSet, Followed
<1>3. ASSUME Ordinary' PROVE Follows'
  BY <1>1, <1>3, FoldFollowsPosting, EventFollows
<1> QED
  BY <1>2, <1>3 DEF Followed

LEMMA RecordFollows ==
  ASSUME Undisturbed, WholeNumbers, TypeOK, Followed, NEW w \in Workers, NEW tx \in Orders,
         NEW occurred \in Moments, RecordTransaction(w, tx, occurred)
  PROVE  Followed'
BY RecordProjects, ProjectionFollows

LEMMA ReverseFollows ==
  ASSUME Undisturbed, WholeNumbers, TypeOK, Followed, NEW w \in Workers, NEW i \in DOMAIN journal,
         ReverseTransaction(w, i)
  PROVE  Followed'
<1>1. PICK e : Projects(e) /\ Undoes(e, i)
  BY ReverseProjects
<1>2. Ordinary' /\ Follows => CarriesItsCost(e.legs)
  BY <1>1 DEF Undoes, Ordinary, Follows
<1> QED
  BY <1>1, <1>2, ProjectionFollows

LEMMA ApplyFollows ==
  ASSUME Undisturbed, WholeNumbers, TypeOK, PreviewsStand, Followed, NEW w \in Workers, ApplyCorporateAction(w)
  PROVE  Followed'
<1>1. PICK a, e : Applies(w, a, e)
  BY ApplyPosts
<1> DEFINE p == preview[w]
<1>2. /\ a \in Actions /\ a.kind \in Determined /\ position.quantity > 0 /\ p = PreviewOf(a)
      /\ Grown(e) /\ Sound(p.legs) /\ Affordable(p.legs) /\ e.legs = p.legs /\ cash' = cash + e.legs.cash
      /\ position' = [Projected(p.legs) EXCEPT !.average = p.average]
      /\ a.kind \in {"split", "reverse_split"} => e.type = "split"
      /\ e.type # "return_of_capital" => CarriesItsCost(e.legs)
  BY <1>1 DEF Applies
<1>3. position \in PositionSet /\ Lowest(position.average)
  BY DEF TypeOK, PositionSet, Followed
<1> HIDE DEF p
<1>4. Lowest(position'.average)
  <2>1. Projected(p.legs) \in PositionSet /\ Lowest(p.average)
    BY <1>2, <1>3, ProjectedType, PreviewedLowest
  <2>2. position'.average = p.average
    BY <1>2, <2>1 DEF PositionSet
  <2> QED
    BY <2>1, <2>2
<1>5. ASSUME Ordinary' PROVE Follows'
  <2>1. a.kind \in {"split", "reverse_split"} => p.legs.quantity >= 0
    <3>1. Len(journal) + 1 \in DOMAIN journal' /\ journal'[Len(journal) + 1] = e
      BY <1>2 DEF Grown, WholeNumbers
    <3> QED
      BY <1>2, <1>5, <3>1 DEF Ordinary
  <2>2. position' = IF p.legs.ticker = NoTicker THEN position
                    ELSE FoldSecurityLeg(position, p.legs.quantity, p.legs.security)
    BY <1>2, <1>3, <2>1, FoldFollowsApplication
  <2> QED
    BY <1>2, <1>5, <2>2, EventFollows
<1> QED
  BY <1>4, <1>5 DEF Followed

LEMMA FollowedStep ==
  ASSUME Undisturbed
  PROVE  WholeNumbers /\ TypeOK /\ Conserved /\ Followed /\ [Next]_vars => Followed'
<1> SUFFICES ASSUME WholeNumbers, TypeOK, PreviewsStand, Followed, [Next]_vars PROVE Followed'
  BY DEF Conserved
<1>1. ASSUME UNCHANGED <<journal, position, cash>> PROVE Followed'
  BY <1>1 DEF Followed, Follows, Ordinary
<1>2. ASSUME NEW w \in Workers, NEW tx \in Orders, RefuseTransaction(w, tx) PROVE Followed'
  BY <1>1, <1>2 DEF RefuseTransaction, vars
<1>3. ASSUME NEW w \in Workers, NEW a \in Actions, PreviewApplication(w, a) PROVE Followed'
  BY <1>1, <1>3 DEF PreviewApplication
<1>4. ASSUME NEW w \in Workers, AbandonApplication(w) PROVE Followed'
  BY <1>1, <1>4 DEF AbandonApplication
<1>5. ASSUME NEW a \in Actions, RecordCorporateAction(a) PROVE Followed'
  BY <1>1, <1>5 DEF RecordCorporateAction
<1>6. CASE Tick \/ UNCHANGED vars
  BY <1>1, <1>6 DEF Tick, vars
<1> QED
  BY <1>2, <1>3, <1>4, <1>5, <1>6, RecordFollows, ReverseFollows, ApplyFollows DEF Next

\* The journal alone tells what the book holds, average cost and realized profit
\* included, and what it held at any date before, if one session posts at a time
\* and events are posted as they occur.  Set aside are a split that takes shares,
\* whose average cost the journal does not have, and the reversal of a return of
\* capital, which does not restore the live average.
THEOREM JournalTellsAll ==
  ASSUME Undisturbed
  PROVE  Spec => [](PostedInOrder /\ Ordinary => JournalIsEnough)
<1>1. WholeNumbers /\ Followed /\ HistoryIsCovered => (PostedInOrder /\ Ordinary => JournalIsEnough)
  <2> SUFFICES ASSUME WholeNumbers, Follows, PostedInOrder PROVE ReplayAgrees
    BY DEF Followed, JournalIsEnough
  <2> DEFINE n == Len(journal)
  <2>1. /\ journal \in Seq(Events) /\ InOrder(journal) /\ Horizon \in Int /\ n \in Nat /\ DOMAIN journal = 1..n
        /\ Through(journal, Horizon) = DOMAIN journal
    <3>1. \A i \in DOMAIN journal : journal[i].occurred <= Horizon
      <4>1. \A i \in DOMAIN journal : journal[i] \in Events
        BY DEF WholeNumbers
      <4> QED
        BY <4>1, HoldingsAssumption DEF Events, Moments
    <3>2. Through(journal, Horizon) = DOMAIN journal
      BY <3>1 DEF Through
    <3>3. InOrder(journal)
      BY DEF PostedInOrder, InOrder
    <3> QED
      BY <3>2, <3>3, HoldingsAssumption DEF WholeNumbers
  <2>2. PICK m \in 0..n : Through(journal, Horizon) = 1..m /\ EventsThrough(journal, Horizon) = [k \in 1..m |-> k]
    BY <2>1, ReplayedInOrder
  <2> HIDE DEF n
  <2>3. m = n
    <3>1. 1..m = 1..n /\ m \in Nat
      BY <2>1, <2>2
    <3> QED
      BY <2>1, <3>1, FirstOnes
  <2>4. PICK x : Replayed(journal, n, x)
    BY <2>1, ReplayedExists
  <2>5. ReplayState(journal, Horizon) = x
    BY <2>1, <2>2, <2>3, <2>4, ReplayIsOfFirst
  <2>6. x = [cash |-> cash, position |-> position]
    BY <2>4 DEF Follows, n
  <2> QED
    BY <2>5, <2>6 DEF ReplayAgrees
<1> QED
  BY <1>1, FollowedInit, FollowedStep, ConservedInit, ConservedStep, HoldingsTypesCorrect, NothingHeldShort,
     PastIsCovered, PTL DEF Spec

-----------------------------------------------------------------------------
(* What is undone *)

\* The journal grows by an event; of the others one may be marked as reversed.
Extended(e) ==
  LET n == Len(journal)
  IN  /\ journal' \in Seq(Events) /\ Len(journal') = n + 1 /\ journal'[n + 1] = e /\ e \in Events
      /\ \A i \in 1..n :
           /\ journal'[i].type = journal[i].type /\ journal'[i].legs = journal[i].legs
           /\ journal'[i].income = journal[i].income /\ journal'[i].costs = journal[i].costs
           /\ journal'[i].occurred = journal[i].occurred /\ journal'[i].reverses = journal[i].reverses
           /\ journal[i].reversed => journal'[i].reversed

\* An event of its own, or one that undoes an earlier one, which is marked.
StandsAlone(e) ==
  e.type # "reversal" /\ e.reverses = 0 /\ (e.type \in ExternalEvents => e.occurred <= now)
UndoesAnother(e) ==
  /\ e.type = "reversal" /\ e.occurred = now /\ e.reverses \in 1..Len(journal)
  /\ LET undone == journal[e.reverses]
     IN  undone.type # "reversal" /\ ~undone.reversed /\ e.legs.cash = -undone.legs.cash
  /\ journal'[e.reverses].reversed

\* Nothing is changed in the journal but that events are marked as reversed.
KeptBy(before) ==
  \A i \in DOMAIN journal :
    /\ before[i].type = journal[i].type /\ before[i].legs = journal[i].legs
    /\ before[i].income = journal[i].income /\ before[i].costs = journal[i].costs
    /\ before[i].occurred = journal[i].occurred /\ before[i].reverses = journal[i].reverses
    /\ journal[i].reversed => before[i].reversed

LEMMA ExtendedOnce ==
  ASSUME journal \in Seq(Events), NEW before \in Seq(Events), Len(before) = Len(journal),
         KeptBy(before), NEW e \in Events, journal' = Append(before, e)
  PROVE  Extended(e) /\ \A i \in DOMAIN journal : journal'[i] = before[i]
<1>1. Len(journal) \in Nat /\ DOMAIN journal = 1..Len(journal) /\ DOMAIN before = 1..Len(journal)
  OBVIOUS
<1>2. /\ journal' \in Seq(Events) /\ Len(journal') = Len(journal) + 1 /\ journal'[Len(journal) + 1] = e
      /\ \A i \in 1..Len(journal) : journal'[i] = before[i]
  BY <1>1
<1> QED
  BY <1>1, <1>2 DEF Extended, KeptBy

LEMMA RecordExtends ==
  ASSUME WholeNumbers, NEW w \in Workers, NEW tx \in Orders, NEW occurred \in Moments,
         RecordTransaction(w, tx, occurred)
  PROVE  \E e : Extended(e) /\ StandsAlone(e)
<1> DEFINE legs == BuildLegs(tx)
           e == NewEvent(tx.type, legs, IncomeOf(tx), CostsOf(tx), occurred, 0)
<1>1. tx \in Transactions
  BY HoldingsAssumption
<1>2. Sound(legs)
  BY <1>1, BuildLegsSound DEF RecordTransaction
<1>3. e \in Events
  <2>1. tx.type \in EventTypes /\ IncomeOf(tx) \in Nat /\ CostsOf(tx) \in Nat
    BY <1>1 DEF RecordTransaction, Buildable, Transactions, IncomeOf, CostsOf,
                Trades, Inflows, Outflows, Incomes, Expenses
  <2> HIDE DEF legs
  <2> QED
    BY <1>2, <2>1, EventType DEF Sound
<1>4. journal' = Append(journal, e) /\ occurred <= now
  BY DEF RecordTransaction
<1>5. StandsAlone(e)
  <2>1. tx.type # "reversal"
    BY DEF RecordTransaction, Buildable, Trades, Inflows, Outflows, Incomes, Expenses
  <2> HIDE DEF legs
  <2> QED
    BY <1>4, <2>1 DEF StandsAlone, NewEvent
<1> HIDE DEF e
<1> QED
  <2>1. KeptBy(journal)
    BY DEF KeptBy
  <2> QED
    BY <1>3, <1>4, <1>5, <2>1, ExtendedOnce DEF WholeNumbers

LEMMA ReverseExtends ==
  ASSUME WholeNumbers, NEW w \in Workers, NEW i \in DOMAIN journal, ReverseTransaction(w, i)
  PROVE  \E e : Extended(e) /\ UndoesAnother(e)
<1> DEFINE legs == Invert(journal[i].legs)
           marked == [journal[i] EXCEPT !.reversed = TRUE]
           before == [journal EXCEPT ![i].reversed = TRUE]
           e == NewEvent("reversal", legs, journal[i].income, journal[i].costs, now, i)
<1>1. journal[i] \in Events /\ i \in 1..Len(journal) /\ i \in Nat /\ Sound(journal[i].legs) /\ now \in Moments
  BY DEF WholeNumbers
<1>2. Sound(legs)
  BY <1>1, InvertSound
<1>3. e \in Events
  <2>1. journal[i].income \in Nat /\ journal[i].costs \in Nat /\ "reversal" \in EventTypes
    BY <1>1 DEF Events, EventTypes
  <2> HIDE DEF legs
  <2> QED
    BY <1>1, <1>2, <2>1, EventType DEF Sound
<1>4. /\ marked \in Events /\ marked.reversed
      /\ marked.type = journal[i].type /\ marked.legs = journal[i].legs
      /\ marked.income = journal[i].income /\ marked.costs = journal[i].costs
      /\ marked.occurred = journal[i].occurred /\ marked.reverses = journal[i].reverses
  BY <1>1 DEF Events
<1>5. before = [journal EXCEPT ![i] = marked]
  OBVIOUS
<1> HIDE DEF marked, before
<1>6. before \in Seq(Events) /\ Len(before) = Len(journal) /\ before[i] = marked
      /\ \A j \in DOMAIN journal : j # i => before[j] = journal[j]
  BY <1>1, <1>4, <1>5 DEF WholeNumbers
<1>7. journal' = Append(before, e)
  BY DEF ReverseTransaction, before
<1>8. /\ journal[i].type # "reversal" /\ ~journal[i].reversed
      /\ e.type = "reversal" /\ e.occurred = now /\ e.reverses = i /\ e.legs.cash = -journal[i].legs.cash
  BY DEF ReverseTransaction, NewEvent, Invert
<1> HIDE DEF e
<1>9. Extended(e) /\ \A j \in DOMAIN journal : journal'[j] = before[j]
  <2>1. KeptBy(before)
    BY <1>4, <1>6 DEF KeptBy
  <2> QED
    BY <1>3, <1>6, <1>7, <2>1, ExtendedOnce DEF WholeNumbers
<1>10. i \in 1..Len(journal) /\ journal'[i].reversed
  BY <1>1, <1>4, <1>6, <1>9 DEF WholeNumbers
<1> HIDE DEF marked
<1>11. UndoesAnother(e)
  BY <1>8, <1>10 DEF UndoesAnother
<1> QED
  BY <1>9, <1>11

LEMMA ApplyExtends ==
  ASSUME WholeNumbers, NEW w \in Workers, ApplyCorporateAction(w)
  PROVE  \E e : Extended(e) /\ StandsAlone(e)
<1> DEFINE p == preview[w]
           e == NewEvent(EventTypeOf(p.action), p.legs, p.income, p.costs, p.action.effective, 0)
<1>1. IsPreview(p)
  BY DEF WholeNumbers, ApplyCorporateAction, Free
<1>2. p.action.kind \in ActionKinds /\ p.action.effective \in Moments
  BY <1>1, HoldingsAssumption DEF IsPreview, ActionSet, Moments
<1> HIDE DEF p
<1>3. EventTypeOf(p.action) \in EventTypes \ ({"reversal"} \cup ExternalEvents)
  BY <1>2 DEF EventTypeOf, EventTypes, ActionKinds, ActionTypes, Incomes, ExternalEvents, Inflows, Outflows
<1>4. e \in Events
  BY <1>1, <1>2, <1>3, EventType DEF Sound, IsPreview
<1>5. StandsAlone(e)
  BY <1>3 DEF StandsAlone, NewEvent
<1>6. journal' = Append(journal, e)
  BY DEF ApplyCorporateAction, p
<1> HIDE DEF e
<1> QED
  <2>1. KeptBy(journal)
    BY DEF KeptBy
  <2> QED
    BY <1>4, <1>5, <1>6, <2>1, ExtendedOnce DEF WholeNumbers

\* Whatever a step does, the journal grows by an event or stays, and time does not
\* go back.
LEMMA JournalStep ==
  ASSUME WholeNumbers, [Next]_vars
  PROVE  /\ now' >= now
         /\ \/ journal' = journal
            \/ \E e : Extended(e) /\ (StandsAlone(e) \/ UndoesAnother(e)) /\ now' = now
<1>1. now \in Nat
  BY HoldingsAssumption DEF WholeNumbers, Moments
<1>2. CASE UNCHANGED vars
  BY <1>1, <1>2 DEF vars
<1>3. CASE Tick
  BY <1>1, <1>3 DEF Tick
<1>4. CASE \E a \in Actions : RecordCorporateAction(a)
  BY <1>1, <1>4 DEF RecordCorporateAction
<1>5. ASSUME NEW w \in Workers, \E tx \in Orders : RefuseTransaction(w, tx)
      PROVE  now' >= now /\ journal' = journal
  BY <1>1, <1>5 DEF RefuseTransaction, vars
<1>6. ASSUME NEW w \in Workers, \E a \in Actions : PreviewApplication(w, a)
      PROVE  now' >= now /\ journal' = journal
  BY <1>1, <1>6 DEF PreviewApplication
<1>7. ASSUME NEW w \in Workers, AbandonApplication(w)
      PROVE  now' >= now /\ journal' = journal
  BY <1>1, <1>7 DEF AbandonApplication
<1>8. ASSUME NEW w \in Workers, NEW tx \in Orders, NEW occurred \in Moments, RecordTransaction(w, tx, occurred)
      PROVE  now' >= now /\ now' = now
  BY <1>1, <1>8 DEF RecordTransaction
<1>9. ASSUME NEW w \in Workers, NEW i \in DOMAIN journal, ReverseTransaction(w, i)
      PROVE  now' >= now /\ now' = now
  BY <1>1, <1>9 DEF ReverseTransaction
<1>10. ASSUME NEW w \in Workers, ApplyCorporateAction(w)
      PROVE  now' >= now /\ now' = now
  BY <1>1, <1>10 DEF ApplyCorporateAction
<1> QED
  BY <1>2, <1>3, <1>4, <1>5, <1>6, <1>7, <1>8, <1>9, <1>10, RecordExtends, ReverseExtends, ApplyExtends DEF Next

\* A reversal undoes an earlier event that is none itself and is marked; no event
\* is undone twice; no capital and no reversal is dated ahead.
Reversals ==
  /\ \A j \in DOMAIN journal :
       /\ journal[j].type # "reversal" => journal[j].reverses = 0
       /\ journal[j].type \in ExternalEvents \cup {"reversal"} => journal[j].occurred <= now
       /\ journal[j].type = "reversal" =>
            /\ journal[j].reverses \in 1..(j - 1)
            /\ LET undone == journal[journal[j].reverses]
               IN  /\ undone.type # "reversal" /\ undone.reversed /\ journal[j].legs.cash = -undone.legs.cash
                   /\ undone.type \in ExternalEvents => undone.occurred <= journal[j].occurred
  /\ \A j, k \in DOMAIN journal :
       (journal[j].type = "reversal" /\ journal[k].type = "reversal" /\ journal[j].reverses = journal[k].reverses)
       => j = k

LEMMA ReversalsStep == WholeNumbers /\ Reversals /\ [Next]_vars => Reversals'
<1> SUFFICES ASSUME WholeNumbers, Reversals, [Next]_vars PROVE Reversals'
  OBVIOUS
<1>1. now \in Nat /\ now' >= now /\ journal \in Seq(Events) /\ now' \in Nat
  BY JournalStep, WholeNumbersStep, HoldingsAssumption DEF WholeNumbers, Moments
<1>2. \A j \in DOMAIN journal : journal[j].occurred \in Nat
  <2>1. \A j \in DOMAIN journal : journal[j] \in Events
    BY <1>1
  <2> QED
    BY <2>1 DEF Events, Moments
<1>3. CASE journal' = journal
  BY <1>1, <1>2, <1>3 DEF Reversals
<1>4. ASSUME NEW e, Extended(e), StandsAlone(e) \/ UndoesAnother(e), now' = now PROVE Reversals'
  <2> DEFINE n == Len(journal)
  <2>1. /\ n \in Nat /\ DOMAIN journal = 1..n /\ DOMAIN journal' = 1..(n + 1) /\ journal'[n + 1] = e
        /\ 1..(n + 1) = (1..n) \cup {n + 1} /\ n + 1 \notin 1..n
    BY <1>1, <1>4 DEF Extended
  <2>2. \A i \in 1..n :
           /\ journal'[i].type = journal[i].type /\ journal'[i].legs = journal[i].legs
           /\ journal'[i].occurred = journal[i].occurred /\ journal'[i].reverses = journal[i].reverses
           /\ journal[i].reversed => journal'[i].reversed
    BY <1>4 DEF Extended
  <2> HIDE DEF n
  <2>3. ASSUME NEW j \in 1..n
        PROVE  /\ journal'[j].type # "reversal" => journal'[j].reverses = 0
               /\ journal'[j].type \in ExternalEvents \cup {"reversal"} => journal'[j].occurred <= now'
               /\ journal'[j].type = "reversal" =>
                    /\ journal'[j].reverses \in 1..(j - 1)
                    /\ LET undone == journal'[journal'[j].reverses]
                       IN  /\ undone.type # "reversal" /\ undone.reversed /\ journal'[j].legs.cash = -undone.legs.cash
                           /\ undone.type \in ExternalEvents => undone.occurred <= journal'[j].occurred
    <3>1. /\ journal[j].type # "reversal" => journal[j].reverses = 0
          /\ journal[j].type \in ExternalEvents \cup {"reversal"} => journal[j].occurred <= now
      BY <2>1, <2>3 DEF Reversals
    <3>2. CASE journal[j].type = "reversal"
      <4> DEFINE i == journal[j].reverses
      <4>1. /\ i \in 1..(j - 1) /\ journal[i].type # "reversal" /\ journal[i].reversed /\ journal[j].legs.cash = -journal[i].legs.cash
            /\ journal[i].type \in ExternalEvents => journal[i].occurred <= journal[j].occurred
        BY <2>1, <2>3, <3>2 DEF Reversals
      <4>2. i \in 1..n
        BY <2>1, <4>1
      <4> HIDE DEF i
      <4>3. /\ journal'[i].type # "reversal" /\ journal'[i].reversed /\ journal'[j].legs.cash = -journal'[i].legs.cash
            /\ journal'[i].type \in ExternalEvents => journal'[i].occurred <= journal'[j].occurred
        BY <2>2, <4>1, <4>2
      <4>4. journal'[j].reverses = i
        BY <2>2 DEF i
      <4> QED
        BY <1>4, <2>2, <3>1, <4>1, <4>3, <4>4
    <3> QED
      BY <1>4, <2>2, <3>1, <3>2
  <2>4. CASE StandsAlone(e)
    <3>1. e.type # "reversal" /\ e.reverses = 0 /\ (e.type \in ExternalEvents => e.occurred <= now)
      BY <2>4 DEF StandsAlone
    <3>2. \A j, k \in 1..n :
            (journal'[j].type = "reversal" /\ journal'[k].type = "reversal" /\ journal'[j].reverses = journal'[k].reverses)
            => j = k
      BY <2>1, <2>2 DEF Reversals
    <3> QED
      BY <1>4, <2>1, <2>3, <3>1, <3>2 DEF Reversals
  <2>5. CASE UndoesAnother(e)
    <3> DEFINE i == e.reverses
    <3>1. /\ e.type = "reversal" /\ e.occurred = now /\ i \in 1..n
          /\ journal[i].type # "reversal" /\ ~journal[i].reversed /\ e.legs.cash = -journal[i].legs.cash
          /\ journal'[i].reversed
      BY <2>5 DEF UndoesAnother, n
    <3>2. /\ journal'[i].type # "reversal" /\ e.legs.cash = -journal'[i].legs.cash /\ i \in 1..((n + 1) - 1)
          /\ journal'[i].type \in ExternalEvents => journal'[i].occurred <= e.occurred
      BY <2>1, <2>2, <3>1 DEF Reversals
    <3>3. \A j \in 1..n : journal'[j].type = "reversal" => journal'[j].reverses # i
      <4> SUFFICES ASSUME NEW j \in 1..n, journal'[j].type = "reversal", journal'[j].reverses = i PROVE FALSE
        OBVIOUS
      <4>1. journal[journal[j].reverses].reversed /\ journal[j].reverses = i
        BY <2>1, <2>2 DEF Reversals
      <4> QED
        BY <3>1, <4>1
    <3>4. \A j, k \in 1..n :
            (journal'[j].type = "reversal" /\ journal'[k].type = "reversal" /\ journal'[j].reverses = journal'[k].reverses)
            => j = k
      BY <2>1, <2>2 DEF Reversals
    <3>5. \A j, k \in 1..(n + 1) :
            (journal'[j].type = "reversal" /\ journal'[k].type = "reversal" /\ journal'[j].reverses = journal'[k].reverses)
            => j = k
      BY <2>1, <3>3, <3>4
    <3>6. ~(e.type # "reversal") /\ e.occurred <= now'
      BY <1>1, <1>4, <3>1
    <3>7. /\ journal'[n + 1].type # "reversal" => journal'[n + 1].reverses = 0
          /\ journal'[n + 1].type \in ExternalEvents \cup {"reversal"} => journal'[n + 1].occurred <= now'
          /\ journal'[n + 1].type = "reversal" =>
               /\ journal'[n + 1].reverses \in 1..((n + 1) - 1)
               /\ LET undone == journal'[journal'[n + 1].reverses]
                  IN  /\ undone.type # "reversal" /\ undone.reversed /\ journal'[n + 1].legs.cash = -undone.legs.cash
                      /\ undone.type \in ExternalEvents => undone.occurred <= journal'[n + 1].occurred
      BY <2>1, <3>1, <3>2, <3>6
    <3> HIDE DEF i
    <3> QED
      BY <2>1, <2>3, <3>5, <3>7 DEF Reversals
  <2> QED
    BY <1>4, <2>4, <2>5
<1> QED
  BY <1>3, <1>4, JournalStep

LEMMA ReversalsInit == Init => Reversals
BY DEF Init, Reversals

LEMMA ReversalsAlways == Spec => [](WholeNumbers /\ Reversals)
<1>1. Init => WholeNumbers /\ Reversals
  BY WholeNumbersInit, ReversalsInit
<1>2. WholeNumbers /\ Reversals /\ [Next]_vars => (WholeNumbers /\ Reversals)'
  BY WholeNumbersStep, ReversalsStep
<1> QED
  BY <1>1, <1>2, PTL DEF Spec

-----------------------------------------------------------------------------
(* Capital *)

FlowFields == {"in", "out", "income", "costs", "unknown"}

\* What events add to one of the totals, and to the capital.
FieldOf(log, events, known, f) == [i \in events |-> Flow(log, i, known)[f]]
CapitalOf(log, events, known) ==
  [i \in events |-> IF EffectiveType(log, i, known) \in ExternalEvents THEN log[i].legs.cash ELSE 0]
PaidBy(log, events) == [i \in events |-> log[i].legs.cash]

LEMMA FlowSum ==
  ASSUME NEW log, NEW events, NEW known, NEW f
  PROVE  MapThenSumSet(LAMBDA i : Flow(log, i, known)[f], events) = SumOn(FieldOf(log, events, known, f), events)
BY ZenonT(40) DEF FieldOf, SumOn, MapThenSumSet, MapThenFoldSet

LEMMA FlowsOfIs ==
  ASSUME NEW log, NEW events, NEW known
  PROVE  /\ DOMAIN NoFlows = FlowFields
         /\ FlowsOf(log, events, known) =
              [f \in FlowFields |-> SumOn(FieldOf(log, events, known, f), events)]
<1>1. DOMAIN NoFlows = FlowFields
  BY DEF NoFlows, FlowFields
<1>2. \A f : MapThenSumSet(LAMBDA i : Flow(log, i, known)[f], events) = SumOn(FieldOf(log, events, known, f), events)
  BY FlowSum
<1>3. FlowsOf(log, events, known) =
        [f \in FlowFields |-> MapThenSumSet(LAMBDA i : Flow(log, i, known)[f], events)]
  BY <1>1 DEF FlowsOf
<1>4. [f \in FlowFields |-> MapThenSumSet(LAMBDA i : Flow(log, i, known)[f], events)]
        = [f \in FlowFields |-> SumOn(FieldOf(log, events, known, f), events)]
  BY <1>2, Zenon
<1> QED
  BY <1>1, <1>3, <1>4

\* The fields of a flow, and that what comes in and goes out is capital.
LEMMA FlowIs ==
  ASSUME NEW log, NEW i, NEW known, log[i] \in Events
  PROVE  /\ \A f \in FlowFields : Flow(log, i, known)[f] \in Int
         /\ Flow(log, i, known)["in"] + Flow(log, i, known)["out"] =
              IF EffectiveType(log, i, known) \in ExternalEvents THEN log[i].legs.cash ELSE 0
<1> DEFINE type == EffectiveType(log, i, known)
           paid == log[i].legs.cash
<1>1. paid \in Int /\ log[i].income \in Nat /\ log[i].costs \in Nat
  BY DEF Events, Legs
<1>2. Flow(log, i, known) =
        IF type \in ExternalEvents
        THEN IF paid >= 0 THEN [NoFlows EXCEPT !.in = paid] ELSE [NoFlows EXCEPT !.out = paid]
        ELSE IF type \in InternalEvents
        THEN [NoFlows EXCEPT !.income = log[i].income, !.costs = log[i].costs]
        ELSE [NoFlows EXCEPT !.unknown = paid]
  BY DEF Flow
<1> HIDE DEF type, paid
<1>3. CASE type \in ExternalEvents /\ paid >= 0
  <2>1. Flow(log, i, known) = [in |-> paid, out |-> 0, income |-> 0, costs |-> 0, unknown |-> 0]
    BY <1>2, <1>3 DEF NoFlows
  <2> QED
    BY <1>1, <1>3, <2>1 DEF FlowFields, type, paid
<1>4. CASE type \in ExternalEvents /\ ~(paid >= 0)
  <2>1. Flow(log, i, known) = [in |-> 0, out |-> paid, income |-> 0, costs |-> 0, unknown |-> 0]
    BY <1>2, <1>4 DEF NoFlows
  <2> QED
    BY <1>1, <1>4, <2>1 DEF FlowFields, type, paid
<1>5. CASE type \notin ExternalEvents /\ type \in InternalEvents
  <2>1. Flow(log, i, known) = [in |-> 0, out |-> 0, income |-> log[i].income, costs |-> log[i].costs, unknown |-> 0]
    BY <1>2, <1>5 DEF NoFlows
  <2> QED
    BY <1>1, <1>5, <2>1 DEF FlowFields, type, paid
<1>6. CASE type \notin ExternalEvents /\ type \notin InternalEvents
  <2>1. Flow(log, i, known) = [in |-> 0, out |-> 0, income |-> 0, costs |-> 0, unknown |-> paid]
    BY <1>2, <1>6 DEF NoFlows
  <2> QED
    BY <1>1, <1>6, <2>1 DEF FlowFields, type, paid
<1> QED
  BY <1>3, <1>4, <1>5, <1>6

LEMMA NetExternalIs ==
  ASSUME NEW log, NEW events, NEW known, IsFiniteSet(events), \A i \in events : log[i] \in Events
  PROVE  NetExternal(FlowsOf(log, events, known)) = SumOn(CapitalOf(log, events, known), events)
<1> DEFINE into == FieldOf(log, events, known, "in")
           out == FieldOf(log, events, known, "out")
           both == CapitalOf(log, events, known)
<1>1. NetExternal(FlowsOf(log, events, known)) = SumOn(into, events) + SumOn(out, events)
  <2>1. FlowsOf(log, events, known) = [f \in FlowFields |-> SumOn(FieldOf(log, events, known, f), events)]
    BY FlowsOfIs
  <2>2. FlowsOf(log, events, known)["in"] = SumOn(into, events) /\ FlowsOf(log, events, known)["out"] = SumOn(out, events)
    BY <2>1 DEF FlowFields
  <2> QED
    BY <2>2 DEF NetExternal
<1>2. \A i \in events : into[i] \in Int /\ out[i] \in Int /\ both[i] = into[i] + out[i]
  <2> SUFFICES ASSUME NEW i \in events PROVE into[i] \in Int /\ out[i] \in Int /\ both[i] = into[i] + out[i]
    OBVIOUS
  <2>1. into[i] = Flow(log, i, known)["in"] /\ out[i] = Flow(log, i, known)["out"]
        /\ both[i] = IF EffectiveType(log, i, known) \in ExternalEvents THEN log[i].legs.cash ELSE 0
    BY DEF FieldOf, CapitalOf
  <2> QED
    BY <2>1, FlowIs DEF FlowFields
<1> HIDE DEF into, out, both
<1>3. SumOn(both, events) = SumOn(into, events) + SumOn(out, events)
  BY <1>2, SumOnPlus
<1> QED
  BY <1>1, <1>3 DEF both

\* What has an effective type that is capital: capital, and what undoes capital that
\* is known.
LEMMA CapitalIs ==
  ASSUME Reversals, NEW known \in SUBSET (DOMAIN journal), NEW i \in DOMAIN journal
  PROVE  EffectiveType(journal, i, known) \in ExternalEvents <=>
           \/ journal[i].type \in ExternalEvents
           \/ /\ journal[i].type = "reversal" /\ journal[i].reverses \in known
              /\ journal[journal[i].reverses].type \in ExternalEvents
<1>1. "reversal" \notin ExternalEvents
  BY DEF ExternalEvents, Inflows, Outflows
<1> QED
  BY <1>1 DEF EffectiveType

LEMMA ThroughIs ==
  ASSUME NEW log \in Seq(Events), NEW cutoff
  PROVE  /\ Through(log, cutoff) \in SUBSET (DOMAIN log) /\ IsFiniteSet(Through(log, cutoff))
         /\ IsFiniteSet(DOMAIN log) /\ DOMAIN log = 1..Len(log) /\ Len(log) \in Nat
         /\ \A i \in DOMAIN log : log[i] \in Events /\ log[i].occurred \in Nat /\ log[i].legs.cash \in Int
<1>1. DOMAIN log = 1..Len(log) /\ Len(log) \in Nat
  OBVIOUS
<1>2. IsFiniteSet(DOMAIN log)
  BY <1>1, FS_Interval
<1>3. Through(log, cutoff) \in SUBSET (DOMAIN log)
  BY DEF Through
<1>4. ASSUME NEW i \in DOMAIN log PROVE log[i] \in Events /\ log[i].occurred \in Nat /\ log[i].legs.cash \in Int
  <2>1. log[i] \in Events
    OBVIOUS
  <2>2. log[i].occurred \in Moments /\ log[i].legs \in Legs
    BY <2>1 DEF Events
  <2> QED
    BY <2>1, <2>2, HoldingsAssumption DEF Moments, Legs
<1> QED
  BY <1>1, <1>2, <1>3, <1>4, FS_Subset

LEMMA StandingSum ==
  ASSUME NEW cutoff
  PROVE  SumOver(Standing(cutoff, ExternalEvents), LAMBDA e : e.legs.cash) =
           SumOn(PaidBy(journal, Standing(cutoff, ExternalEvents)), Standing(cutoff, ExternalEvents))
<1> DEFINE S == Standing(cutoff, ExternalEvents)
<1> HIDE DEF S
<1>1. SumOver(S, LAMBDA e : e.legs.cash) = SumOn(PaidBy(journal, S), S)
  BY ZenonT(40) DEF SumOver, PaidBy, SumOn, MapThenSumSet, MapThenFoldSet
<1> QED
  BY <1>1 DEF S

LEMMA CapitalStands ==
  ASSUME journal \in Seq(Events), Reversals, NEW cutoff
  PROVE  NetExternal(ReplayFlows(journal, 0, cutoff)) =
           SumOver(Standing(cutoff, ExternalEvents), LAMBDA e : e.legs.cash)
<1> DEFINE T == Through(journal, cutoff)
           A == {i \in T : journal[i].type \in ExternalEvents}
           S == Standing(cutoff, ExternalEvents)
           B == A \ S
           R == {j \in T : /\ journal[j].type = "reversal" /\ journal[j].reverses \in T
                           /\ journal[journal[j].reverses].type \in ExternalEvents}
           capital == CapitalOf(journal, T, T)
           paid == PaidBy(journal, S)
           name == [j \in R |-> journal[j].reverses]
           undone == [j \in R |-> capital[name[j]]]
<1>1. /\ T \in SUBSET (DOMAIN journal) /\ IsFiniteSet(T) /\ DOMAIN journal = 1..Len(journal)
      /\ \A i \in T : journal[i] \in Events /\ journal[i].occurred \in Nat /\ journal[i].legs.cash \in Int
  BY ThroughIs
<1>2. NetExternal(ReplayFlows(journal, 0, cutoff)) = SumOn(capital, T)
  <2>1. {i \in T : journal[i].occurred >= 0} = T
    BY <1>1
  <2> HIDE DEF T
  <2>2. NetExternal(FlowsOf(journal, T, T)) = SumOn(capital, T)
    BY <1>1, NetExternalIs
  <2> QED
    BY <2>1, <2>2 DEF ReplayFlows, T
<1>3. S = {i \in A : \A j \in T : journal[j].reverses # i}
  BY DEF Standing
<1> HIDE DEF T, S
<1>4. \A i \in T : capital[i] = IF i \in A \cup R THEN journal[i].legs.cash ELSE 0
  <2> SUFFICES ASSUME NEW i \in T PROVE capital[i] = IF i \in A \cup R THEN journal[i].legs.cash ELSE 0
    OBVIOUS
  <2>1. capital[i] = IF EffectiveType(journal, i, T) \in ExternalEvents THEN journal[i].legs.cash ELSE 0
    BY DEF CapitalOf
  <2>2. EffectiveType(journal, i, T) \in ExternalEvents <=> i \in A \cup R
    BY <1>1, CapitalIs
  <2> QED
    BY <2>1, <2>2
<1>5. A \cap R = {} /\ "reversal" \notin ExternalEvents
  BY DEF ExternalEvents, Inflows, Outflows
<1>6. /\ \A i \in T : capital[i] \in Int
      /\ \A i \in A \cup R : capital[i] = journal[i].legs.cash
  BY <1>1, <1>4
<1>7. B = {name[j] : j \in R}
  <2>1. ASSUME NEW i \in B PROVE \E j \in R : i = name[j]
    <3>1. PICK j \in T : journal[j].reverses = i
      BY <1>3
    <3>2. i # 0 /\ j \in DOMAIN journal
      BY <1>1
    <3>3. journal[j].type = "reversal"
      BY <3>1, <3>2 DEF Reversals
    <3> QED
      BY <3>1, <3>3
  <2>2. ASSUME NEW j \in R PROVE name[j] \in B
    BY <1>3, <2>2
  <2> QED
    BY <2>1, <2>2
<1>8. \A x, y \in R : name[x] = name[y] => x = y
  <2> SUFFICES ASSUME NEW x \in R, NEW y \in R, name[x] = name[y] PROVE x = y
    OBVIOUS
  <2>1. x \in DOMAIN journal /\ y \in DOMAIN journal /\ journal[x].reverses = journal[y].reverses
    BY <1>1
  <2> QED
    BY <2>1 DEF Reversals
<1>9. \A j \in R : capital[j] \in Int /\ undone[j] \in Int /\ capital[j] = -1 * undone[j]
  <2> SUFFICES ASSUME NEW j \in R PROVE capital[j] \in Int /\ undone[j] \in Int /\ capital[j] = -1 * undone[j]
    OBVIOUS
  <2>1. j \in DOMAIN journal /\ journal[j].type = "reversal"
    BY <1>1
  <2>2. journal[j].legs.cash = -journal[journal[j].reverses].legs.cash
    BY <2>1 DEF Reversals
  <2>3. journal[j].reverses \in A /\ j \in R /\ undone[j] = capital[journal[j].reverses]
    OBVIOUS
  <2>4. capital[j] = journal[j].legs.cash /\ undone[j] = journal[journal[j].reverses].legs.cash /\ j \in T
    BY <1>6, <2>3
  <2>5. undone[j] \in Int /\ capital[j] \in Int
    BY <1>6, <2>3
  <2> HIDE DEF capital, undone, R
  <2> QED
    BY <2>2, <2>4, <2>5
<1>10. /\ IsFiniteSet(A) /\ IsFiniteSet(R) /\ IsFiniteSet(S) /\ IsFiniteSet(B)
       /\ A = S \cup B /\ S \cap B = {} /\ S \in SUBSET T /\ B \in SUBSET T
  <2>1. A \in SUBSET T /\ R \in SUBSET T /\ S \in SUBSET T /\ B \in SUBSET T
    BY <1>3
  <2> QED
    BY <1>1, <1>3, <2>1, FS_Subset
<1>11. \A i \in S : paid[i] = capital[i] /\ paid[i] \in Int
  BY <1>1, <1>3, <1>6 DEF PaidBy
<1>12. undone = [j \in R |-> undone[j]] /\ \A j \in R : undone[j] = capital[name[j]]
  OBVIOUS
<1>13. A \cup R \in SUBSET T /\ \A i \in T \ (A \cup R) : capital[i] = 0
  BY <1>4
<1>14. /\ \A i \in A \cup R : capital[i] \in Int
       /\ \A i \in S \cup B : capital[i] \in Int
  BY <1>6, <1>10, <1>13
<1> HIDE DEF capital, paid, name, undone, A, B, R
<1>15. SumOn(capital, T) = SumOn(capital, A \cup R)
  BY <1>1, <1>6, <1>13, SumOnNonzero
<1>16. SumOn(capital, A \cup R) = SumOn(capital, A) + SumOn(capital, R)
  BY <1>5, <1>10, <1>14, SumOnUnion
<1>17. SumOn(capital, A) = SumOn(capital, S) + SumOn(capital, B)
  BY <1>10, <1>14, SumOnUnion
<1>18. SumOn(capital, B) = SumOn(undone, R)
  <2>1. IsFiniteSet(R) /\ \A j \in R : undone[j] = capital[name[j]] /\ undone[j] \in Int
    BY <1>9, <1>10, <1>12
  <2>2. SumOn(capital, {name[j] : j \in R}) = SumOn(undone, R)
    BY <1>8, <2>1, SumOnRenamed
  <2> QED
    BY <1>7, <2>2
<1>19. SumOn(capital, R) = -SumOn(undone, R)
  <2>1. PICK minus \in Int : minus = -1
    OBVIOUS
  <2>2. \A j \in R : undone[j] \in Int /\ capital[j] = minus * undone[j]
    BY <1>9, <2>1
  <2>3. SumOn(capital, R) = minus * SumOn(undone, R)
    BY <1>10, <2>2, SumOnScaled
  <2>4. SumOn(undone, R) \in Int
    BY <1>9, <1>10, SumOnInt
  <2> QED
    BY <2>1, <2>3, <2>4
<1>20. SumOn(paid, S) = SumOn(capital, S)
  BY <1>10, <1>11, SumOnSame
<1>21. SumOn(capital, S) \in Int /\ SumOn(undone, R) \in Int
  BY <1>9, <1>10, <1>14, SumOnInt
<1>22. SumOn(capital, T) = SumOn(paid, S)
  BY <1>15, <1>16, <1>17, <1>18, <1>19, <1>20, <1>21
<1> QED
  BY <1>2, <1>22, StandingSum DEF paid, S

\* The investor's capital at any cutoff is what the deposits and withdrawals that
\* still stand moved, whatever was posted, dated back and undone.
THEOREM CapitalAlwaysStands == Spec => []CapitalCountsWhatStands
<1>1. WholeNumbers /\ Reversals => CapitalCountsWhatStands
  BY CapitalStands DEF WholeNumbers, CapitalCountsWhatStands
<1> QED
  BY <1>1, ReversalsAlways, PTL

-----------------------------------------------------------------------------
(* Folds over a sequence *)

\* `it' takes a step for every member of every set of the first n, the latest last.
Carries(it, step, start, n) ==
  it = [s \in SUBSET (1..n) |-> IF s = {} THEN start ELSE step[Max(s)][it[s \ {Max(s)}]]]

LEMMA CarryExists ==
  ASSUME NEW step, NEW start, NEW n \in Nat
  PROVE  \E it : Carries(it, step, start, n)
<1> DEFINE Good == {m \in Nat : \E it : Carries(it, step, start, m)}
<1>1. 0 \in Good
  <2> DEFINE it == [s \in SUBSET (1..0) |-> start]
  <2>1. SUBSET (1..0) = {{}}
    OBVIOUS
  <2>2. Carries(it, step, start, 0)
    BY <2>1 DEF Carries
  <2> HIDE DEF it
  <2> QED
    BY <2>2
<1>2. ASSUME NEW k \in Nat, k \in Good PROVE k + 1 \in Good
  <2>1. PICK it : Carries(it, step, start, k)
    BY <1>2
  <2> DEFINE m == k + 1
             more == [s \in SUBSET (1..m) |-> IF m \in s THEN step[m][it[s \ {m}]] ELSE it[s]]
  <2>2. /\ m \in Nat /\ SUBSET (1..k) \subseteq SUBSET (1..m)
        /\ \A s \in SUBSET (1..m) : s \ {m} \in SUBSET (1..k) /\ (m \notin s => s \in SUBSET (1..k))
    OBVIOUS
  <2> HIDE DEF m
  <2>3. \A s \in SUBSET (1..k) : it[s] = IF s = {} THEN start ELSE step[Max(s)][it[s \ {Max(s)}]]
    BY <2>1 DEF Carries
  <2>4. ASSUME NEW s \in SUBSET (1..m)
        PROVE  more[s] = IF s = {} THEN start ELSE step[Max(s)][more[s \ {Max(s)}]]
    <3>1. CASE m \in s
      <4>1. Max(s) = m /\ s # {}
        BY <2>2, <3>1, LatestIs
      <4>2. s \ {m} \in SUBSET (1..m) /\ m \notin s \ {m}
        BY <2>2
      <4>3. more[s \ {m}] = it[s \ {m}]
        BY <4>2
      <4> QED
        BY <3>1, <4>1, <4>3
    <3>2. CASE m \notin s /\ s # {}
      <4>1. s \in SUBSET (1..k) /\ Max(s) \in s
        BY <2>2, <3>2, LatestIs
      <4>2. s \ {Max(s)} \in SUBSET (1..m) /\ m \notin s \ {Max(s)}
        BY <3>2
      <4>3. more[s \ {Max(s)}] = it[s \ {Max(s)}]
        BY <4>2
      <4> QED
        BY <2>3, <3>2, <4>1, <4>3
    <3>3. CASE s = {}
      BY <2>3, <3>3
    <3> QED
      BY <3>1, <3>2, <3>3
  <2>5. Carries(more, step, start, m)
    BY <2>4 DEF Carries
  <2> HIDE DEF more
  <2> QED
    BY <2>2, <2>5 DEF m
<1> HIDE DEF Good
<1>3. Nat \subseteq Good
  BY <1>1, <1>2, NaturalInduction
<1> QED
  BY <1>3 DEF Good

\* What is carried stays in a set that the steps do not leave.
LEMMA CarryType ==
  ASSUME NEW n \in Nat, NEW X, NEW start \in X, NEW step, \A k \in 1..n : step[k] \in [X -> X],
         NEW it, Carries(it, step, start, n)
  PROVE  \A s \in SUBSET (1..n) : it[s] \in X
<1> DEFINE Good == {s \in SUBSET (1..n) : it[s] \in X}
<1>1. \A s \in SUBSET (1..n) : it[s] = IF s = {} THEN start ELSE step[Max(s)][it[s \ {Max(s)}]]
  BY DEF Carries
<1>2. ASSUME NEW s \in SUBSET (1..n), \A k \in s : s \ {k} \in Good PROVE s \in Good
  <2>1. CASE s = {}
    BY <1>1, <2>1
  <2>2. CASE s # {}
    <3>1. Max(s) \in s
      BY <2>2, LatestIs
    <3>2. it[s \ {Max(s)}] \in X /\ step[Max(s)] \in [X -> X]
      BY <1>2, <3>1
    <3> QED
      BY <1>1, <2>2, <3>2
  <2> QED
    BY <2>1, <2>2
<1>3. IsFiniteSet(1..n)
  BY FS_Interval
<1> HIDE DEF Good
<1>4. SUBSET (1..n) \subseteq Good
  <2>1. PICK S : S = 1..n
    OBVIOUS
  <2>2. IsFiniteSet(S) /\ \A T \in SUBSET S : (\A x \in T : T \ {x} \in Good) => T \in Good
    BY <1>2, <1>3, <2>1
  <2>3. SUBSET S \subseteq Good
    BY <2>2, SubsetInduction
  <2> QED
    BY <2>1, <2>3
<1> QED
  BY <1>4 DEF Good

\* There is one that does so.
LEMMA CarryOnce ==
  ASSUME NEW n \in Nat, NEW start, NEW step,
         NEW it, Carries(it, step, start, n), NEW other, Carries(other, step, start, n)
  PROVE  other = it
<1> DEFINE Good == {s \in SUBSET (1..n) : other[s] = it[s]}
<1>1. ASSUME NEW s \in SUBSET (1..n)
      PROVE  /\ it[s] = IF s = {} THEN start ELSE step[Max(s)][it[s \ {Max(s)}]]
             /\ other[s] = IF s = {} THEN start ELSE step[Max(s)][other[s \ {Max(s)}]]
  BY DEF Carries
<1>2. ASSUME NEW s \in SUBSET (1..n), \A k \in s : s \ {k} \in Good PROVE s \in Good
  <2>1. CASE s = {}
    BY <1>1, <2>1
  <2>2. CASE s # {}
    <3>1. Max(s) \in s
      BY <2>2, LatestIs
    <3> QED
      BY <1>1, <1>2, <2>2, <3>1
  <2> QED
    BY <2>1, <2>2
<1>3. IsFiniteSet(1..n)
  BY FS_Interval
<1> HIDE DEF Good
<1>4. SUBSET (1..n) \subseteq Good
  <2>1. PICK S : S = 1..n
    OBVIOUS
  <2>2. IsFiniteSet(S) /\ \A T \in SUBSET S : (\A x \in T : T \ {x} \in Good) => T \in Good
    BY <1>2, <1>3, <2>1
  <2>3. SUBSET S \subseteq Good
    BY <2>2, SubsetInduction
  <2> QED
    BY <2>1, <2>3
<1>5. ASSUME NEW s \in SUBSET (1..n) PROVE other[s] = it[s]
  BY <1>4 DEF Good
<1>6. /\ it = [s \in SUBSET (1..n) |-> IF s = {} THEN start ELSE step[Max(s)][it[s \ {Max(s)}]]]
      /\ other = [s \in SUBSET (1..n) |-> IF s = {} THEN start ELSE step[Max(s)][other[s \ {Max(s)}]]]
  BY DEF Carries
<1>7. it = [s \in SUBSET (1..n) |-> it[s]] /\ other = [s \in SUBSET (1..n) |-> other[s]]
  BY <1>6
<1> QED
  BY <1>5, <1>7

LEMMA FirstWithoutLast ==
  ASSUME NEW n \in Nat, NEW k \in 1..n
  PROVE  /\ 1..k \in SUBSET (1..n) /\ 1..k # {} /\ (1..k) \ {k} = 1..(k - 1) /\ k - 1 \in 0..n /\ k \in 0..n
         /\ k \in Nat /\ 1..k \in SUBSET (1..k) /\ k \in 1..k
OBVIOUS

\* n steps that lead from one state of X to another, from the start to the end.
StepsWithin(step, n, X) == \A k \in 1..n : step[k] \in [X -> X]
Leads(pass, step, start, end, n, X) ==
  /\ pass \in [0..n -> X] /\ pass[0] = start /\ pass[n] = end
  /\ \A k \in 1..n : pass[k] = step[k][pass[k - 1]]

\* The results for the first 0, 1, 2, ... members follow from one another.
LEMMA CarriedPass ==
  ASSUME NEW n \in Nat, NEW X, NEW start \in X, NEW step, StepsWithin(step, n, X),
         NEW it, Carries(it, step, start, n)
  PROVE  \E pass : Leads(pass, step, start, it[1..n], n, X)
<1> USE DEF StepsWithin
<1> DEFINE pass == [k \in 0..n |-> it[1..k]]
<1>1. \A s \in SUBSET (1..n) : it[s] = IF s = {} THEN start ELSE step[Max(s)][it[s \ {Max(s)}]]
  BY DEF Carries
<1>2. \A s \in SUBSET (1..n) : it[s] \in X
  BY CarryType
<1>3. pass \in [0..n -> X] /\ pass[0] = start /\ pass[n] = it[1..n]
  <2>1. \A k \in 0..n : 1..k \in SUBSET (1..n)
    OBVIOUS
  <2>2. 1..0 = {}
    OBVIOUS
  <2>3. it[{}] = start
    <3>1. {} \in SUBSET (1..n)
      OBVIOUS
    <3> QED
      BY <1>1, <3>1
  <2> QED
    BY <1>2, <2>1, <2>2, <2>3
<1>4. ASSUME NEW k \in 1..n PROVE pass[k] = step[k][pass[k - 1]]
  <2>1. /\ 1..k \in SUBSET (1..n) /\ 1..k # {} /\ (1..k) \ {k} = 1..(k - 1) /\ k - 1 \in 0..n /\ k \in 0..n
        /\ k \in Nat /\ 1..k \in SUBSET (1..k) /\ k \in 1..k
    BY FirstWithoutLast
  <2>2. Max(1..k) = k
    BY <2>1, LatestIs
  <2>3. it[1..k] = step[Max(1..k)][it[(1..k) \ {Max(1..k)}]]
    BY <1>1, <2>1
  <2> QED
    BY <2>1, <2>2, <2>3
<1> HIDE DEF pass
<1> QED
  BY <1>3, <1>4 DEF Leads

CountedAll(log, edges, known, start, seq) ==
  FoldLeft(LAMBDA x, i : Counted(log, edges, known, x, i), start, seq)

\* A pass over a sequence of n positions that starts in X and stays in X.
StaysIn(log, edges, known, start, seq, n, X) ==
  /\ n \in Nat /\ DOMAIN seq = 1..n /\ start \in X
  /\ \A k \in 1..n : \A x \in X : Counted(log, edges, known, x, seq[k]) \in X

\* The states of a pass, one after the other.
IsPass(log, edges, known, start, seq, n, X, pass) ==
  /\ pass \in [0..n -> X] /\ pass[0] = start
  /\ \A k \in 1..n : pass[k] = Counted(log, edges, known, pass[k - 1], seq[k])
  /\ CountedAll(log, edges, known, start, seq) = pass[n]

\* A pass goes through states of its own, from the start to the result of the fold.
LEMMA CountedPass ==
  ASSUME NEW log, NEW edges, NEW known, NEW start, NEW seq, NEW n, NEW X,
         StaysIn(log, edges, known, start, seq, n, X)
  PROVE  \E pass : IsPass(log, edges, known, start, seq, n, X, pass)
<1> USE DEF StaysIn
<1> DEFINE Op(x, k) == Counted(log, edges, known, x, seq[k])
           Iterates(u) == u = [s \in SUBSET (1..n) |-> IF s = {} THEN start ELSE Op(u[s \ {Max(s)}], Max(s))]
           step == [k \in 1..n |-> [x \in X |-> Op(x, k)]]
<1>1. CountedAll(log, edges, known, start, seq) = (CHOOSE u : Iterates(u))[1..n]
  BY DEF CountedAll, FoldLeft, MapThenFoldSet
<1>2. \A k \in 1..n : \A x \in X : Op(x, k) \in X
  OBVIOUS
<1> HIDE DEF Op
<1>3. PICK it : Carries(it, step, start, n)
  BY CarryExists
<1>4. \A s \in SUBSET (1..n) : it[s] \in X
  <2>1. \A k \in 1..n : step[k] \in [X -> X]
    BY <1>2
  <2> HIDE DEF step
  <2> QED
    BY <1>3, <2>1, CarryType
<1>5. ASSUME NEW s \in SUBSET (1..n), s # {} PROVE Max(s) \in 1..n /\ s \ {Max(s)} \in SUBSET (1..n)
  BY <1>5, LatestIs
<1>6. Iterates(it)
  <2>1. it = [s \in SUBSET (1..n) |-> IF s = {} THEN start ELSE step[Max(s)][it[s \ {Max(s)}]]]
    BY <1>3 DEF Carries
  <2>2. ASSUME NEW s \in SUBSET (1..n), s # {}
        PROVE  step[Max(s)][it[s \ {Max(s)}]] = Op(it[s \ {Max(s)}], Max(s))
    BY <1>4, <1>5, <2>2
  <2>3. [s \in SUBSET (1..n) |-> IF s = {} THEN start ELSE step[Max(s)][it[s \ {Max(s)}]]]
          = [s \in SUBSET (1..n) |-> IF s = {} THEN start ELSE Op(it[s \ {Max(s)}], Max(s))]
    BY <2>2
  <2> QED
    BY <2>1, <2>3
<1>7. ASSUME NEW u, Iterates(u) PROVE u = it
  <2> DEFINE Y == {u[s] : s \in SUBSET (1..n)} \cup {it[s] : s \in SUBSET (1..n)}
             either == [k \in 1..n |-> [x \in Y |-> Op(x, k)]]
  <2>1. ASSUME NEW v, Iterates(v), \A s \in SUBSET (1..n) : v[s] \in Y PROVE Carries(v, either, start, n)
    <3>1. ASSUME NEW s \in SUBSET (1..n), s # {}
          PROVE  Op(v[s \ {Max(s)}], Max(s)) = either[Max(s)][v[s \ {Max(s)}]]
      BY <1>5, <2>1, <3>1
    <3>2. [s \in SUBSET (1..n) |-> IF s = {} THEN start ELSE Op(v[s \ {Max(s)}], Max(s))]
            = [s \in SUBSET (1..n) |-> IF s = {} THEN start ELSE either[Max(s)][v[s \ {Max(s)}]]]
      BY <3>1
    <3> QED
      BY <2>1, <3>2 DEF Carries
  <2>2. \A s \in SUBSET (1..n) : u[s] \in Y /\ it[s] \in Y
    OBVIOUS
  <2> HIDE DEF Y, either, Iterates
  <2>3. Carries(u, either, start, n) /\ Carries(it, either, start, n)
    BY <1>6, <1>7, <2>1, <2>2
  <2> QED
    BY <2>3, CarryOnce
<1>8. (CHOOSE u : Iterates(u)) = it
  <2> HIDE DEF Iterates
  <2> QED
    BY <1>6, <1>7
<1>9. PICK pass : Leads(pass, step, start, it[1..n], n, X)
  <2>1. StepsWithin(step, n, X)
    BY <1>2 DEF StepsWithin
  <2>2. n \in Nat /\ start \in X
    OBVIOUS
  <2> HIDE DEF step, Iterates, StaysIn
  <2> QED
    BY <1>3, <2>1, <2>2, CarriedPass
<1>10. \A k \in 1..n : pass[k] = Op(pass[k - 1], k)
  <2>1. \A k \in 1..n : k - 1 \in 0..n
    OBVIOUS
  <2> QED
    BY <1>9, <2>1 DEF Leads
<1> HIDE DEF Iterates, StaysIn, step
<1>11. CountedAll(log, edges, known, start, seq) = pass[n]
  BY <1>1, <1>8, <1>9 DEF Leads
<1> QED
  BY <1>9, <1>10, <1>11 DEF Op, IsPass, Leads

-----------------------------------------------------------------------------
(* Places in an order *)

\* In a total order, where below[i] are those before i, every place is taken.
LEMMA PlacesAreTaken ==
  ASSUME NEW T, IsFiniteSet(T), NEW below,
         \A i \in T : below[i] \in SUBSET T /\ i \notin below[i],
         \A i, j \in T : i \in below[j] => below[i] \subseteq below[j],
         \A i, j \in T : i # j => i \in below[j] \/ j \in below[i]
  PROVE  /\ Cardinality(T) \in Nat
         /\ \A i \in T : Cardinality(below[i]) \in 0..(Cardinality(T) - 1)
         /\ \A i, j \in T : i \in below[j] => Cardinality(below[i]) < Cardinality(below[j])
         /\ \A k \in 0..(Cardinality(T) - 1) : \E i \in T : Cardinality(below[i]) = k
<1>1. PICK n \in Nat : n = Cardinality(T)
  BY FS_CardinalityType
<1>2. ASSUME NEW i \in T PROVE IsFiniteSet(below[i]) /\ Cardinality(below[i]) \in 0..(n - 1)
  <2>1. IsFiniteSet(T \ {i}) /\ Cardinality(T \ {i}) = n - 1
    BY <1>1, FS_RemoveElement
  <2>2. below[i] \in SUBSET (T \ {i})
    OBVIOUS
  <2>3. IsFiniteSet(below[i]) /\ Cardinality(below[i]) <= Cardinality(T \ {i})
    BY <2>1, <2>2, FS_Subset
  <2>4. Cardinality(below[i]) \in Nat
    BY <2>3, FS_CardinalityType
  <2>5. PICK c \in Nat : c = Cardinality(below[i])
    BY <2>4
  <2> QED
    BY <1>1, <2>1, <2>3, <2>5
<1>3. ASSUME NEW i \in T, NEW j \in T, i \in below[j] PROVE Cardinality(below[i]) < Cardinality(below[j])
  <2>1. below[i] \in SUBSET below[j] /\ below[i] # below[j]
    BY <1>3
  <2>2. Cardinality(below[i]) <= Cardinality(below[j]) /\ Cardinality(below[i]) # Cardinality(below[j])
    BY <1>2, <2>1, FS_Subset
  <2>3. PICK c \in Nat, d \in Nat : c = Cardinality(below[i]) /\ d = Cardinality(below[j])
    BY <1>2
  <2> QED
    BY <2>2, <2>3
<1> DEFINE f == [i \in T |-> Cardinality(below[i])]
<1>4. f \in Injection(T, 0..(n - 1))
  <2>1. f \in [T -> 0..(n - 1)]
    BY <1>2
  <2>2. ASSUME NEW i \in T, NEW j \in T, f[i] = f[j] PROVE i = j
    <3>1. PICK c \in Nat, d \in Nat : c = Cardinality(below[i]) /\ d = Cardinality(below[j])
      BY <1>2
    <3>2. ~(c < d) /\ ~(d < c)
      BY <2>2, <3>1
    <3> QED
      BY <1>3, <3>1, <3>2
  <2> HIDE DEF f
  <2> QED
    BY <2>1, <2>2 DEF Injection, IsInjective
<1>5. IsFiniteSet(0..(n - 1)) /\ Cardinality(0..(n - 1)) = n
  <2>1. PICK m \in Int : m = n - 1
    OBVIOUS
  <2>2. IsFiniteSet(0..m) /\ Cardinality(0..m) = IF 0 > m THEN 0 ELSE m - 0 + 1
    BY FS_Interval
  <2> QED
    BY <2>1, <2>2
<1>6. f \in Surjection(T, 0..(n - 1))
  <2>1. PICK U : U = 0..(n - 1)
    OBVIOUS
  <2>2. IsFiniteSet(U) /\ f \in Injection(T, U) /\ Cardinality(U) = n
    BY <1>4, <1>5, <2>1
  <2> HIDE DEF f
  <2>3. Cardinality(T) = Cardinality(U) <=> f \in Surjection(T, U)
    BY <2>2, FS_Injection
  <2> QED
    BY <1>1, <2>1, <2>2, <2>3
<1>7. \A k \in 0..(n - 1) : \E i \in T : f[i] = k
  BY <1>6 DEF Surjection
<1> QED
  BY <1>1, <1>2, <1>3, <1>7

\* The k-th of a set of numbers, from the least on.
LEMMA AscendingIs ==
  ASSUME NEW S \in SUBSET Int, IsFiniteSet(S)
  PROVE  /\ Cardinality(S) \in Nat /\ DOMAIN Ascending(S) = 1..Cardinality(S)
         /\ \A k \in 1..Cardinality(S) : Ascending(S)[k] \in S
         /\ \A k, l \in 1..Cardinality(S) : k < l => Ascending(S)[k] < Ascending(S)[l]
         /\ \A x \in S : \E k \in 1..Cardinality(S) : Ascending(S)[k] = x
<1> DEFINE below == [x \in S |-> {y \in S : y < x}]
<1>1. /\ \A i \in S : below[i] \in SUBSET S /\ i \notin below[i]
      /\ \A i, j \in S : i \in below[j] => below[i] \subseteq below[j]
      /\ \A i, j \in S : i # j => i \in below[j] \/ j \in below[i]
  <2>1. \A i, j \in S : i \in below[j] <=> i < j
    OBVIOUS
  <2>2. \A i \in S : below[i] \in SUBSET S /\ i \notin below[i]
    OBVIOUS
  <2>3. ASSUME NEW i \in S, NEW j \in S, i \in below[j] PROVE below[i] \subseteq below[j]
    <3>1. i < j
      BY <2>1, <2>3
    <3>2. \A x \in S : x < i => x < j
      BY <3>1
    <3> QED
      BY <3>2
  <2>4. \A i, j \in S : i # j => i < j \/ j < i
    OBVIOUS
  <2> QED
    BY <2>1, <2>2, <2>3, <2>4
<1> HIDE DEF below
<1>2. /\ Cardinality(S) \in Nat
      /\ \A i \in S : Cardinality(below[i]) \in 0..(Cardinality(S) - 1)
      /\ \A i, j \in S : i \in below[j] => Cardinality(below[i]) < Cardinality(below[j])
      /\ \A k \in 0..(Cardinality(S) - 1) : \E i \in S : Cardinality(below[i]) = k
  BY <1>1, PlacesAreTaken
<1>3. PICK n \in Nat : n = Cardinality(S)
  BY <1>2
<1>4. Ascending(S) = [k \in 1..n |-> CHOOSE x \in S : Cardinality({y \in S : y < x}) = k - 1]
  BY <1>3 DEF Ascending
<1>5. ASSUME NEW k \in 1..n
      PROVE  Ascending(S)[k] \in S /\ Cardinality(below[Ascending(S)[k]]) = k - 1
  <2>1. k - 1 \in 0..(n - 1)
    OBVIOUS
  <2>2. \E x \in S : Cardinality(below[x]) = k - 1
    BY <1>2, <1>3, <2>1
  <2>3. \A x \in S : below[x] = {y \in S : y < x}
    BY DEF below
  <2>4. \E x \in S : Cardinality({y \in S : y < x}) = k - 1
    BY <2>2, <2>3
  <2>5. Ascending(S)[k] \in S /\ Cardinality({y \in S : y < Ascending(S)[k]}) = k - 1
    BY <1>4, <2>4
  <2> QED
    BY <2>3, <2>5
<1>6. ASSUME NEW k \in 1..n, NEW l \in 1..n, k < l PROVE Ascending(S)[k] < Ascending(S)[l]
  <2>1. PICK x \in S, y \in S : x = Ascending(S)[k] /\ y = Ascending(S)[l]
    BY <1>5
  <2>2. Cardinality(below[x]) = k - 1 /\ Cardinality(below[y]) = l - 1
    BY <1>5, <2>1
  <2>3. y \notin below[x] /\ x # y
    <3>1. k - 1 < l - 1 /\ ~(l - 1 < k - 1)
      BY <1>6
    <3> QED
      BY <1>2, <2>2, <3>1
  <2>4. x \in below[y]
    BY <1>1, <2>3
  <2> QED
    BY <2>1, <2>4 DEF below
<1>7. ASSUME NEW x \in S PROVE \E k \in 1..n : Ascending(S)[k] = x
  <2>1. PICK c \in 0..(n - 1) : c = Cardinality(below[x])
    BY <1>2, <1>3
  <2>2. PICK k \in 1..n : k = c + 1 /\ k - 1 = c
    <3>1. c + 1 \in 1..n /\ (c + 1) - 1 = c
      OBVIOUS
    <3> QED
      BY <3>1
  <2>3. PICK y \in S : y = Ascending(S)[k] /\ Cardinality(below[y]) = c
    BY <1>5, <2>2
  <2>4. x = y
    <3>1. ~(c < c)
      OBVIOUS
    <3> QED
      BY <1>1, <1>2, <2>1, <2>3, <3>1
  <2> QED
    BY <2>3, <2>4
<1> QED
  BY <1>2, <1>3, <1>4, <1>5, <1>6, <1>7

\* A replay takes each event that the cutoff shows once, by when they occurred.
\* A sequence of some n events, each of them once, in the order they occurred.
InTurn(log, events, n, seq) ==
  /\ n \in Nat /\ DOMAIN seq = 1..n
  /\ \A k \in 1..n : seq[k] \in events
  /\ \A k, l \in 1..n : k < l => seq[k] # seq[l] /\ log[seq[k]].occurred <= log[seq[l]].occurred
  /\ \A i \in events : \E k \in 1..n : seq[k] = i

LEMMA EventsAreOrdered ==
  ASSUME NEW log \in Seq(Events), NEW cutoff
  PROVE  InTurn(log, Through(log, cutoff), Cardinality(Through(log, cutoff)), EventsThrough(log, cutoff))
<1> DEFINE T == Through(log, cutoff)
           seq == EventsThrough(log, cutoff)
<1> DEFINE below == [i \in T |-> {j \in T : Before(log, j, i)}]
<1>1. T \in SUBSET Nat /\ IsFiniteSet(T) /\ \A i \in T : log[i].occurred \in Nat
  BY ThroughIs
<1>11. seq = [k \in 1..Cardinality(DOMAIN Places(log, T)) |-> CHOOSE i \in DOMAIN Places(log, T) : Places(log, T)[i] = k]
  BY DEF EventsThrough
<1> HIDE DEF T, seq
<1>2. /\ \A i \in T : below[i] \in SUBSET T /\ i \notin below[i]
      /\ \A i, j \in T : i \in below[j] => below[i] \subseteq below[j]
      /\ \A i, j \in T : i # j => i \in below[j] \/ j \in below[i]
  <2>1. \A i \in T : ~Before(log, i, i)
    BY <1>1 DEF Before
  <2>2. \A i, j, k \in T : Before(log, i, j) /\ Before(log, j, k) => Before(log, i, k)
    BY <1>1 DEF Before
  <2>3. \A i, j \in T : i # j => Before(log, i, j) \/ Before(log, j, i)
    <3>1. \A i, j \in T : i \in Nat /\ j \in Nat /\ log[i].occurred \in Nat /\ log[j].occurred \in Nat
      BY <1>1
    <3> HIDE DEF below
    <3> QED
      BY <3>1 DEF Before
  <2> QED
    BY <2>1, <2>2, <2>3
<1>3. \A i, j \in T : i \in below[j] => i # j /\ log[i].occurred <= log[j].occurred
  <2>1. \A i, j \in T : Before(log, i, j) => i # j /\ log[i].occurred <= log[j].occurred
    BY <1>1 DEF Before
  <2> QED
    BY <2>1
<1>4. Places(log, T) = [i \in T |-> Cardinality(below[i]) + 1]
  BY DEF Places
<1> HIDE DEF below
<1>5. /\ Cardinality(T) \in Nat
      /\ \A i \in T : Cardinality(below[i]) \in 0..(Cardinality(T) - 1)
      /\ \A i, j \in T : i \in below[j] => Cardinality(below[i]) < Cardinality(below[j])
      /\ \A k \in 0..(Cardinality(T) - 1) : \E i \in T : Cardinality(below[i]) = k
  BY <1>1, <1>2, PlacesAreTaken
<1>6. PICK n \in Nat : n = Cardinality(T)
  BY <1>5
<1>7. PICK places : DOMAIN places = T /\ (\A i \in T : places[i] = Cardinality(below[i]) + 1)
                    /\ seq = [k \in 1..n |-> CHOOSE i \in T : places[i] = k]
  <2>1. PICK places : places = Places(log, T)
    OBVIOUS
  <2>2. DOMAIN places = T /\ \A i \in T : places[i] = Cardinality(below[i]) + 1
    BY <1>4, <2>1
  <2>3. seq = [k \in 1..n |-> CHOOSE i \in T : places[i] = k]
    BY <1>6, <1>11, <2>1, <2>2
  <2> QED
    BY <2>2, <2>3
<1>8. ASSUME NEW k \in 1..n PROVE seq[k] \in T /\ Cardinality(below[seq[k]]) = k - 1
  <2>1. k - 1 \in 0..(n - 1)
    OBVIOUS
  <2>2. PICK x \in T : Cardinality(below[x]) = k - 1
    BY <1>5, <1>6, <2>1
  <2>3. places[x] = k
    BY <1>7, <2>2
  <2>4. PICK y \in T : y = seq[k] /\ Cardinality(below[y]) + 1 = k
    BY <1>7, <2>3
  <2>5. PICK c \in 0..(n - 1) : c = Cardinality(below[y])
    BY <1>5, <1>6
  <2>6. c = k - 1
    BY <2>4, <2>5
  <2> QED
    BY <2>4, <2>5, <2>6
<1>9. ASSUME NEW k \in 1..n, NEW l \in 1..n, k < l
      PROVE  seq[k] # seq[l] /\ log[seq[k]].occurred <= log[seq[l]].occurred
  <2>1. PICK x \in T, y \in T : x = seq[k] /\ y = seq[l] /\ Cardinality(below[x]) = k - 1 /\ Cardinality(below[y]) = l - 1
    BY <1>8
  <2>2. y \notin below[x] /\ x # y
    <3>1. k - 1 < l - 1 /\ ~(l - 1 < k - 1)
      BY <1>9
    <3> QED
      BY <1>5, <2>1, <3>1
  <2>3. x \in below[y]
    BY <1>2, <2>2
  <2> QED
    BY <1>3, <2>1, <2>3
<1>10. ASSUME NEW x \in T PROVE \E k \in 1..n : seq[k] = x
  <2>1. PICK c \in 0..(n - 1) : c = Cardinality(below[x])
    BY <1>5, <1>6
  <2>2. PICK k \in 1..n : k = c + 1 /\ k - 1 = c
    <3>1. c + 1 \in 1..n /\ (c + 1) - 1 = c
      OBVIOUS
    <3> QED
      BY <3>1
  <2>3. PICK y \in T : y = seq[k] /\ Cardinality(below[y]) = c
    BY <1>8, <2>2
  <2>4. x = y
    <3>1. ~(c < c)
      OBVIOUS
    <3> QED
      BY <1>2, <1>5, <2>1, <2>3, <3>1
  <2> QED
    BY <2>3, <2>4
<1>12. InTurn(log, T, n, seq)
  BY <1>7, <1>8, <1>9, <1>10 DEF InTurn
<1> QED
  BY <1>6, <1>12 DEF T, seq

-----------------------------------------------------------------------------
(* One pass over many windows *)

Flows == [FlowFields -> Int]
Passes(K) == [cursor: 1..K, buckets: [1..K -> Flows]]

\* K windows, each of which begins where the one before it ends.
Windows(edges, K) ==
  /\ K \in Nat \ {0} /\ edges \in Seq(Int) /\ Len(edges) = K + 1
  /\ \A k, l \in 1..(K + 1) : k < l => edges[k] <= edges[l]

InWindow(log, edges, i, k) == edges[k] < log[i].occurred /\ log[i].occurred <= edges[k + 1]

\* What the pass does with an event of the k-th window.
CountedIn(log, known, x, i, k) ==
  [cursor |-> k,
   buckets |-> [x.buckets EXCEPT ![k] = [f \in FlowFields |-> x.buckets[k][f] + Flow(log, i, known)[f]]]]

LEMMA WindowsApart ==
  ASSUME NEW edges, NEW K, Windows(edges, K), NEW log, NEW i, log[i].occurred \in Int,
         NEW k \in 1..K, NEW l \in 1..K, InWindow(log, edges, i, k), InWindow(log, edges, i, l)
  PROVE  k = l
<1>1. /\ \A m \in 1..(K + 1) : edges[m] \in Int
      /\ \A m, o \in 1..(K + 1) : m < o => edges[m] <= edges[o]
      /\ K \in Nat
  BY DEF Windows
<1>2. ASSUME NEW m \in 1..K, NEW o \in 1..K, InWindow(log, edges, i, m), InWindow(log, edges, i, o), m < o
      PROVE  FALSE
  <2>1. m + 1 \in 1..(K + 1) /\ o \in 1..(K + 1) /\ (m + 1 < o \/ m + 1 = o)
    BY <1>1, <1>2
  <2>2. edges[m + 1] <= edges[o]
    BY <1>1, <2>1
  <2>3. edges[o] < log[i].occurred /\ log[i].occurred <= edges[m + 1]
    BY <1>2 DEF InWindow
  <2> QED
    BY <1>1, <2>1, <2>2, <2>3
<1>3. ~(k < l) /\ ~(l < k)
  BY <1>2
<1> QED
  BY <1>1, <1>3

LEMMA CountedIs ==
  ASSUME NEW edges, NEW K, Windows(edges, K), NEW known, NEW log, NEW i, log[i].occurred \in Int,
         NEW x \in Passes(K)
  PROVE  \/ /\ Counted(log, edges, known, x, i) = x
            /\ log[i].occurred <= edges[1] \/ edges[K + 1] < log[i].occurred
         \/ \E k \in x.cursor..K :
              /\ edges[1] < log[i].occurred /\ log[i].occurred <= edges[k + 1]
              /\ \A l \in x.cursor..K : l < k => edges[l + 1] < log[i].occurred
              /\ Counted(log, edges, known, x, i) = CountedIn(log, known, x, i, k)
<1> DEFINE later == {m \in x.cursor..K : log[i].occurred <= edges[m + 1]}
           k == Min(later)
<1>1. Len(edges) - 1 = K /\ K \in Nat /\ x.cursor \in 1..K /\ \A m \in 1..(K + 1) : edges[m] \in Int
  BY DEF Windows, Passes
<1>2. BucketsFrom(edges, x.cursor, log[i].occurred) = later
  BY <1>1 DEF BucketsFrom
<1>3. DOMAIN NoFlows = FlowFields
  BY DEF NoFlows, FlowFields
<1>4. Counted(log, edges, known, x, i) =
        IF log[i].occurred <= edges[1] \/ later = {} THEN x ELSE CountedIn(log, known, x, i, k)
  <2> HIDE DEF later
  <2> QED
    BY <1>2, <1>3 DEF Counted, CountedIn
<1>5. CASE later # {}
  <2>1. later \in SUBSET Int /\ \A m \in later : x.cursor <= m
    BY <1>1
  <2>2. k \in later /\ \A m \in later : k <= m
    <3>1. PICK bound \in Int : bound = x.cursor
      BY <1>1
    <3>2. \A m \in later : bound <= m
      BY <2>1, <3>1
    <3> HIDE DEF later
    <3>3. Min(later) \in later /\ \A m \in later : Min(later) <= m
      BY <1>5, <2>1, <3>2, MinIs
    <3> QED
      BY <3>3
  <2> HIDE DEF k
  <2>3. k \in x.cursor..K /\ log[i].occurred <= edges[k + 1]
    BY <2>2
  <2>4. ASSUME NEW l \in x.cursor..K, l < k PROVE edges[l + 1] < log[i].occurred
    <3>1. l \notin later
      BY <1>1, <2>2, <2>3, <2>4
    <3>2. l + 1 \in 1..(K + 1)
      BY <1>1
    <3> QED
      BY <1>1, <3>1, <3>2
  <2>5. log[i].occurred <= edges[1] \/ edges[1] < log[i].occurred
    BY <1>1
  <2> HIDE DEF later
  <2> QED
    BY <1>4, <1>5, <2>3, <2>4, <2>5
<1>6. CASE later = {}
  <2>1. K \in x.cursor..K /\ K \notin later /\ K + 1 \in 1..(K + 1)
    BY <1>1, <1>6
  <2>2. edges[K + 1] < log[i].occurred
    BY <1>1, <2>1
  <2> HIDE DEF later
  <2> QED
    BY <1>4, <1>6, <2>2
<1> QED
  BY <1>5, <1>6

LEMMA CountedSomewhere ==
  ASSUME NEW edges, NEW K, Windows(edges, K), NEW known, NEW log, NEW i, log[i].occurred \in Int,
         NEW x \in Passes(K)
  PROVE  \/ Counted(log, edges, known, x, i) = x
         \/ \E k \in x.cursor..K : Counted(log, edges, known, x, i) = CountedIn(log, known, x, i, k)
<1>1. \/ /\ Counted(log, edges, known, x, i) = x
         /\ log[i].occurred <= edges[1] \/ edges[K + 1] < log[i].occurred
      \/ \E k \in x.cursor..K :
           /\ edges[1] < log[i].occurred /\ log[i].occurred <= edges[k + 1]
           /\ \A l \in x.cursor..K : l < k => edges[l + 1] < log[i].occurred
           /\ Counted(log, edges, known, x, i) = CountedIn(log, known, x, i, k)
  BY CountedIs
<1>2. CASE Counted(log, edges, known, x, i) = x
  BY <1>2
<1>3. ASSUME NEW k \in x.cursor..K, Counted(log, edges, known, x, i) = CountedIn(log, known, x, i, k)
      PROVE  \E l \in x.cursor..K : Counted(log, edges, known, x, i) = CountedIn(log, known, x, i, l)
  BY <1>3
<1> QED
  BY <1>1, <1>2, <1>3

LEMMA CountedType ==
  ASSUME NEW edges, NEW K, Windows(edges, K), NEW known, NEW log, NEW i, log[i] \in Events,
         NEW x \in Passes(K)
  PROVE  Counted(log, edges, known, x, i) \in Passes(K)
<1>1. log[i].occurred \in Int
  BY DEF Events, Moments
<1>2. x.cursor \in 1..K /\ x.buckets \in [1..K -> Flows] /\ K \in Nat
  BY DEF Passes, Windows
<1>3. ASSUME NEW k \in 1..K PROVE CountedIn(log, known, x, i, k) \in Passes(K)
  <2> DEFINE more == [f \in FlowFields |-> x.buckets[k][f] + Flow(log, i, known)[f]]
  <2>1. more \in Flows
    <3>1. \A f \in FlowFields : Flow(log, i, known)[f] \in Int
      BY FlowIs
    <3>2. x.buckets[k] \in Flows
      BY <1>2
    <3> QED
      BY <3>1, <3>2 DEF Flows
  <2> HIDE DEF more
  <2>2. [x.buckets EXCEPT ![k] = more] \in [1..K -> Flows]
    BY <1>2, <2>1
  <2>3. CountedIn(log, known, x, i, k) = [cursor |-> k, buckets |-> [x.buckets EXCEPT ![k] = more]]
    BY DEF CountedIn, more
  <2> QED
    BY <2>2, <2>3 DEF Passes
<1>4. \A k \in x.cursor..K : k \in 1..K
  BY <1>2
<1>5. \/ Counted(log, edges, known, x, i) = x
      \/ \E k \in x.cursor..K : Counted(log, edges, known, x, i) = CountedIn(log, known, x, i, k)
  BY <1>1, CountedSomewhere
<1> QED
  BY <1>3, <1>4, <1>5

\* The events of the k-th window among the first m of a sequence, and their flows.
PartOfPass(log, edges, seq, m, k) == {i \in {seq[j] : j \in 1..m} : InWindow(log, edges, i, k)}
SumsOf(log, known, part) == [f \in FlowFields |-> SumOn(FieldOf(log, known, known, f), part)]

LEMMA SumsAdded ==
  ASSUME NEW log, NEW known, IsFiniteSet(known), \A i \in known : log[i] \in Events,
         NEW part \in SUBSET known, NEW i \in known, i \notin part
  PROVE  SumsOf(log, known, part \cup {i}) =
           [f \in FlowFields |-> SumsOf(log, known, part)[f] + Flow(log, i, known)[f]]
<1> SUFFICES ASSUME NEW f \in FlowFields
             PROVE  SumsOf(log, known, part \cup {i})[f] = SumsOf(log, known, part)[f] + Flow(log, i, known)[f]
  BY DEF SumsOf
<1> DEFINE g == FieldOf(log, known, known, f)
<1>1. \A j \in known : g[j] \in Int
  BY FlowIs DEF FieldOf
<1>2. g[i] = Flow(log, i, known)[f]
  BY DEF FieldOf
<1>3. IsFiniteSet(part)
  BY FS_Subset
<1> HIDE DEF g
<1>4. SumOn(g, part \cup {i}) = SumOn(g, part) + g[i]
  <2>1. \A j \in part \cup {i} : g[j] \in Int
    BY <1>1
  <2> QED
    BY <1>3, <2>1, SumOnAdded
<1> QED
  BY <1>2, <1>4 DEF SumsOf, g

\* An event in some window counts towards that one, if the cursor is not past it;
\* one before the first towards none.
LEMMA CountedInWindow ==
  ASSUME NEW edges, NEW K, Windows(edges, K), NEW known, NEW log, NEW i, log[i].occurred \in Int,
         log[i].occurred <= edges[K + 1],
         NEW x \in Passes(K), x.cursor = 1 \/ edges[x.cursor] < log[i].occurred
  PROVE  \/ log[i].occurred <= edges[1] /\ Counted(log, edges, known, x, i) = x
         \/ \E k \in 1..K : InWindow(log, edges, i, k) /\ Counted(log, edges, known, x, i) = CountedIn(log, known, x, i, k)
<1>1. x.cursor \in 1..K /\ K \in Nat /\ \A m \in 1..(K + 1) : edges[m] \in Int
  BY DEF Passes, Windows
<1>2. \/ /\ Counted(log, edges, known, x, i) = x
         /\ log[i].occurred <= edges[1] \/ edges[K + 1] < log[i].occurred
      \/ \E k \in x.cursor..K :
           /\ edges[1] < log[i].occurred /\ log[i].occurred <= edges[k + 1]
           /\ \A l \in x.cursor..K : l < k => edges[l + 1] < log[i].occurred
           /\ Counted(log, edges, known, x, i) = CountedIn(log, known, x, i, k)
  BY CountedIs
<1>3. ~(edges[K + 1] < log[i].occurred)
  <2>1. K + 1 \in 1..(K + 1)
    BY <1>1
  <2> QED
    BY <1>1, <2>1
<1>4. ASSUME NEW k \in x.cursor..K,
             edges[1] < log[i].occurred /\ log[i].occurred <= edges[k + 1],
             \A l \in x.cursor..K : l < k => edges[l + 1] < log[i].occurred
      PROVE  k \in 1..K /\ InWindow(log, edges, i, k)
  <2>1. k \in 1..K
    BY <1>1
  <2>2. CASE k = x.cursor
    BY <1>4, <2>1, <2>2 DEF InWindow
  <2>3. CASE k # x.cursor
    <3>1. k - 1 \in x.cursor..K /\ k - 1 < k /\ (k - 1) + 1 = k
      BY <1>1, <2>3
    <3>2. edges[k] < log[i].occurred
      BY <1>4, <3>1
    <3> QED
      BY <1>4, <2>1, <3>2 DEF InWindow
  <2> QED
    BY <2>2, <2>3
<1> QED
  BY <1>2, <1>3, <1>4

\* Where a pass is after the first m events of a sequence.
PassIsAt(log, edges, K, known, seq, m, x) ==
  /\ x \in Passes(K)
  /\ x.cursor = 1 \/ \E j \in 1..m : edges[x.cursor] < log[seq[j]].occurred
  /\ \A k \in 1..K : x.buckets[k] = SumsOf(log, known, PartOfPass(log, edges, seq, m, k))

LEMMA PassStep ==
  ASSUME NEW edges, NEW K, Windows(edges, K), NEW log, NEW known, IsFiniteSet(known),
         \A i \in known : log[i] \in Events /\ log[i].occurred <= edges[K + 1],
         NEW seq, NEW m \in Nat, \A j \in 1..(m + 1) : seq[j] \in known,
         \A j \in 1..m : seq[j] # seq[m + 1] /\ log[seq[j]].occurred <= log[seq[m + 1]].occurred,
         NEW x, PassIsAt(log, edges, K, known, seq, m, x)
  PROVE  PassIsAt(log, edges, K, known, seq, m + 1, Counted(log, edges, known, x, seq[m + 1]))
<1> DEFINE y == Counted(log, edges, known, x, seq[m + 1])
           Part(o, k) == PartOfPass(log, edges, seq, o, k)
           Sums(o, k) == SumsOf(log, known, Part(o, k))
<1>1. PICK i \in known : i = seq[m + 1]
  OBVIOUS
<1>2. /\ K \in Nat /\ (\A k \in 1..(K + 1) : edges[k] \in Int)
      /\ (\A k, l \in 1..(K + 1) : k < l => edges[k] <= edges[l])
      /\ (\A j \in known : log[j].occurred \in Int)
      /\ x \in Passes(K) /\ x.cursor \in 1..K /\ x.buckets \in [1..K -> Flows]
  BY DEF Windows, Events, Moments, PassIsAt, Passes
<1>3. x.cursor = 1 \/ edges[x.cursor] < log[i].occurred
  <2> SUFFICES ASSUME x.cursor # 1 PROVE edges[x.cursor] < log[i].occurred
    OBVIOUS
  <2>1. PICK j \in 1..m : edges[x.cursor] < log[seq[j]].occurred
    BY DEF PassIsAt
  <2>2. seq[j] \in known /\ log[seq[j]].occurred <= log[i].occurred
    BY <1>1
  <2>3. edges[x.cursor] \in Int /\ log[seq[j]].occurred \in Int /\ log[i].occurred \in Int
    BY <1>1, <1>2, <2>2
  <2> QED
    BY <2>1, <2>2, <2>3
<1>4. \/ log[i].occurred <= edges[1] /\ y = x
      \/ \E k \in 1..K : InWindow(log, edges, i, k) /\ y = CountedIn(log, known, x, i, k)
  BY <1>1, <1>2, <1>3, CountedInWindow
<1>5. y \in Passes(K)
  BY <1>1, <1>2, CountedType
<1>6. \A k \in 1..K : Part(m + 1, k) = IF InWindow(log, edges, i, k) THEN Part(m, k) \cup {i} ELSE Part(m, k)
  <2>1. {seq[j] : j \in 1..(m + 1)} = {seq[j] : j \in 1..m} \cup {i}
    <3>1. 1..(m + 1) = (1..m) \cup {m + 1}
      OBVIOUS
    <3> QED
      BY <1>1, <3>1
  <2> QED
    BY <2>1 DEF PartOfPass
<1>7. \A k \in 1..K : Part(m, k) \in SUBSET known /\ i \notin Part(m, k)
  BY <1>1 DEF PartOfPass
<1>8. \A k \in 1..K : x.buckets[k] = Sums(m, k)
  BY DEF PassIsAt
<1> HIDE DEF y, Part
<1>9. CASE log[i].occurred <= edges[1] /\ y = x
  <2>1. ASSUME NEW k \in 1..K PROVE ~InWindow(log, edges, i, k)
    <3>1. edges[1] <= edges[k] /\ edges[1] \in Int /\ edges[k] \in Int
      <4>1. 1 \in 1..(K + 1) /\ k \in 1..(K + 1) /\ (1 < k \/ 1 = k)
        BY <1>2
      <4> QED
        BY <1>2, <4>1
    <3> QED
      BY <1>2, <1>9, <3>1 DEF InWindow
  <2>2. \A k \in 1..K : y.buckets[k] = Sums(m + 1, k)
    BY <1>6, <1>8, <1>9, <2>1
  <2>3. y.cursor = 1 \/ \E j \in 1..(m + 1) : edges[y.cursor] < log[seq[j]].occurred
    <3>1. 1..m \subseteq 1..(m + 1)
      OBVIOUS
    <3>2. x.cursor = 1 \/ \E j \in 1..m : edges[x.cursor] < log[seq[j]].occurred
      BY DEF PassIsAt
    <3> QED
      BY <1>9, <3>1, <3>2
  <2> QED
    BY <1>5, <2>2, <2>3 DEF PassIsAt, y, Part
<1>10. ASSUME NEW k \in 1..K, InWindow(log, edges, i, k), y = CountedIn(log, known, x, i, k)
       PROVE  PassIsAt(log, edges, K, known, seq, m + 1, y)
  <2> DEFINE more == [f \in FlowFields |-> x.buckets[k][f] + Flow(log, i, known)[f]]
  <2>1. y.cursor = k /\ y.buckets = [x.buckets EXCEPT ![k] = more]
    BY <1>10 DEF CountedIn
  <2>2. \A l \in 1..K : InWindow(log, edges, i, l) <=> l = k
    BY <1>2, <1>10, WindowsApart
  <2>3. Sums(m + 1, k) = more
    <3>1. SumsOf(log, known, Part(m, k) \cup {i}) = [f \in FlowFields |-> Sums(m, k)[f] + Flow(log, i, known)[f]]
      BY <1>7, SumsAdded
    <3> QED
      BY <1>6, <1>8, <2>2, <3>1
  <2> HIDE DEF more
  <2>4. ASSUME NEW l \in 1..K PROVE y.buckets[l] = Sums(m + 1, l)
    <3>1. CASE l = k
      BY <1>2, <2>1, <2>3, <3>1
    <3>2. CASE l # k
      BY <1>2, <1>6, <1>8, <2>1, <2>2, <3>2
    <3> QED
      BY <3>1, <3>2
  <2>5. edges[y.cursor] < log[seq[m + 1]].occurred /\ m + 1 \in 1..(m + 1)
    BY <1>1, <1>10, <2>1 DEF InWindow
  <2> QED
    BY <1>5, <2>4, <2>5 DEF PassIsAt, Part
<1> QED
  BY <1>4, <1>9, <1>10 DEF y

LEMMA NoFlowsIs ==
  /\ NoFlows \in Flows
  /\ \A log, known : SumsOf(log, known, {}) = NoFlows
<1>1. NoFlows = [f \in FlowFields |-> 0]
  BY DEF NoFlows, FlowFields
<1>2. \A log, known : SumsOf(log, known, {}) = [f \in FlowFields |-> 0]
  BY SumOnNothing DEF SumsOf
<1> QED
  BY <1>1, <1>2 DEF Flows

\* The flows taken in one pass are those of the events of each window.
EventsOf(log, edges, K, k) == {i \in Through(log, edges[K + 1]) : InWindow(log, edges, i, k)}

LEMMA BucketsAre ==
  ASSUME NEW log \in Seq(Events), NEW edges, NEW K, Windows(edges, K), NEW k \in 1..K
  PROVE  /\ DOMAIN FlowsByBucket(log, edges) = 1..K
         /\ FlowsByBucket(log, edges)[k] = FlowsOf(log, EventsOf(log, edges, K, k), Through(log, edges[K + 1]))
<1> SUFFICES ASSUME NEW known, known = Through(log, edges[K + 1])
             PROVE  /\ DOMAIN FlowsByBucket(log, edges) = 1..K
                    /\ FlowsByBucket(log, edges)[k] = FlowsOf(log, {i \in known : InWindow(log, edges, i, k)}, known)
  BY DEF EventsOf
<1> DEFINE n == Cardinality(known)
           seq == EventsThrough(log, edges[K + 1])
           start == [cursor |-> 1, buckets |-> [l \in 1..K |-> NoFlows]]
           part == {i \in known : InWindow(log, edges, i, k)}
<1>1. /\ known \in SUBSET (DOMAIN log) /\ IsFiniteSet(known)
      /\ \A i \in known : log[i] \in Events /\ log[i].occurred <= edges[K + 1]
  BY ThroughIs DEF Through
<1>2. /\ n \in Nat /\ DOMAIN seq = 1..n
      /\ \A j \in 1..n : seq[j] \in known
      /\ \A j, l \in 1..n : j < l => seq[j] # seq[l] /\ log[seq[j]].occurred <= log[seq[l]].occurred
      /\ \A i \in known : \E j \in 1..n : seq[j] = i
  <2>1. InTurn(log, known, n, seq)
    BY EventsAreOrdered
  <2> HIDE DEF n, seq
  <2> QED
    BY <2>1 DEF InTurn
<1>3. K \in Nat /\ 1 \in 1..K /\ Len(edges) = K + 1 /\ Len(edges) - 1 = K
  BY DEF Windows
<1>4. FlowsByBucket(log, edges) =
        CountedAll(log, edges, known, start, seq).buckets
  <2>1. FlowsByBucket(log, edges) =
          CountedAll(log, edges, Through(log, edges[Len(edges)]),
                     [cursor |-> 1, buckets |-> [l \in 1..(Len(edges) - 1) |-> NoFlows]],
                     EventsThrough(log, edges[Len(edges)])).buckets
    BY DEF FlowsByBucket, CountedAll, FoldLeft, MapThenFoldSet
  <2> QED
    BY <1>3, <2>1
<1> HIDE DEF seq, n
<1>5. start \in Passes(K)
  BY <1>3, NoFlowsIs DEF Passes
<1>6. PassIsAt(log, edges, K, known, seq, 0, start)
  <2>1. \A l \in 1..K : PartOfPass(log, edges, seq, 0, l) = {}
    BY DEF PartOfPass
  <2> QED
    BY <1>5, <2>1, NoFlowsIs DEF PassIsAt
<1> HIDE DEF start
<1>7. PICK pass \in [0..n -> Passes(K)] :
        /\ pass[0] = start
        /\ \A j \in 1..n : pass[j] = Counted(log, edges, known, pass[j - 1], seq[j])
        /\ CountedAll(log, edges, known, start, seq) = pass[n]
  <2>1. \A j \in 1..n : \A x \in Passes(K) : Counted(log, edges, known, x, seq[j]) \in Passes(K)
    BY <1>1, <1>2, CountedType
  <2>2. StaysIn(log, edges, known, start, seq, n, Passes(K))
    BY <1>2, <1>5, <2>1 DEF StaysIn
  <2>3. PICK pass : IsPass(log, edges, known, start, seq, n, Passes(K), pass)
    BY <2>2, CountedPass
  <2> QED
    BY <2>3 DEF IsPass
<1> DEFINE Good == {m \in Nat : m <= n => PassIsAt(log, edges, K, known, seq, m, pass[m])}
<1>8. 0 \in Good
  BY <1>6, <1>7
<1>9. ASSUME NEW m \in Nat, m \in Good PROVE m + 1 \in Good
  <2> SUFFICES ASSUME m + 1 <= n PROVE PassIsAt(log, edges, K, known, seq, m + 1, pass[m + 1])
    OBVIOUS
  <2>1. m + 1 \in 1..n /\ (m + 1) - 1 = m /\ m <= n /\ 1..(m + 1) \subseteq 1..n
    BY <1>2
  <2>2. pass[m + 1] = Counted(log, edges, known, pass[m], seq[m + 1])
    BY <1>7, <2>1
  <2>3. PassIsAt(log, edges, K, known, seq, m, pass[m])
    BY <1>9, <2>1
  <2>4. /\ \A j \in 1..(m + 1) : seq[j] \in known
        /\ \A j \in 1..m : seq[j] # seq[m + 1] /\ log[seq[j]].occurred <= log[seq[m + 1]].occurred
    <3>1. \A j \in 1..m : j \in 1..n /\ j < m + 1
      BY <2>1
    <3> QED
      BY <1>2, <2>1, <3>1
  <2>5. PassIsAt(log, edges, K, known, seq, m + 1, Counted(log, edges, known, pass[m], seq[m + 1]))
    BY <1>1, <2>3, <2>4, PassStep
  <2> QED
    BY <2>2, <2>5
<1> HIDE DEF Good
<1>10. n \in Good
  <2>1. Nat \subseteq Good
    BY <1>8, <1>9, NaturalInduction
  <2> QED
    BY <1>2, <2>1
<1>11. PassIsAt(log, edges, K, known, seq, n, pass[n])
  <2>1. n <= n
    BY <1>2
  <2> QED
    BY <1>10, <2>1 DEF Good
<1>12. PartOfPass(log, edges, seq, n, k) = part
  <2>1. {seq[j] : j \in 1..n} = known
    BY <1>2
  <2> QED
    BY <2>1 DEF PartOfPass
<1>13. FlowsByBucket(log, edges)[k] = SumsOf(log, known, part) /\ DOMAIN FlowsByBucket(log, edges) = 1..K
  <2>1. pass[n].buckets[k] = SumsOf(log, known, part)
    BY <1>11, <1>12 DEF PassIsAt
  <2>2. pass[n].buckets \in [1..K -> Flows]
    BY <1>11 DEF PassIsAt, Passes
  <2> HIDE DEF part
  <2> QED
    BY <1>4, <1>7, <2>1, <2>2
<1>14. SumsOf(log, known, part) = FlowsOf(log, part, known)
  <2>1. FlowsOf(log, part, known) = [f \in FlowFields |-> SumOn(FieldOf(log, part, known, f), part)]
    BY FlowsOfIs
  <2>2. ASSUME NEW f \in FlowFields
        PROVE  SumOn(FieldOf(log, known, known, f), part) = SumOn(FieldOf(log, part, known, f), part)
    <3>1. part \in SUBSET known /\ IsFiniteSet(part)
      BY <1>1, FS_Subset
    <3>2. \A i \in part : FieldOf(log, known, known, f)[i] = FieldOf(log, part, known, f)[i]
                          /\ FieldOf(log, known, known, f)[i] \in Int
      BY <1>1, <3>1, FlowIs DEF FieldOf
    <3> HIDE DEF part
    <3> QED
      BY <3>1, <3>2, SumOnSame
  <2> HIDE DEF part
  <2> QED
    BY <2>1, <2>2 DEF SumsOf
<1> QED
  BY <1>13, <1>14

-----------------------------------------------------------------------------
(* Windows and replays *)

\* The cutoffs of snapshots open and close windows.
LEMMA BoundariesAre ==
  ASSUME now \in Nat, NEW edges \in Boundaries
  PROVE  Windows(edges, Len(edges) - 1)
<1>1. PICK S \in SUBSET (0..now) : edges = Ascending(S) /\ Cardinality(S) > 1
  BY DEF Boundaries
<1>2. IsFiniteSet(S) /\ S \in SUBSET Int
  <2>1. IsFiniteSet(0..now) /\ 0 \in Int /\ now \in Int
    BY FS_Interval
  <2>2. IsFiniteSet(S)
    BY <2>1, FS_Subset
  <2>3. S \in SUBSET Int
    BY <2>1
  <2> QED
    BY <2>2, <2>3
<1>3. PICK n : n = Cardinality(S)
  OBVIOUS
<1>4. /\ n \in Nat /\ n > 1 /\ DOMAIN edges = 1..n
      /\ \A k \in 1..n : edges[k] \in Int
      /\ \A k, l \in 1..n : k < l => edges[k] < edges[l]
  BY <1>1, <1>2, <1>3, AscendingIs
<1>5. edges = [k \in 1..n |-> edges[k]]
  BY <1>1, <1>3 DEF Ascending
<1>6. edges \in Seq(Int) /\ Len(edges) = n
  BY <1>4, <1>5
<1> QED
  BY <1>4, <1>6 DEF Windows

\* What an event is called does not depend on the cutoff it is asked at.
LEMMA TypeStands ==
  ASSUME WholeNumbers, Reversals, UndoneAfterwards, NEW early \in Int, NEW late \in Int, early <= late,
         NEW i \in Through(journal, early)
  PROVE  Flow(journal, i, Through(journal, late)) = Flow(journal, i, Through(journal, early))
<1>1. journal \in Seq(Events) /\ i \in DOMAIN journal /\ DOMAIN journal = 1..Len(journal)
      /\ \A j \in DOMAIN journal : journal[j].occurred \in Nat
  BY ThroughIs DEF Through, WholeNumbers
<1>2. ASSUME journal[i].type = "reversal"
      PROVE  journal[i].reverses \in Through(journal, late) /\ journal[i].reverses \in Through(journal, early)
  <2>1. journal[i].reverses \in DOMAIN journal /\ journal[journal[i].reverses].occurred <= journal[i].occurred
    BY <1>1, <1>2 DEF Reversals, UndoneAfterwards
  <2>2. journal[i].occurred <= early
    BY DEF Through
  <2>3. journal[i].occurred \in Nat /\ journal[journal[i].reverses].occurred \in Nat
    BY <1>1, <2>1
  <2> QED
    BY <2>1, <2>2, <2>3 DEF Through
<1>3. EffectiveType(journal, i, Through(journal, late)) = EffectiveType(journal, i, Through(journal, early))
  BY <1>2 DEF EffectiveType
<1> QED
  BY <1>3 DEF Flow

LEMMA BucketsMatch == WholeNumbers /\ Reversals /\ UndoneAfterwards => BucketsMatchReplays
<1> SUFFICES ASSUME WholeNumbers, Reversals, UndoneAfterwards, NEW edges \in Boundaries, NEW k \in 1..(Len(edges) - 1)
             PROVE  FlowsByBucket(journal, edges)[k] = ReplayFlows(journal, edges[k] + 1, edges[k + 1])
  BY DEF BucketsMatchReplays
<1>1. journal \in Seq(Events) /\ now \in Nat
  BY DEF WholeNumbers, Moments
<1>2. PICK K : K = Len(edges) - 1
  OBVIOUS
<1>3. Windows(edges, K) /\ k \in 1..K
  BY <1>1, <1>2, BoundariesAre
<1>4. /\ K \in Nat /\ edges[k] \in Int /\ edges[k + 1] \in Int /\ edges[K + 1] \in Int
      /\ edges[k + 1] <= edges[K + 1]
  <2>1. K \in Nat /\ k \in 1..(K + 1) /\ k + 1 \in 1..(K + 1) /\ K + 1 \in 1..(K + 1) /\ (k + 1 < K + 1 \/ k + 1 = K + 1)
    BY <1>3 DEF Windows
  <2>2. \A l \in 1..(K + 1) : edges[l] \in Int
    BY <1>3 DEF Windows
  <2>3. k + 1 < K + 1 => edges[k + 1] <= edges[K + 1]
    BY <1>3, <2>1 DEF Windows
  <2> QED
    BY <2>1, <2>2, <2>3
<1> DEFINE late == Through(journal, edges[K + 1])
           early == Through(journal, edges[k + 1])
           part == {i \in late : InWindow(journal, edges, i, k)}
<1>5. FlowsByBucket(journal, edges)[k] = FlowsOf(journal, part, late)
  <2>1. FlowsByBucket(journal, edges)[k] = FlowsOf(journal, EventsOf(journal, edges, K, k), Through(journal, edges[K + 1]))
    BY <1>1, <1>3, BucketsAre
  <2> QED
    BY <2>1 DEF EventsOf
<1>6. part = {i \in early : journal[i].occurred >= edges[k] + 1} /\ part \in SUBSET early
  <2>1. \A i \in DOMAIN journal : journal[i].occurred \in Nat
    BY <1>1, ThroughIs
  <2>2. part = {i \in early : journal[i].occurred >= edges[k] + 1}
    BY <1>4, <2>1 DEF Through, InWindow
  <2> QED
    BY <2>2
<1>7. FlowsOf(journal, part, late) = FlowsOf(journal, part, early)
  <2>1. \A i \in part : Flow(journal, i, late) = Flow(journal, i, early)
    BY <1>4, <1>6, TypeStands
  <2> HIDE DEF part, late, early
  <2>2. \A f \in FlowFields : FieldOf(journal, part, late, f) = FieldOf(journal, part, early, f)
    BY <2>1 DEF FieldOf
  <2> QED
    BY <2>2, FlowsOfIs
<1>8. FlowsOf(journal, part, early) = ReplayFlows(journal, edges[k] + 1, edges[k + 1])
  BY <1>6 DEF ReplayFlows
<1> QED
  BY <1>5, <1>7, <1>8

\* Flows mean the same however they are asked for, as long as nothing is reversed
\* before it occurs: the net capital of a replay is what the events that stand
\* brought in and took out, and the one pass over the windows between snapshots
\* (flows_by_bucket) finds in each what a replay of that window finds.
THEOREM FlowsAlwaysAgree == Spec => []FlowsAgree
<1>1. Spec => []CapitalCountsWhatStands
  BY CapitalAlwaysStands
<1>2. WholeNumbers /\ Reversals /\ CapitalCountsWhatStands => FlowsAgree
  BY BucketsMatch DEF FlowsAgree
<1> QED
  BY <1>1, <1>2, ReversalsAlways, PTL
=============================================================================
