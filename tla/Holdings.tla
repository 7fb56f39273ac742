------------------------------ MODULE Holdings ------------------------------
(***************************************************************************)
(* One investment book and one security: the position with its average     *)
(* cost and realized profit, the cash, corporate actions on the security,  *)
(* and the journal that replays and flow totals are computed from.         *)
(*                                                                         *)
(* Requests are identified and retried as in Ledger and are not told apart *)
(* here: a transaction and a reversal post in one step.  An application of *)
(* a corporate action is two steps, since its legs and the average cost it *)
(* writes come from a preview that is read before the session owns the     *)
(* write lock.                                                             *)
(***************************************************************************)
EXTENDS Replay, Sums

CONSTANTS
  Orders,         \* the transactions clients may record
  Actions,        \* corporate actions on the security
  Corrected,      \* the types of the events clients reverse
  Workers,        \* request-serving threads
  NoAction,
  MaxDelay,       \* how far back a transaction may be dated
  MaxEvents,      \* bound on the length of the journal
  Horizon         \* bound on time

ActionKinds == {"cash_dividend", "interest", "split", "reverse_split", "return_of_capital",
                "stock_dividend", "symbol_change", "merger", "spinoff"}

\* The ratio is a split's; `per_share' and `withholding' are the cash_amount and
\* the withholding_tax of income and of a return of capital.
ActionSet == [kind: ActionKinds, ratio: [num: Nat \ {0}, den: Nat \ {0}], per_share: Nat,
              withholding: Nat, effective: 1..Horizon, cancelled: BOOLEAN]

\* Recorded with an amount per share, which must be positive.
PaidInCash == {"cash_dividend", "interest", "return_of_capital"}

ASSUME HoldingsAssumption ==
  /\ \E t \in Tickers : Tickers = {t}
  /\ Orders \subseteq Transactions
  /\ Actions \subseteq ActionSet
  /\ \A a \in Actions : a.kind \in PaidInCash => a.per_share > 0
  /\ NoAction \notin Actions
  /\ MaxDelay \in Nat /\ MaxEvents \in Nat /\ Horizon \in Nat \ {0}

VARIABLES
  now,            \* the server's clock
  journal,        \* the book's events, in the order they were posted
  position,       \* the row of the positions table
  cash,           \* the row of the cash_balances table
  announced,      \* the recorded corporate actions
  applications,   \* the rows of corporate_action_applications, oldest first
  preview         \* preview[w]: what w read and computed before it posts

vars == <<now, journal, position, cash, announced, applications, preview>>

Moments == 1..Horizon
Events ==
  [type: EventTypes, legs: Legs, income: Nat, costs: Nat, occurred: Moments,
   reverses: Nat, reversed: BOOLEAN]
FractionSet == [num: Int, den: Nat \ {0}]

NoPreview == [action |-> NoAction]
Previews == [action: Actions, legs: Legs, income: Nat, costs: Nat, quantity: Nat, average: FractionSet]

TypeOK ==
  /\ now \in Moments
  /\ journal \in Seq(Events)
  /\ position \in [quantity: Nat, average: FractionSet, realized: FractionSet]
  /\ cash \in Nat
  /\ announced \subseteq Actions
  /\ applications \in Seq([action: Actions, quantity: Nat, average: FractionSet])
  /\ preview \in [Workers -> Previews \cup {NoPreview}]

Init ==
  /\ now = 1
  /\ journal = << >>
  /\ position = NoPosition
  /\ cash = 0
  /\ announced = {}
  /\ applications = << >>
  /\ preview = [w \in Workers |-> NoPreview]

-----------------------------------------------------------------------------
(* Posting *)

\* Mutant: only a sale is checked against what is there.
AffordableSale(legs) == legs.quantity < 0 => -legs.quantity <= position.quantity

\* _apply_projections accepts the legs.
Affordable(legs) ==
  /\ legs.quantity < 0 => -legs.quantity <= position.quantity
  /\ legs.cash # 0 => cash + legs.cash >= 0

Projected(legs) ==
  IF legs.ticker = NoTicker THEN position
  ELSE ApplyPosition(position, legs.quantity, legs.security)

NewEvent(type, legs, income, costs, occurred, reverses) ==
  [type |-> type, legs |-> legs, income |-> income, costs |-> costs, occurred |-> occurred,
   reverses |-> reverses, reversed |-> FALSE]

Free(w) == preview[w] = NoPreview

-----------------------------------------------------------------------------
(* Transactions and their reversals *)

IncomeOf(tx) == IF tx.type \in Incomes THEN tx.amount ELSE 0
CostsOf(tx)  == IF tx.type \in Expenses THEN tx.amount ELSE tx.costs

\* A time in the future is refused; one in the past is not.
RecordTransaction(w, tx, occurred) ==
  /\ Free(w) /\ Len(journal) < MaxEvents
  /\ Buildable(tx) /\ Balanced(BuildLegs(tx)) /\ Affordable(BuildLegs(tx))
  /\ occurred \in {t \in Moments : now - MaxDelay <= t /\ t <= now}
  /\ journal' = Append(journal,
       NewEvent(tx.type, BuildLegs(tx), IncomeOf(tx), CostsOf(tx), occurred, 0))
  /\ position' = Projected(BuildLegs(tx))
  /\ cash' = cash + BuildLegs(tx).cash
  /\ UNCHANGED <<now, announced, applications, preview>>

RefuseTransaction(w, tx) ==
  /\ Free(w)
  /\ Buildable(tx) /\ Balanced(BuildLegs(tx)) => ~Affordable(BuildLegs(tx))
  /\ UNCHANGED vars

\* The reversal occurs now; the income and costs of its legs keep their magnitude.
ReverseTransaction(w, i) ==
  /\ Free(w) /\ Len(journal) < MaxEvents
  /\ journal[i].type \in Corrected \ {"reversal"} /\ ~journal[i].reversed
  /\ LET legs == Invert(journal[i].legs)
     IN  /\ Affordable(legs)
         /\ journal' = Append([journal EXCEPT ![i].reversed = TRUE],
              NewEvent("reversal", legs, journal[i].income, journal[i].costs, now, i))
         /\ position' = Projected(legs)
         /\ cash' = cash + legs.cash
  /\ UNCHANGED <<now, announced, applications, preview>>

-----------------------------------------------------------------------------
(* Corporate actions *)

\* Idempotent: recording an action again changes nothing.
RecordCorporateAction(a) ==
  /\ announced' = announced \cup {a}
  /\ UNCHANGED <<now, journal, position, cash, applications, preview>>

Security(quantity, amount, credit) ==
  [ticker |-> CHOOSE t \in Tickers : TRUE, quantity |-> quantity, security |-> amount,
   cash |-> credit, counter |-> 0]

Previewed(a, legs, income, costs, quantity, average) ==
  [action |-> a, legs |-> legs, income |-> income, costs |-> costs,
   quantity |-> quantity, average |-> average]

\* A fraction of a share is dropped.
PreviewSplit(a) ==
  LET resulting == (position.quantity * a.ratio.num) \div a.ratio.den
  IN  Previewed(a, Security(resulting - position.quantity, 0, 0), 0, 0,
                resulting, UnitCost(Basis(position), resulting))

PreviewCashIncome(a) ==
  LET gross == a.per_share * position.quantity
  IN  Previewed(a, CashPair(gross - a.withholding), gross, a.withholding,
                position.quantity, position.average)

PreviewReturnOfCapital(a) ==
  LET paid == a.per_share * position.quantity
  IN  Previewed(a, Security(0, -paid, paid), 0, 0,
                position.quantity, Repaid(position, -paid).average)

EventTypeOf(a) ==
  CASE a.kind = "cash_dividend" -> "dividend" [] a.kind = "reverse_split" -> "split"
    [] OTHER -> a.kind

Determined == {"split", "reverse_split", "cash_dividend", "interest", "return_of_capital"}

\* Neither cancelled, nor applied, nor of unresolved basis, and there is a holding.
Applicable(a) ==
  /\ a \in announced /\ ~a.cancelled /\ a.kind \in Determined
  /\ \A k \in DOMAIN applications : applications[k].action # a
  /\ position.quantity > 0

\* preview_application, as apply_corporate_action calls it.
PreviewApplication(w, a) ==
  /\ Free(w) /\ Applicable(a)
  /\ preview' = [preview EXCEPT ![w] =
       CASE a.kind \in {"split", "reverse_split"}    -> PreviewSplit(a)
         [] a.kind \in {"cash_dividend", "interest"} -> PreviewCashIncome(a)
         [] a.kind = "return_of_capital"             -> PreviewReturnOfCapital(a)]
  /\ UNCHANGED <<now, journal, position, cash, announced, applications>>

\* Mutant: there is no unique key on the action and the book.
AlwaysFirst(a) == TRUE

\* The INSERT of the application passes its unique key.
FirstApplication(a) == \A k \in DOMAIN applications : applications[k].action # a

\* Mutant: the position becomes the one previewed.
ProjectedAsPreviewed(p, legs) ==
  [Projected(legs) EXCEPT !.quantity = p.quantity, !.average = p.average]

\* The generic projection, then the average cost of the preview
\* (_override_position_basis).
ProjectedAndOverridden(p, legs) == [Projected(legs) EXCEPT !.average = p.average]

\* The event of the legs previewed, dated when the action takes effect.
ApplyCorporateAction(w) ==
  /\ ~Free(w) /\ Len(journal) < MaxEvents
  /\ LET p == preview[w]
     IN  /\ Affordable(p.legs) /\ FirstApplication(p.action)
         /\ journal' = Append(journal, NewEvent(EventTypeOf(p.action), p.legs, p.income, p.costs,
                                                p.action.effective, 0))
         /\ position' = ProjectedAndOverridden(p, p.legs)
         /\ cash' = cash + p.legs.cash
         /\ applications' = Append(applications,
              [action |-> p.action, quantity |-> p.quantity, average |-> p.average])
  /\ preview' = [preview EXCEPT ![w] = NoPreview]
  /\ UNCHANGED <<now, announced>>

\* A refused key or balance rolls back; so does a lock not granted in time.
AbandonApplication(w) ==
  /\ ~Free(w)
  /\ preview' = [preview EXCEPT ![w] = NoPreview]
  /\ UNCHANGED <<now, journal, position, cash, announced, applications>>

Tick ==
  /\ now < Horizon
  /\ now' = now + 1
  /\ UNCHANGED <<journal, position, cash, announced, applications, preview>>

Next ==
  \/ \E w \in Workers :
       \/ \E tx \in Orders : \E occurred \in Moments : RecordTransaction(w, tx, occurred)
       \/ \E tx \in Orders : RefuseTransaction(w, tx)
       \/ \E i \in DOMAIN journal : ReverseTransaction(w, i)
       \/ \E a \in Actions : PreviewApplication(w, a)
       \/ ApplyCorporateAction(w)
       \/ AbandonApplication(w)
  \/ \E a \in Actions : RecordCorporateAction(a)
  \/ Tick

Spec == Init /\ [][Next]_vars

-----------------------------------------------------------------------------
(* Properties *)

SumOver(events, Value(_)) == MapThenSumSet(LAMBDA i : Value(journal[i]), events)

\* No money is lost in the averages: what is left of the cost, less the profit
\* taken, is what the security legs of the journal add up to, through partial
\* sales, sales of everything, splits and reversals.  Left out by the requests:
\* reverse splits, which book a loss, returns of capital beyond the basis and
\* reversals of a return of capital, which give back no basis.
CostIsConserved ==
  Minus(Basis(position), position.realized) =
    Whole(SumOver(DOMAIN journal, LAMBDA e : e.legs.security))

\* The journal is enough: folding all of it gives the live position, its average
\* cost and realized profit included, and the live cash.
ReplayAgrees ==
  ReplayState(journal, Horizon) = [cash |-> cash, position |-> position]

Quantities == [i \in DOMAIN journal |-> journal[i].legs.quantity]
Payments   == [i \in DOMAIN journal |-> journal[i].legs.cash]

\* Shares and cash are the journal's sums, also when sessions race and an
\* application changes a position that is not the one it previewed.
SharesAndCashAreSums ==
  /\ position.quantity = SumTo(Quantities, Len(journal))
  /\ cash = SumTo(Payments, Len(journal))

PostedInOrder == \A i, j \in DOMAIN journal : i < j => journal[i].occurred <= journal[j].occurred

\* No cutoff shows a past in which more was sold or spent than was there, as long
\* as events are posted in the order in which they occur.
HistoryIsCovered ==
  PostedInOrder =>
    \A cutoff \in Moments :
      LET past == ReplayState(journal, cutoff)
      IN  past.position.quantity >= 0 /\ past.cash >= 0

\* The journal alone tells what the book holds, today and at any date before: the
\* projections made event by event as they were posted add nothing to it.
JournalIsEnough == ReplayAgrees /\ HistoryIsCovered

\* An action changes a book at most once, also when two sessions have both
\* previewed it.
AppliedAtMostOnce ==
  \A j, k \in DOMAIN applications :
     applications[j].action = applications[k].action => j = k

\* Sessions that race to apply actions, and trades posted in between, neither make
\* shares or cash nor lose any, and no action reaches the book twice.
RacesKeepTheBook == SharesAndCashAreSums /\ AppliedAtMostOnce

\* Applying an action leaves the holding that its preview showed, which is the one
\* the application records.
AppliedAsPreviewed ==
  [][Len(applications') > Len(applications) =>
       LET shown == applications'[Len(applications')]
       IN  position'.quantity = shown.quantity /\ position'.average = shown.average]_vars

\* The events a cutoff shows as standing: not reversed by then.
Standing(cutoff, types) ==
  {i \in Through(journal, cutoff) :
     /\ journal[i].type \in types
     /\ \A j \in Through(journal, cutoff) : journal[j].reverses # i}

\* The investor's capital at any cutoff is what the deposits and withdrawals that
\* still stand moved: a reversal cancels within the category of what it undoes.
CapitalCountsWhatStands ==
  \A cutoff \in Moments :
     NetExternal(ReplayFlows(journal, 0, cutoff)) =
       SumOver(Standing(cutoff, ExternalEvents), LAMBDA e : e.legs.cash)

\* A set of numbers, from the least on.
Ascending(S) == [k \in 1..Cardinality(S) |-> CHOOSE x \in S : Cardinality({y \in S : y < x}) = k - 1]

\* The cutoffs of snapshots, which are never in the future.
Boundaries == {Ascending(S) : S \in {T \in SUBSET (0..now) : Cardinality(T) > 1}}

\* The docstring of flows_by_bucket: the flows taken in one pass are those of a
\* replay of each window.
BucketsMatchReplays ==
  \A edges \in Boundaries : \A k \in 1..(Len(edges) - 1) :
     FlowsByBucket(journal, edges)[k] = ReplayFlows(journal, edges[k] + 1, edges[k + 1])

\* Nothing is reversed before it occurs: not so of an action that takes effect
\* later and is undone now, of which a replay in between does not know.
UndoneAfterwards ==
  \A j \in DOMAIN journal : journal[j].type = "reversal" =>
     journal[journal[j].reverses].occurred <= journal[j].occurred

\* Flows mean the same however they are asked for: one pass over many windows, a
\* replay of each, or the events that stand at the cutoff.
FlowsAgree == CapitalCountsWhatStands /\ (UndoneAfterwards => BucketsMatchReplays)
=============================================================================
