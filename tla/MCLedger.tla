------------------------------ MODULE MCLedger ------------------------------
(***************************************************************************)
(* Instances of Ledger for TLC.  A behaviour begins with a mix: the books  *)
(* clients may open and the requests they may send, each any number of     *)
(* times, by any worker.  The length of a journal is bounded by the number *)
(* of request ids.                                                         *)
(***************************************************************************)
EXTENDS Ledger, FiniteSets, TLC

CONSTANTS Mixes, inv, bank, loan, acme, r1, r2, r3, r4, r5, r6, r7, w1, w2, w3

MCKind == [b \in Books |-> IF b = bank THEN "cash" ELSE
                           IF b = loan THEN "liability" ELSE "investment"]

\* The loan and the security are in another currency than the books that pay the loan.
TwoCurrencies == [x \in Books \cup Tickers |-> IF x \in {loan, acme} THEN "TWD" ELSE "USD"]

Money(type, amount, tax) ==
  [type |-> type, ticker |-> NoTicker, quantity |-> 0, unit_price |-> 0,
   amount |-> amount, costs |-> tax, settlement |-> NoAmount]
Trade(type, quantity, price, costs) ==
  [type |-> type, ticker |-> acme, quantity |-> quantity, unit_price |-> price,
   amount |-> 0, costs |-> costs, settlement |-> NoAmount]

RecordReq(b, rid, tx) == [op |-> "record", book |-> b, rid |-> rid, tx |-> tx]
ReverseReq(b, rid, i) == [op |-> "reverse", book |-> b, rid |-> rid, target |-> i]
TransferReq(b, rid, c, amount, rate) ==
  [op |-> "transfer", book |-> b, rid |-> rid, to |-> c, amount |-> amount, rate |-> rate]
UnwindReq(b, rid, i) == [op |-> "unwind", book |-> b, rid |-> rid, target |-> i]

\* One investment book: competing purchases and sales, a request id used for
\* two different deposits, a settlement that does not balance, a reversal.
PostingRequests ==
  { RecordReq(inv, r1, Money("deposit", 6, 0)),
    RecordReq(inv, r1, Money("deposit", 4, 0)),
    RecordReq(inv, r2, Trade("buy", 2, 2, 1)),
    RecordReq(inv, r3, Trade("sell", 2, 2, 1)),
    RecordReq(inv, r4, Trade("sell", 1, 3, 0)),
    RecordReq(inv, r4, [Trade("sell", 1, 3, 0) EXCEPT !.settlement = 2]),
    RecordReq(inv, r6, Money("withdrawal", 1, 0)),
    ReverseReq(inv, r5, 2) }

\* Transfers from an account to a loan in another currency and to another book,
\* their unwinding, and what spends the money in between.
TransferRequests ==
  { RecordReq(bank, r1, Money("deposit", 3, 0)),
    TransferReq(bank, r2, loan, 1, 3),
    TransferReq(bank, r2, inv, 2, NoAmount),
    TransferReq(bank, r3, inv, 1, NoAmount),
    RecordReq(inv, r3, Money("withdrawal", 2, 0)),
    ReverseReq(bank, r4, 2),
    UnwindReq(bank, r5, 2) }

\* A loan paid out and paid back, the refused ways of doing so, and the money
\* events of a cash account and a loan.
LoanRequests ==
  { RecordReq(loan, r6, Trade("buy", 1, 1, 0)),
    RecordReq(loan, r6, Money("interest", 1, 3)),
    RecordReq(bank, r6, Money("transfer_in", 3, 0)),
    RecordReq(bank, r6, Money("tax", 2, 0)),
    RecordReq(bank, r7, Money("dividend", 2, 1)),
    RecordReq(bank, r7, Money("deposit", 0, 0)),
    TransferReq(loan, r1, bank, 6, 1),
    TransferReq(loan, r2, bank, 6, NoAmount),
    TransferReq(bank, r2, bank, 6, NoAmount),
    TransferReq(bank, r3, loan, 2, 2),
    UnwindReq(loan, r4, 1),
    UnwindReq(loan, r5, 1) }

\* One event and the reversals of it.
ReversalRequests ==
  { RecordReq(inv, r1, Money("deposit", 4, 0)),
    RecordReq(inv, r2, Money("withdrawal", 1, 0)),
    ReverseReq(inv, r3, 2),
    ReverseReq(inv, r4, 2) }

AllRequests == PostingRequests \cup TransferRequests \cup LoanRequests \cup ReversalRequests

MixOf(books_used, requests, threads) == [books |-> books_used, requests |-> requests, threads |-> threads]
MixNamed(name) ==
  CASE name = "postings"  -> MixOf({inv}, PostingRequests, 3)
    [] name = "transfers" -> MixOf({bank, inv, loan}, TransferRequests, 2)
    [] name = "loan"      -> MixOf({bank, loan}, LoanRequests, 2)
    [] name = "reversals" -> MixOf({inv}, ReversalRequests, 2)

VARIABLE mix
mcVars == <<vars, mix>>

\* A worker of the mix that may begin a request.
Serves(w) ==
  Cardinality({v \in Workers \ {w} : session[v].state # "idle"}) < MixNamed(mix).threads

MCInit == Init /\ mix \in Mixes

MCNext ==
  /\ \/ \E b \in MixNamed(mix).books : CreateBook(b) \/ DeleteBook(b)
     \/ \E w \in Workers :
          \/ /\ Serves(w)
             /\ \E r \in MixNamed(mix).requests :
                  \/ RecordTransaction(w, r) \/ ReverseTransaction(w, r)
                  \/ TransferCash(w, r) \/ UnwindTransfer(w, r)
          \/ Finish(w) \/ LoseRequest(w)
  /\ UNCHANGED mix

MCSpec == MCInit /\ [][MCNext]_mcVars

WorkerSymmetry == Permutations(Workers)
=============================================================================
