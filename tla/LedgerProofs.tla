---------------------------- MODULE LedgerProofs ----------------------------
(***************************************************************************)
(* Proofs about Ledger, for every set of books, tickers, workers and       *)
(* requests.                                                               *)
(*                                                                         *)
(* Whatever a step does to a session, it does one of four things to the    *)
(* store: nothing, open a book, delete one, or post balanced events that   *)
(* were insertable and affordable (StoreStep).  The theorems about the     *)
(* store are proved once per case of that lemma.                           *)
(*                                                                         *)
(* Ledger implements AccountBook, book by book: the refinement mapping     *)
(* forgets sessions, marks and transfers and keeps of an event its request *)
(* id and what it moved.                                                   *)
(*                                                                         *)
(* Sessions decide on what they read and post later.  What requests are    *)
(* told, and what their events have to do with each other, rests on what   *)
(* cannot change in between: a journal is only appended to, a deleted book *)
(* stays deleted, and an event is fit for the request it names.            *)
(***************************************************************************)
EXTENDS Ledger, Induction, SequenceTheorems

-----------------------------------------------------------------------------
(* Legs *)

\* The legs built for a request are legs.
LEMMA CashPairType == ASSUME NEW delta \in Int PROVE CashPair(delta) \in Legs
BY DEF CashPair, Legs

LEMMA TradeLegsType ==
  ASSUME NEW tx \in Transactions
  PROVE  TradeLegs(tx) \in Legs
<1> DEFINE consideration == tx.quantity * tx.unit_price
<1>1. consideration \in Int /\ tx.costs \in Int /\ tx.quantity \in Int
      /\ tx.ticker \in Tickers \cup {NoTicker} /\ tx.settlement \in Int \cup {NoAmount}
  BY DEF Transactions
<1> HIDE DEF consideration
<1> DEFINE security == IF tx.type = "buy" THEN consideration + tx.costs
                                          ELSE tx.costs - consideration
<1>2. security \in Int
  BY <1>1
<1>3. Settled(tx, -security) \in Int
  <2> HIDE DEF security
  <2> QED BY <1>1, <1>2 DEF Settled
<1>4. TradeLegs(tx) = [ticker |-> tx.ticker,
                       quantity |-> IF tx.type = "buy" THEN tx.quantity ELSE -tx.quantity,
                       security |-> security, cash |-> Settled(tx, -security), counter |-> 0]
  BY DEF TradeLegs, consideration
<1> HIDE DEF security
<1> QED BY <1>1, <1>2, <1>3, <1>4 DEF Legs

LEMMA BuildLegsType ==
  ASSUME NEW tx \in Transactions
  PROVE  BuildLegs(tx) \in Legs
<1>1. tx.amount \in Int /\ tx.costs \in Int
  BY DEF Transactions
<1>2. CASE tx.type \in Trades
  BY <1>2, TradeLegsType DEF BuildLegs, Trades, Inflows, Incomes
<1>3. CASE tx.type \in Inflows
  BY <1>1, <1>3, CashPairType DEF BuildLegs, Trades, Inflows, Incomes
<1>4. CASE tx.type \in Incomes
  <2>1. tx.amount - tx.costs \in Int
    BY <1>1
  <2> QED BY <1>4, <2>1, CashPairType DEF BuildLegs, Trades, Inflows, Incomes
<1>5. CASE tx.type \notin Trades \cup Inflows \cup Incomes
  <2>1. -tx.amount \in Int
    BY <1>1
  <2> QED BY <1>5, <2>1, CashPairType DEF BuildLegs
<1> QED BY <1>2, <1>3, <1>4, <1>5

LEMMA InvertType == ASSUME NEW legs \in Legs PROVE Invert(legs) \in Legs
BY DEF Invert, Legs

-----------------------------------------------------------------------------
(* What requests and events are made of *)

\* A request has a book and a request id, and the fields of its operation.
LEMMA RequestFields ==
  ASSUME NEW r \in Requests
  PROVE  /\ r.book \in Books /\ r.rid \in RequestIds
         /\ r.op = "record" => r.tx \in Transactions
         /\ r.op = "reverse" => r.target \in Nat \ {0}
         /\ r.op = "transfer" => r.to \in Books /\ r.amount \in Int
                                   /\ r.rate \in Int \cup {NoAmount}
         /\ r.op = "unwind" => r.target \in Nat \ {0}
BY LedgerAssumption DEF RequestSet

-----------------------------------------------------------------------------
(* What a step does *)

\* Session w is now serving r, or has served it.
Serves(w, r) ==
  \E state \in SessionStates \ {"idle"}, e \in EventIds \cup {NoEvent} : Become(w, state, r, e)

\* Events posted for one request, on some books.
Postings(r) ==
  UNION {{posting \in [D -> Events] : \A b \in D : posting[b].request = r} : D \in SUBSET Books}

\* The events were insertable and affordable, and are posted.
Posts(r, posting) ==
  /\ \A b \in DOMAIN posting : Insertable(b, r.rid) /\ Affordable(b, posting[b].legs)
  /\ Post(posting)

\* The events a request that went through its checks is turned into, on the store
\* as the posting transaction finds it.
PostingOf(r, posting) ==
  \/ /\ r.op = "record"
     /\ posting = [b \in {r.book} |-> Event(r, BuildLegs(r.tx), 0, NoEvent, "none")]
  \/ /\ r.op = "reverse" /\ Exists(r.book, r.target)
     /\ posting = [b \in {r.book} |-> Event(r, Invert(journal[b][r.target].legs),
                                            r.target, NoEvent, "none")]
  \/ /\ r.op = "transfer"
     /\ LET transfer == <<r.book, NextPlace(r.book)>>
        IN  posting = [b \in {r.book, r.to} |->
                         IF b = r.book THEN Event(r, CashPair(-r.amount), 0, transfer, "out")
                                       ELSE Event(r, CashPair(Received(r)), 0, transfer, "in")]
  \/ /\ r.op = "unwind" /\ IsTransfer(r.book, r.target)
     /\ LET in == InHalf(r.book, r.target)
            half(b) == IF b = r.book THEN r.target ELSE in[2]
        IN  posting = [b \in {r.book, in[1]} |->
                         Event(r, Invert(journal[b][half(b)].legs), half(b),
                               <<r.book, r.target>>, journal[b][half(b)].role)]

\* Worker w ends the request it was cleared to post: its events are posted, or
\* none of them is.
Ends(w) ==
  /\ session[w].state = "cleared" /\ session[w].request \in Requests
  /\ LET r == session[w].request
     IN  \/ Refuse(w, r)
         \/ \E posting \in Postings(r) : PostingOf(r, posting) /\ PostOrRollBack(w, r, posting)

StoreStepFor(r) == UNCHANGED store \/ \E posting \in Postings(r) : Posts(r, posting)

\* What session a request runs on is all the reading phase changes.
LEMMA ReadingStep ==
  ASSUME TypeOK, NEW w \in Workers, NEW r \in Requests,
         RecordTransaction(w, r) \/ ReverseTransaction(w, r) \/ TransferCash(w, r)
           \/ UnwindTransfer(w, r)
  PROVE  UNCHANGED store /\ Serves(w, r)
<1>1. \A i \in Used(r.book, r.rid) : <<r.book, i>> \in EventIds
  BY RequestFields DEF Used, TypeOK, EventIds
<1>2. ASSUME NEW i \in Used(r.book, r.rid), Answer(w, r, <<r.book, i>>)
      PROVE  UNCHANGED store /\ Serves(w, r)
  BY <1>1, <1>2 DEF Answer, Serves, SessionStates
<1>3. Refuse(w, r) \/ Locate(w, r) \/ Clear(w, r) => UNCHANGED store /\ Serves(w, r)
  BY DEF Refuse, Locate, Clear, Serves, SessionStates
<1>4. CASE RecordTransaction(w, r)
  BY <1>2, <1>3, <1>4 DEF RecordTransaction
<1>5. CASE ReverseTransaction(w, r)
  BY <1>3, <1>5 DEF ReverseTransaction
<1>6. CASE TransferCash(w, r)
  BY <1>2, <1>3, <1>6 DEF TransferCash
<1>7. CASE UnwindTransfer(w, r)
  BY <1>3, <1>7 DEF UnwindTransfer
<1> QED BY <1>4, <1>5, <1>6, <1>7

\* A session that is past its first check serves a request.
LEMMA ServingType ==
  ASSUME TypeOK, NEW w \in Workers, NEW state, NEW op, state # "idle", Serving(w, state, op)
  PROVE  session[w].request \in Requests /\ session[w].request.op = op
BY DEF TypeOK, Serving

\* The second check changes nothing but the session either.
LEMMA CheckingStep ==
  ASSUME TypeOK, NEW w \in Workers, CheckReversal(w) \/ CheckUnwind(w)
  PROVE  \E r \in Requests : UNCHANGED store /\ Serves(w, r)
<1> DEFINE r == session[w].request
<1>1. r \in Requests /\ (CheckReversal(w) \/ r.op = "unwind")
  BY ServingType DEF CheckReversal, CheckUnwind
<1>2. \A i \in Used(r.book, r.rid) : <<r.book, i>> \in EventIds
  BY <1>1, RequestFields DEF Used, TypeOK, EventIds
<1>3. r.op = "unwind" => <<r.book, r.target>> \in EventIds
  BY <1>1, RequestFields DEF EventIds
<1>4. ASSUME NEW e \in EventIds, Answer(w, r, e)
      PROVE  UNCHANGED store /\ Serves(w, r)
  BY <1>4 DEF Answer, Serves, SessionStates
<1>5. Refuse(w, r) \/ Clear(w, r) => UNCHANGED store /\ Serves(w, r)
  BY DEF Refuse, Clear, Serves, SessionStates
<1>6. CASE CheckReversal(w)
  BY <1>1, <1>2, <1>4, <1>5, <1>6 DEF CheckReversal
<1>7. CASE CheckUnwind(w) /\ r.op = "unwind"
  BY <1>1, <1>3, <1>4, <1>5, <1>7 DEF CheckUnwind
<1> QED BY <1>1, <1>6, <1>7, ServingType DEF CheckUnwind

\* A transaction posts its events or is rolled back.
LEMMA PostOrRollBackStep ==
  ASSUME TypeOK, NEW w \in Workers, NEW r \in Requests, NEW posting \in Postings(r),
         PostOrRollBack(w, r, posting)
  PROVE  StoreStepFor(r) /\ Serves(w, r)
<1>1. <<r.book, NextPlace(r.book)>> \in EventIds
  BY RequestFields DEF TypeOK, NextPlace, EventIds
<1>2. CASE \A b \in DOMAIN posting : Insertable(b, r.rid) /\ Affordable(b, posting[b].legs)
  BY <1>1, <1>2 DEF PostOrRollBack, StoreStepFor, Posts, Serves, SessionStates
<1>3. CASE \E b \in DOMAIN posting : ~(Insertable(b, r.rid) /\ Affordable(b, posting[b].legs))
  BY <1>3 DEF PostOrRollBack, Refuse, StoreStepFor, Serves, SessionStates
<1> QED BY <1>2, <1>3

\* What an event is made of.
LEMMA EventType ==
  ASSUME NEW r \in Requests, NEW legs \in Legs, NEW reverses \in Nat,
         NEW transfer \in EventIds \cup {NoEvent}, NEW role \in {"none", "out", "in"}
  PROVE  /\ Event(r, legs, reverses, transfer, role) \in Events
         /\ Event(r, legs, reverses, transfer, role).request = r
BY DEF Event, Events

LEMMA JournalledEvent ==
  ASSUME TypeOK, NEW b \in Books, NEW i \in DOMAIN journal[b]
  PROVE  i \in Nat \ {0} /\ journal[b][i] \in Events
BY DEF TypeOK

\* The incoming half of a transfer is an event of a book.
LEMMA InHalfIs ==
  ASSUME NEW b, NEW i, IsTransfer(b, i)
  PROVE  LET in == InHalf(b, i)
         IN  /\ in[1] \in Books /\ in[2] \in DOMAIN journal[in[1]]
             /\ journal[in[1]][in[2]].transfer = <<b, i>>
             /\ journal[in[1]][in[2]].role = "in" /\ journal[in[1]][in[2]].reverses = 0
<1> DEFINE in == InHalf(b, i)
<1>1. in \in InHalves(<<b, i>>)
  BY DEF IsTransfer, InHalf
<1> HIDE DEF in
<1>2. PICK c \in Books : in \in {c} \X DOMAIN journal[c]
  BY <1>1 DEF InHalves
<1> QED BY <1>1, <1>2 DEF InHalves, in

LEMMA PostTransactionStep ==
  ASSUME TypeOK, NEW w \in Workers, PostTransaction(w)
  PROVE  Ends(w)
<1> DEFINE r == session[w].request
           posting == [b \in {r.book} |-> Event(r, BuildLegs(r.tx), 0, NoEvent, "none")]
<1>1. r \in Requests /\ r.op = "record" /\ session[w].state = "cleared"
  BY ServingType DEF PostTransaction, Serving
<1>2. r.book \in Books /\ BuildLegs(r.tx) \in Legs
  BY <1>1, RequestFields, BuildLegsType
<1>3. posting \in Postings(r)
  <2>1. /\ Event(r, BuildLegs(r.tx), 0, NoEvent, "none") \in Events
        /\ Event(r, BuildLegs(r.tx), 0, NoEvent, "none").request = r
    BY <1>1, <1>2, EventType
  <2> QED BY <1>2, <2>1 DEF Postings
<1>4. PostOrRollBack(w, r, posting)
  BY DEF PostTransaction
<1>5. PostingOf(r, posting)
  BY <1>1 DEF PostingOf
<1> HIDE DEF posting
<1> QED BY <1>1, <1>3, <1>4, <1>5 DEF Ends

LEMMA PostReversalStep ==
  ASSUME TypeOK, NEW w \in Workers, PostReversal(w)
  PROVE  Ends(w)
<1> DEFINE r == session[w].request
           legs == Invert(journal[r.book][r.target].legs)
           posting == [b \in {r.book} |-> Event(r, Invert(journal[b][r.target].legs),
                                                r.target, NoEvent, "none")]
<1>1. r \in Requests /\ r.op = "reverse" /\ session[w].state = "cleared"
  BY ServingType DEF PostReversal, Serving
<1>2. CASE Exists(r.book, r.target)
  <2>1. r.book \in Books /\ r.target \in Nat /\ legs \in Legs
    BY <1>1, <1>2, RequestFields, JournalledEvent, InvertType DEF Exists, Events
  <2>2. /\ Event(r, legs, r.target, NoEvent, "none") \in Events
        /\ Event(r, legs, r.target, NoEvent, "none").request = r
    BY <1>1, <2>1, EventType
  <2>3. posting \in Postings(r)
    <3> DEFINE event == Event(r, legs, r.target, NoEvent, "none")
    <3>1. posting = [b \in {r.book} |-> event]
      OBVIOUS
    <3> HIDE DEF event, posting, r
    <3> QED BY <2>1, <2>2, <3>1 DEF Postings, event
  <2>4. PostOrRollBack(w, r, posting)
    BY <1>2 DEF PostReversal
  <2>5. PostingOf(r, posting)
    BY <1>1, <1>2 DEF PostingOf
  <2> HIDE DEF posting
  <2> QED BY <1>1, <2>3, <2>4, <2>5 DEF Ends
<1>3. CASE ~Exists(r.book, r.target)
  BY <1>1, <1>3 DEF PostReversal, Ends
<1> QED BY <1>2, <1>3

LEMMA PostTransferStep ==
  ASSUME TypeOK, NEW w \in Workers, PostTransfer(w)
  PROVE  Ends(w)
<1> DEFINE r == session[w].request
           transfer == <<r.book, NextPlace(r.book)>>
           out == Event(r, CashPair(-r.amount), 0, transfer, "out")
           in == Event(r, CashPair(Received(r)), 0, transfer, "in")
           posting == [b \in {r.book, r.to} |-> IF b = r.book THEN out ELSE in]
<1>1. r \in Requests /\ r.op = "transfer" /\ session[w].state = "cleared"
  BY ServingType DEF PostTransfer, Serving
<1>2. r.book \in Books /\ r.to \in Books /\ r.amount \in Int /\ r.rate \in Int \cup {NoAmount}
  BY <1>1, RequestFields
<1>3. -r.amount \in Int /\ Received(r) \in Int
  <2> HIDE DEF r
  <2> QED BY <1>2 DEF Received
<1>4. transfer \in EventIds
  BY <1>2 DEF TypeOK, NextPlace, EventIds
<1>5. out \in Events /\ out.request = r /\ in \in Events /\ in.request = r
  <2> HIDE DEF r, transfer
  <2> QED BY <1>1, <1>3, <1>4, CashPairType, EventType
<1>6. PostOrRollBack(w, r, posting)
  BY DEF PostTransfer
<1>7. posting \in Postings(r)
  <2> HIDE DEF out, in, r
  <2> QED BY <1>2, <1>5 DEF Postings
<1>8. PostingOf(r, posting)
  BY <1>1 DEF PostingOf
<1> HIDE DEF posting
<1> QED BY <1>1, <1>6, <1>7, <1>8 DEF Ends

LEMMA PostUnwindStep ==
  ASSUME TypeOK, NEW w \in Workers, PostUnwind(w)
  PROVE  Ends(w)
<1> DEFINE r == session[w].request
           in == InHalf(r.book, r.target)
           transfer == <<r.book, r.target>>
           Half(b) == IF b = r.book THEN r.target ELSE in[2]
           Undo(b) == Event(r, Invert(journal[b][Half(b)].legs), Half(b), transfer,
                            journal[b][Half(b)].role)
           posting == [b \in {r.book, in[1]} |-> Undo(b)]
<1>1. r \in Requests /\ r.op = "unwind" /\ session[w].state = "cleared"
  BY ServingType DEF PostUnwind, Serving
<1>2. r.book \in Books /\ transfer \in EventIds
  BY <1>1, RequestFields DEF EventIds
<1>3. CASE IsTransfer(r.book, r.target)
  <2>1. r.target \in DOMAIN journal[r.book]
    BY <1>3 DEF IsTransfer, IsOutHalf, Exists
  <2>2. in[1] \in Books /\ in[2] \in DOMAIN journal[in[1]]
    BY <1>3, InHalfIs
  <2>3. ASSUME NEW b \in {r.book, in[1]}
        PROVE  Undo(b) \in Events /\ Undo(b).request = r
    <3>1. b \in Books /\ Half(b) \in DOMAIN journal[b]
      BY <1>2, <2>1, <2>2
    <3> HIDE DEF Half, r, transfer
    <3>2. Half(b) \in Nat /\ journal[b][Half(b)] \in Events
      BY <3>1, JournalledEvent
    <3>3. Invert(journal[b][Half(b)].legs) \in Legs /\ journal[b][Half(b)].role \in {"none", "out", "in"}
      BY <3>2, InvertType DEF Events
    <3> QED BY <1>1, <1>2, <3>2, <3>3, EventType
  <2>4. PostOrRollBack(w, r, posting)
    BY <1>3 DEF PostUnwind
  <2>5. posting \in Postings(r)
    <3> HIDE DEF Undo, r, in
    <3> QED BY <1>2, <2>2, <2>3 DEF Postings
  <2>6. PostingOf(r, posting)
    BY <1>1, <1>3 DEF PostingOf
  <2> HIDE DEF posting
  <2> QED BY <1>1, <2>4, <2>5, <2>6 DEF Ends
<1>4. CASE ~IsTransfer(r.book, r.target)
  BY <1>1, <1>4 DEF PostUnwind, Ends
<1> QED BY <1>3, <1>4

\* Every posting action ends the request of its session.
LEMMA PostingStep ==
  ASSUME TypeOK, NEW w \in Workers,
         PostTransaction(w) \/ PostReversal(w) \/ PostTransfer(w) \/ PostUnwind(w)
  PROVE  Ends(w)
BY PostTransactionStep, PostReversalStep, PostTransferStep, PostUnwindStep

\* Ending a request posts its events, or changes nothing but the session.
LEMMA EndingStep ==
  ASSUME TypeOK, NEW w \in Workers, Ends(w)
  PROVE  \E r \in Requests : StoreStepFor(r) /\ Serves(w, r)
<1> DEFINE r == session[w].request
<1>1. r \in Requests
  BY DEF Ends
<1>2. CASE Refuse(w, r)
  BY <1>1, <1>2 DEF Refuse, StoreStepFor, Serves, SessionStates
<1>3. CASE \E posting \in Postings(r) : PostOrRollBack(w, r, posting)
  <2> HIDE DEF r
  <2> QED BY <1>1, <1>3, PostOrRollBackStep
<1> QED BY <1>2, <1>3 DEF Ends

\* Every step of the ledger: a book is opened or deleted; a request is served,
\* and perhaps posts; or it is lost.
LEMMA StepShape ==
  ASSUME TypeOK, Next
  PROVE  \/ \E b \in Books : CreateBook(b) \/ DeleteBook(b)
         \/ \E w \in Workers, r \in Requests : StoreStepFor(r) /\ Serves(w, r)
         \/ \E w \in Workers : LoseRequest(w)
<1>1. ASSUME NEW w \in Workers, NEW r \in Requests,
             RecordTransaction(w, r) \/ ReverseTransaction(w, r)
               \/ TransferCash(w, r) \/ UnwindTransfer(w, r)
      PROVE  StoreStepFor(r) /\ Serves(w, r)
  BY <1>1, ReadingStep DEF StoreStepFor
<1>2. ASSUME NEW w \in Workers, Start(w)
      PROVE  \E r \in Requests : StoreStepFor(r) /\ Serves(w, r)
  BY <1>1, <1>2 DEF Start
<1>3. ASSUME NEW w \in Workers, Finish(w)
      PROVE  \E r \in Requests : StoreStepFor(r) /\ Serves(w, r)
  <2>1. CASE CheckReversal(w) \/ CheckUnwind(w)
    BY <2>1, CheckingStep DEF StoreStepFor
  <2>2. CASE PostTransaction(w) \/ PostReversal(w) \/ PostTransfer(w) \/ PostUnwind(w)
    BY <2>2, PostingStep, EndingStep
  <2> QED BY <1>3, <2>1, <2>2 DEF Finish
<1> QED BY <1>2, <1>3 DEF Next

-----------------------------------------------------------------------------
(* Types *)

\* Marking an event keeps it an event.
LEMMA MarkedType ==
  ASSUME NEW e \in Events
  PROVE  [e EXCEPT !.status = "reversed"] \in Events
BY DEF Events

\* What posting one event makes of the journal of its book: one event more, the
\* others as they were but for a status.
LEMMA WithEventIs ==
  ASSUME TypeOK, NEW b \in Books, NEW e \in Events
  PROVE  /\ WithEvent(b, e) \in Seq(Events)
         /\ Len(WithEvent(b, e)) = Len(journal[b]) + 1
         /\ WithEvent(b, e)[Len(journal[b]) + 1] = e
         /\ \A i \in 1..Len(journal[b]) :
              /\ WithEvent(b, e)[i].request = journal[b][i].request
              /\ WithEvent(b, e)[i].legs = journal[b][i].legs
<1> DEFINE old == journal[b]
           k == e.reverses
           marked == [old EXCEPT ![k].status = "reversed"]
<1>1. old \in Seq(Events) /\ k \in Nat
  BY DEF TypeOK, Events
<1>2. /\ marked \in Seq(Events) /\ Len(marked) = Len(old)
      /\ \A i \in 1..Len(old) : marked[i].request = old[i].request /\ marked[i].legs = old[i].legs
  <2>1. CASE k \in 1..Len(old)
    <3>1. [old[k] EXCEPT !.status = "reversed"] \in Events
      BY <1>1, <2>1, MarkedType
    <3> QED BY <1>1, <2>1, <3>1 DEF Events
  <2>2. CASE k \notin 1..Len(old)
    <3>1. marked = old
      BY <1>1, <2>2
    <3> QED BY <1>1, <3>1
  <2> QED BY <2>1, <2>2
<1>3. WithEvent(b, e) = Append(IF k = 0 THEN old ELSE marked, e)
  BY DEF WithEvent
<1> HIDE DEF old, marked, k
<1>4. CASE k = 0
  BY <1>1, <1>3, <1>4 DEF old
<1>5. CASE k # 0
  BY <1>1, <1>2, <1>3, <1>5 DEF old
<1> QED BY <1>4, <1>5

LEMMA HoldingType ==
  ASSUME TypeOK, NEW b \in Books, NEW legs \in Legs
  PROVE  /\ Holding(b, legs) \in [Tickers -> Int]
         /\ \A t \in Tickers : Holding(b, legs)[t] =
              position[b][t] + (IF legs.ticker = t THEN legs.quantity ELSE 0)
<1>1. position[b] \in [Tickers -> Int] /\ legs.ticker \in Tickers \cup {NoTicker} /\ legs.quantity \in Int
  BY DEF TypeOK, Legs
<1> QED BY <1>1, JournalAssumption DEF Holding

\* The session of a worker after a step.
LEMMA SessionType ==
  ASSUME TypeOK, NEW w \in Workers, NEW r \in Requests, Serves(w, r)
  PROVE  /\ session' \in [Workers -> [state: SessionStates, request: Requests \cup {NoRequest},
                                       event: EventIds \cup {NoEvent}]]
         /\ \A v \in Workers : session'[v].state # "idle" => session'[v].request # NoRequest
<1>1. PICK state \in SessionStates \ {"idle"}, e \in EventIds \cup {NoEvent} : Become(w, state, r, e)
  BY DEF Serves
<1>2. r # NoRequest
  BY LedgerAssumption
<1> QED BY <1>1, <1>2 DEF Become, TypeOK

LEMMA PostType ==
  ASSUME TypeOK, NEW r \in Requests, NEW posting \in Postings(r), Post(posting)
  PROVE  /\ books' \in [Books -> {"absent", "open", "deleted"}]
         /\ journal' \in [Books -> Seq(Events)]
         /\ cash' \in [Books -> Int]
         /\ position' \in [Books -> [Tickers -> Int]]
<1>1. \A b \in DOMAIN posting : b \in Books /\ posting[b] \in Events
  BY DEF Postings
<1>2. \A b \in DOMAIN posting : posting[b].legs \in Legs
  BY <1>1 DEF Events
<1>3. \A b \in DOMAIN posting : posting[b].legs.cash \in Int
  BY <1>2 DEF Legs
<1>4. \A b \in DOMAIN posting : WithEvent(b, posting[b]) \in Seq(Events)
  BY <1>1, WithEventIs
<1>5. \A b \in DOMAIN posting : Holding(b, posting[b].legs) \in [Tickers -> Int]
  BY <1>1, <1>2, HoldingType
<1> QED BY <1>3, <1>4, <1>5 DEF Post, TypeOK

LEMMA TypeStep == TypeOK /\ [Next]_vars => TypeOK'
<1> SUFFICES ASSUME TypeOK, [Next]_vars PROVE TypeOK'
  OBVIOUS
<1>1. CASE \E b \in Books : CreateBook(b) \/ DeleteBook(b)
  <2>1. PICK b \in Books : CreateBook(b) \/ DeleteBook(b)
    BY <1>1
  <2>2. CASE CreateBook(b)
    BY <2>2 DEF CreateBook, TypeOK
  <2>3. CASE DeleteBook(b)
    BY <2>3 DEF DeleteBook, TypeOK
  <2> QED BY <2>1, <2>2, <2>3
<1>2. ASSUME NEW w \in Workers, NEW r \in Requests, StoreStepFor(r), Serves(w, r)
      PROVE  TypeOK'
  <2>1. CASE UNCHANGED store
    BY <1>2, <2>1, SessionType DEF store, TypeOK
  <2>2. CASE \E posting \in Postings(r) : Posts(r, posting)
    BY <1>2, <2>2, SessionType, PostType DEF Posts, TypeOK
  <2> QED BY <1>2, <2>1, <2>2 DEF StoreStepFor
<1>3. ASSUME NEW w \in Workers, LoseRequest(w)
      PROVE  TypeOK'
  BY <1>3 DEF LoseRequest, Become, TypeOK, SessionStates, store
<1>4. CASE UNCHANGED vars
  BY <1>4 DEF vars, TypeOK
<1> QED BY <1>1, <1>2, <1>3, <1>4, StepShape

\* Whatever requests do, in any number and any order, every event is an event,
\* every balance and position a number, and every session past its first read
\* has a request to serve.
THEOREM TypeCorrect == Spec => []TypeOK
<1>1. Init => TypeOK
  BY DEF Init, TypeOK, SessionStates
<1> QED BY <1>1, TypeStep, PTL DEF Spec

-----------------------------------------------------------------------------
(* Idempotency keys and balances *)

\* What posting does to one book.
LEMMA PostedBook ==
  ASSUME TypeOK, NEW r \in Requests, NEW posting \in Postings(r), Posts(r, posting),
         NEW b \in DOMAIN posting
  PROVE  /\ b \in Books /\ posting[b] \in Events /\ posting[b].legs \in Legs
         /\ posting[b].request = r
         /\ Insertable(b, r.rid) /\ Affordable(b, posting[b].legs)
         /\ journal'[b] = WithEvent(b, posting[b])
         /\ cash'[b] = cash[b] + posting[b].legs.cash
         /\ position'[b] = Holding(b, posting[b].legs)
<1>1. b \in Books /\ posting[b] \in Events /\ posting[b].request = r
  BY DEF Postings
<1>2. posting[b].legs \in Legs
  BY <1>1 DEF Events
<1> QED BY <1>1, <1>2 DEF Posts, Post

LEMMA UntouchedBook ==
  ASSUME TypeOK, NEW r \in Requests, NEW posting \in Postings(r), Posts(r, posting),
         NEW b \in Books, b \notin DOMAIN posting
  PROVE  journal'[b] = journal[b] /\ cash'[b] = cash[b] /\ position'[b] = position[b]
BY DEF Posts, Post

\* Two events of one book never share a request id: whatever a session concluded
\* from its reads, the unique key on the book and the request id decides when
\* it posts.
THEOREM RequestsPostOnce == Spec => []OneEventPerRequest
<1>1. Init => OneEventPerRequest
  BY DEF Init, OneEventPerRequest
<1>2. TypeOK /\ OneEventPerRequest /\ [Next]_vars => OneEventPerRequest'
  <2> SUFFICES ASSUME TypeOK, OneEventPerRequest, [Next]_vars PROVE OneEventPerRequest'
    OBVIOUS
  <2>1. CASE UNCHANGED journal
    BY <2>1 DEF OneEventPerRequest
  <2>2. ASSUME NEW c \in Books, DeleteBook(c)
        PROVE  OneEventPerRequest'
    BY <2>2 DEF DeleteBook, OneEventPerRequest, TypeOK
  <2>3. ASSUME NEW r \in Requests, NEW posting \in Postings(r), Posts(r, posting)
        PROVE  OneEventPerRequest'
    <3> SUFFICES ASSUME NEW b \in Books, NEW i \in DOMAIN journal'[b], NEW j \in DOMAIN journal'[b],
                        journal'[b][i].request.rid = journal'[b][j].request.rid
                 PROVE  i = j
      BY DEF OneEventPerRequest
    <3>1. CASE b \notin DOMAIN posting
      BY <2>3, <3>1, UntouchedBook DEF OneEventPerRequest
    <3>2. CASE b \in DOMAIN posting
      <4> DEFINE n == Len(journal[b])
      <4>1. /\ posting[b] \in Events /\ posting[b].request = r
            /\ journal'[b] = WithEvent(b, posting[b])
            /\ Used(b, r.rid) = {}
        BY <2>3, <3>2, PostedBook DEF Insertable
      <4>2. /\ journal'[b] \in Seq(Events) /\ Len(journal'[b]) = n + 1
            /\ journal'[b][n + 1].request = r
            /\ \A k \in 1..n : journal'[b][k].request = journal[b][k].request
        BY <4>1, WithEventIs, SMTT(40)
      <4>3. n \in Nat /\ DOMAIN journal[b] = 1..n /\ DOMAIN journal'[b] = 1..(n + 1)
        BY <4>2 DEF TypeOK
      <4>4. \A k \in 1..n : journal[b][k].request.rid # r.rid
        BY <4>1, <4>3 DEF Used
      <4> HIDE DEF n
      <4>5. (i \in 1..n \/ i = n + 1) /\ (j \in 1..n \/ j = n + 1)
        BY <4>3
      <4>6. CASE i \in 1..n /\ j \in 1..n
        <5>1. journal[b][i].request.rid = journal[b][j].request.rid
          BY <4>2, <4>6
        <5> QED BY <4>3, <4>6, <5>1 DEF OneEventPerRequest
      <4>7. CASE i \in 1..n /\ j = n + 1
        BY <4>2, <4>4, <4>7
      <4>8. CASE i = n + 1 /\ j \in 1..n
        BY <4>2, <4>4, <4>8
      <4> QED BY <4>5, <4>6, <4>7, <4>8
    <3> QED BY <3>1, <3>2
  <2>4. CASE UNCHANGED vars
    BY <2>4 DEF vars, OneEventPerRequest
  <2> QED BY <2>1, <2>2, <2>3, <2>4, StepShape
        DEF StoreStepFor, CreateBook, LoseRequest, store
<1> QED BY <1>1, <1>2, TypeCorrect, PTL DEF Spec

\* The balances after a posting.
LEMMA AffordableKeepsBalance ==
  ASSUME TypeOK, NothingOverdrawn, NEW b \in Books, NEW legs \in Legs, Affordable(b, legs)
  PROVE  /\ Kind[b] = "liability" \/ cash[b] + legs.cash >= 0
         /\ \A t \in Tickers : Holding(b, legs)[t] >= 0
<1>1. cash[b] \in Int /\ legs.cash \in Int /\ legs.quantity \in Int
      /\ \A t \in Tickers : position[b][t] \in Int
  BY DEF TypeOK, Legs
<1>2. Kind[b] = "liability" \/ cash[b] + legs.cash >= 0
  BY <1>1 DEF Affordable, NothingOverdrawn
<1>3. ASSUME NEW t \in Tickers PROVE Holding(b, legs)[t] >= 0
  <2>1. position[b][t] >= 0
    BY DEF NothingOverdrawn
  <2>2. legs.quantity < 0 /\ legs.ticker = t => position[b][t] + legs.quantity >= 0
    BY <1>1 DEF Affordable
  <2> QED BY <1>1, <2>1, <2>2, HoldingType
<1> QED BY <1>2, <1>3

\* No book but a liability goes below zero in cash, and no book in any ticker,
\* however stale what a session decided on was: the balance is checked again by
\* the transaction that posts.
THEOREM NeverOverdrawn == Spec => []NothingOverdrawn
<1>1. Init => NothingOverdrawn
  <2> SUFFICES ASSUME Init, NEW b \in Books
               PROVE  cash[b] >= 0 /\ \A t \in Tickers : position[b][t] >= 0
    BY DEF NothingOverdrawn
  <2>1. cash[b] = 0 /\ position[b] = [t \in Tickers |-> 0]
    BY DEF Init
  <2> QED BY <2>1
<1>2. TypeOK /\ NothingOverdrawn /\ [Next]_vars => NothingOverdrawn'
  <2> SUFFICES ASSUME TypeOK, NothingOverdrawn, [Next]_vars PROVE NothingOverdrawn'
    OBVIOUS
  <2>1. CASE UNCHANGED store
    BY <2>1 DEF NothingOverdrawn, store
  <2>2. ASSUME NEW c \in Books, CreateBook(c)
        PROVE  NothingOverdrawn'
    BY <2>2 DEF CreateBook, NothingOverdrawn, TypeOK
  <2>3. ASSUME NEW c \in Books, DeleteBook(c)
        PROVE  NothingOverdrawn'
    BY <2>3 DEF DeleteBook, NothingOverdrawn, TypeOK
  <2>4. ASSUME NEW r \in Requests, NEW posting \in Postings(r), Posts(r, posting)
        PROVE  NothingOverdrawn'
    <3> SUFFICES ASSUME NEW b \in Books
                 PROVE  /\ Kind[b] = "liability" \/ cash'[b] >= 0
                        /\ \A t \in Tickers : position'[b][t] >= 0
      BY DEF NothingOverdrawn
    <3>1. CASE b \notin DOMAIN posting
      BY <2>4, <3>1, UntouchedBook DEF NothingOverdrawn
    <3>2. CASE b \in DOMAIN posting
      BY <2>4, <3>2, PostedBook, AffordableKeepsBalance
    <3> QED BY <3>1, <3>2
  <2>5. CASE UNCHANGED vars
    BY <2>1, <2>5 DEF vars, store
  <2> QED BY <2>1, <2>2, <2>3, <2>4, <2>5, StepShape DEF StoreStepFor, LoseRequest
<1> QED BY <1>1, <1>2, TypeCorrect, PTL DEF Spec

-----------------------------------------------------------------------------
(* Projections and journal *)

\* The projections are the running totals of the journal, and a book that is not
\* open has none: without the latter, opening a book would set to zero a balance
\* that its events do not add up to.
JournalTotals ==
  \A b \in Books :
    /\ books[b] # "open" => journal[b] = << >>
    /\ Totals(CashDeltas(b), Len(journal[b]), cash[b])
    /\ \A t \in Tickers : Totals(QuantityDeltas(b, t), Len(journal[b]), position[b][t])

LEMMA TotalsOfPostedBook ==
  ASSUME TypeOK, JournalTotals, NEW r \in Requests, NEW posting \in Postings(r),
         Posts(r, posting), NEW b \in DOMAIN posting
  PROVE  /\ Totals(CashDeltas(b)', Len(journal'[b]), cash'[b])
         /\ \A t \in Tickers : Totals(QuantityDeltas(b, t)', Len(journal'[b]), position'[b][t])
<1> DEFINE n == Len(journal[b])
           e == posting[b]
<1>1. b \in Books /\ e \in Events /\ e.legs \in Legs /\ journal'[b] = WithEvent(b, e)
      /\ cash'[b] = cash[b] + e.legs.cash /\ position'[b] = Holding(b, e.legs)
  BY PostedBook
<1>2. /\ n \in Nat /\ DOMAIN journal[b] = 1..n /\ DOMAIN journal'[b] = 1..(n + 1)
      /\ Len(journal'[b]) = n + 1 /\ journal'[b][n + 1] = e
      /\ \A i \in 1..n : journal'[b][i].legs = journal[b][i].legs
  BY <1>1, WithEventIs DEF TypeOK
<1> HIDE DEF n, e
<1>3. Totals(CashDeltas(b)', n + 1, cash'[b])
  <2> DEFINE f == CashDeltas(b)
             g == CashDeltas(b)'
  <2>1. g[n + 1] = e.legs.cash /\ \A i \in 1..n : g[i] = f[i]
    BY <1>2 DEF CashDeltas
  <2>2. Totals(f, n, cash[b])
    BY <1>1 DEF JournalTotals, n
  <2> HIDE DEF f, g
  <2>3. Totals(g, n, cash[b])
    BY <1>2, <2>1, <2>2, TotalsOfSame
  <2>4. Totals(g, n + 1, cash[b] + g[n + 1])
    BY <1>2, <2>3, TotalsOfMore
  <2> QED BY <1>1, <2>1, <2>4 DEF g
<1>4. ASSUME NEW t \in Tickers
      PROVE  Totals(QuantityDeltas(b, t)', n + 1, position'[b][t])
  <2> DEFINE f == QuantityDeltas(b, t)
             g == QuantityDeltas(b, t)'
  <2>1. /\ g[n + 1] = IF e.legs.ticker = t THEN e.legs.quantity ELSE 0
        /\ \A i \in 1..n : g[i] = f[i]
    BY <1>2 DEF QuantityDeltas
  <2>2. Totals(f, n, position[b][t])
    BY <1>1 DEF JournalTotals, n
  <2>3. position'[b][t] = position[b][t] + g[n + 1]
    BY <1>1, <2>1, HoldingType
  <2> HIDE DEF f, g
  <2>4. Totals(g, n, position[b][t])
    BY <1>2, <2>1, <2>2, TotalsOfSame
  <2>5. Totals(g, n + 1, position[b][t] + g[n + 1])
    BY <1>2, <2>4, TotalsOfMore
  <2> QED BY <2>3, <2>5 DEF g
<1> QED BY <1>2, <1>3, <1>4

LEMMA TotalsStep == TypeOK /\ JournalTotals /\ [Next]_vars => JournalTotals'
<1> SUFFICES ASSUME TypeOK, JournalTotals, [Next]_vars, NEW b \in Books
             PROVE  /\ books'[b] # "open" => journal'[b] = << >>
                    /\ Totals(CashDeltas(b)', Len(journal'[b]), cash'[b])
                    /\ \A t \in Tickers :
                         Totals(QuantityDeltas(b, t)', Len(journal'[b]), position'[b][t])
  BY DEF JournalTotals
<1>1. ASSUME journal'[b] = << >>, cash'[b] = 0, position'[b] = [t \in Tickers |-> 0]
      PROVE  /\ Totals(CashDeltas(b)', Len(journal'[b]), cash'[b])
             /\ \A t \in Tickers :
                  Totals(QuantityDeltas(b, t)', Len(journal'[b]), position'[b][t])
  BY <1>1, NothingTotals
<1>2. ASSUME journal'[b] = journal[b], cash'[b] = cash[b], position'[b] = position[b]
      PROVE  /\ Totals(CashDeltas(b)', Len(journal'[b]), cash'[b])
             /\ \A t \in Tickers :
                  Totals(QuantityDeltas(b, t)', Len(journal'[b]), position'[b][t])
  BY <1>2 DEF JournalTotals, CashDeltas, QuantityDeltas
<1>3. CASE UNCHANGED store
  BY <1>2, <1>3 DEF store, JournalTotals
<1> DEFINE Goal == /\ books'[b] # "open" => journal'[b] = << >>
                   /\ Totals(CashDeltas(b)', Len(journal'[b]), cash'[b])
                   /\ \A t \in Tickers :
                        Totals(QuantityDeltas(b, t)', Len(journal'[b]), position'[b][t])
<1>4. ASSUME NEW c \in Books, CreateBook(c)
      PROVE  Goal
  <2>1. journal'[b] = journal[b] /\ position'[b] = position[b]
    BY <1>4 DEF CreateBook
  <2>2. CASE b # c
    BY <1>2, <1>4, <2>2 DEF CreateBook, JournalTotals, TypeOK
  <2>3. CASE b = c
    <3>1. journal'[b] = << >> /\ cash'[b] = 0
      BY <1>4, <2>3 DEF CreateBook, JournalTotals, TypeOK
    <3>2. Totals(CashDeltas(b)', Len(journal'[b]), cash'[b])
      BY <3>1, NothingTotals
    <3>3. \A t \in Tickers : Totals(QuantityDeltas(b, t)', Len(journal'[b]), position'[b][t])
      BY <2>1 DEF JournalTotals, QuantityDeltas
    <3> QED BY <3>1, <3>2, <3>3
  <2> QED BY <2>2, <2>3
<1>5. ASSUME NEW c \in Books, DeleteBook(c)
      PROVE  Goal
  <2>1. CASE b # c
    BY <1>2, <1>5, <2>1 DEF DeleteBook, JournalTotals, TypeOK
  <2>2. CASE b = c
    BY <1>1, <1>5, <2>2 DEF DeleteBook, TypeOK
  <2> QED BY <2>1, <2>2
<1>6. ASSUME NEW r \in Requests, NEW posting \in Postings(r), Posts(r, posting)
      PROVE  Goal
  <2>1. books' = books
    BY <1>6 DEF Posts, Post
  <2>2. CASE b \in DOMAIN posting
    <3>1. books[b] = "open"
      BY <1>6, <2>2, PostedBook DEF Insertable
    <3> QED BY <1>6, <2>1, <2>2, <3>1, TotalsOfPostedBook
  <2>3. CASE b \notin DOMAIN posting
    BY <1>2, <1>6, <2>1, <2>3, UntouchedBook DEF JournalTotals
  <2> QED BY <2>2, <2>3
<1> HIDE DEF Goal
<1>7. CASE UNCHANGED vars
  BY <1>3, <1>7 DEF vars, store, Goal
<1>8. CASE Next
  BY <1>3, <1>4, <1>5, <1>6, <1>8, StepShape DEF StoreStepFor, LoseRequest, Goal
<1> QED BY <1>7, <1>8 DEF Goal

LEMMA TotalsInit == Init => JournalTotals
<1> SUFFICES ASSUME Init, NEW b \in Books
             PROVE  /\ journal[b] = << >> /\ cash[b] = 0
                    /\ \A t \in Tickers : position[b][t] = 0
  BY NothingTotals DEF JournalTotals
<1> QED BY DEF Init

\* No request, whatever it races with, leaves a cash balance that is not the sum
\* of the cash legs of the events of its book.
THEOREM CashIsTheJournalsSum == Spec => []CashAgreesWithJournal
<1>2. TypeOK /\ JournalTotals => CashAgreesWithJournal
  <2> SUFFICES ASSUME TypeOK, JournalTotals, NEW b \in Books
               PROVE  SumTo(CashDeltas(b), Len(journal[b])) = cash[b]
    BY DEF CashAgreesWithJournal
  <2>1. Len(journal[b]) \in Nat
    BY DEF TypeOK
  <2> QED BY <2>1, TotalIsSum DEF JournalTotals
<1> QED BY <1>2, TotalsInit, TotalsStep, TypeCorrect, PTL DEF Spec

\* Nor a position that is not the sum of the quantities its events moved.
THEOREM PositionsAreTheJournalsSum == Spec => []PositionsAgreeWithJournal
<1>2. TypeOK /\ JournalTotals => PositionsAgreeWithJournal
  <2> SUFFICES ASSUME TypeOK, JournalTotals, NEW b \in Books, NEW t \in Tickers
               PROVE  SumTo(QuantityDeltas(b, t), Len(journal[b])) = position[b][t]
    BY DEF PositionsAgreeWithJournal
  <2>1. Len(journal[b]) \in Nat
    BY DEF TypeOK
  <2> QED BY <2>1, TotalIsSum DEF JournalTotals
<1> QED BY <1>2, TotalsInit, TotalsStep, TypeCorrect, PTL DEF Spec

\* So the two projections never disagree with the journal they are derived from,
\* for any books, any requests and any number of sessions.
THEOREM ProjectionsAreTheJournalsSums == Spec => []ProjectionsAgreeWithJournal
<1>1. CashAgreesWithJournal /\ PositionsAgreeWithJournal => ProjectionsAgreeWithJournal
  BY DEF ProjectionsAgreeWithJournal
<1> QED BY <1>1, CashIsTheJournalsSum, PositionsAreTheJournalsSum, PTL

-----------------------------------------------------------------------------
(* Each book implements AccountBook *)

EntriesOf(b) == [i \in DOMAIN journal[b] |-> Entry(journal[b][i])]
BookStep(b) == [Account(b)!BookNext]_(Account(b)!bookVars)

\* An event's entry, and the list of a book's entries, are what AccountBook
\* expects.
LEMMA EntryType ==
  ASSUME NEW e \in Events
  PROVE  Entry(e) \in [rid: RequestIds, cash: Int, ticker: Tickers \cup {NoTicker}, quantity: Int]
<1>1. e.request \in Requests /\ e.legs \in Legs
  BY DEF Events
<1> QED BY <1>1, RequestFields DEF Entry, Legs

LEMMA EntriesType ==
  ASSUME TypeOK, NEW b \in Books
  PROVE  /\ DOMAIN EntriesOf(b) = 1..Len(journal[b])
         /\ Len(EntriesOf(b)) = Len(journal[b])
         /\ EntriesOf(b) \in Seq([rid: RequestIds, cash: Int, ticker: Tickers \cup {NoTicker},
                                  quantity: Int])
<1>1. Len(journal[b]) \in Nat /\ DOMAIN journal[b] = 1..Len(journal[b])
  BY DEF TypeOK
<1>2. \A i \in DOMAIN journal[b] : Entry(journal[b][i]) \in
        [rid: RequestIds, cash: Int, ticker: Tickers \cup {NoTicker}, quantity: Int]
  BY EntryType DEF TypeOK
<1> QED BY <1>1, <1>2 DEF EntriesOf

\* A book that is not open is empty.
LEMMA ClosedBookIsEmpty ==
  ASSUME TypeOK, JournalTotals, NEW b \in Books, books[b] # "open"
  PROVE  journal[b] = << >> /\ cash[b] = 0 /\ position[b] = [t \in Tickers |-> 0]
<1>1. ASSUME NEW f, NEW total, Totals(f, 0, total) PROVE total = 0
  BY <1>1 DEF Totals, IsRunning
<1>2. journal[b] = << >>
  BY DEF JournalTotals
<1>3. cash[b] = 0 /\ \A t \in Tickers : position[b][t] = 0
  BY <1>1, <1>2 DEF JournalTotals
<1> QED BY <1>2, <1>3 DEF TypeOK

LEMMA FunctionIsSeq ==
  ASSUME NEW S, NEW n \in Nat, NEW f \in [1..n -> S]
  PROVE  f \in Seq(S) /\ Len(f) = n
OBVIOUS

\* Posting an event enters its entry.
LEMMA PostingEnters ==
  ASSUME TypeOK, NothingOverdrawn, NEW r \in Requests, NEW posting \in Postings(r),
         Posts(r, posting), NEW b \in DOMAIN posting
  PROVE  Account(b)!EnterSome
<1> DEFINE n == Len(journal[b])
           e == posting[b]
<1>1. b \in Books /\ e \in Events /\ e.legs \in Legs /\ e.request = r
      /\ Insertable(b, r.rid) /\ Affordable(b, e.legs) /\ journal'[b] = WithEvent(b, e)
      /\ cash'[b] = cash[b] + e.legs.cash /\ position'[b] = Holding(b, e.legs)
  BY PostedBook
<1>2. /\ n \in Nat /\ DOMAIN journal[b] = 1..n /\ DOMAIN journal'[b] = 1..(n + 1)
      /\ journal'[b][n + 1] = e
      /\ \A i \in 1..n : Entry(journal'[b][i]) = Entry(journal[b][i])
  BY <1>1, WithEventIs DEF TypeOK, Entry
<1> HIDE DEF n, e
<1> DEFINE old == EntriesOf(b)
           new == EntriesOf(b)'
<1>3. /\ old \in Seq([rid: RequestIds, cash: Int, ticker: Tickers \cup {NoTicker}, quantity: Int])
      /\ Len(old) = n
  BY <1>1, EntriesType DEF n
<1>4. new = [i \in 1..(n + 1) |-> IF i = n + 1 THEN Entry(e) ELSE old[i]]
  BY <1>2 DEF EntriesOf
<1> HIDE DEF old, new
<1>5. new = Append(old, Entry(e)) /\ new # << >> /\ Len(new) = n + 1 /\ new[n + 1] = Entry(e)
  <2> DEFINE S == [rid: RequestIds, cash: Int, ticker: Tickers \cup {NoTicker}, quantity: Int]
             long == Append(old, Entry(e))
  <2>1. Entry(e) \in S /\ old \in Seq(S)
    BY <1>1, <1>3, EntryType
  <2> HIDE DEF S
  <2>2. /\ long \in Seq(S) /\ long # << >> /\ Len(long) = n + 1 /\ long[n + 1] = Entry(e)
        /\ \A i \in 1..n : long[i] = old[i]
    BY <1>3, <2>1, AppendProperties
  <2>3. new \in Seq(S) /\ Len(new) = n + 1
    <3>1. \A i \in 1..n : old[i] \in S
      BY <1>2, <1>3, <2>1
    <3>2. new \in [1..(n + 1) -> S]
      BY <1>2, <1>4, <2>1, <3>1
    <3>3. n + 1 \in Nat
      BY <1>2
    <3> QED BY <3>2, <3>3, FunctionIsSeq
  <2>4. \A i \in 1..(n + 1) : new[i] = long[i]
    BY <1>2, <1>4, <2>2
  <2> HIDE DEF long
  <2>5. new = long
    BY <2>2, <2>3, <2>4, SeqEqual
  <2> QED BY <2>2, <2>5 DEF long
<1>6. books[b] = "open" /\ books'[b] = books[b]
      /\ \A i \in DOMAIN old : old[i].rid # r.rid
  BY <1>1, <1>2 DEF Insertable, Used, Posts, Post, old, EntriesOf, Entry
<1>7. /\ Kind[b] = "liability" \/ cash'[b] >= 0
      /\ \A t \in Tickers : position'[b][t] >= 0
  BY <1>1, AffordableKeepsBalance
<1>8. position'[b] = [t \in Tickers |-> IF t = Entry(e).ticker THEN position[b][t] + Entry(e).quantity
                                                              ELSE position[b][t]]
  <2>1. position'[b] \in [Tickers -> Int] /\ position[b] \in [Tickers -> Int]
    BY <1>1, HoldingType DEF TypeOK
  <2>2. \A t \in Tickers : position'[b][t] = position[b][t]
                             + (IF e.legs.ticker = t THEN e.legs.quantity ELSE 0)
    BY <1>1, HoldingType
  <2> QED BY <2>1, <2>2 DEF Entry
<1>9. cash'[b] = cash[b] + Entry(e).cash /\ Entry(e).rid = r.rid
  BY <1>1 DEF Entry
<1>10. Entry(e) \in [rid: RequestIds, cash: Int, ticker: Tickers \cup {NoTicker}, quantity: Int]
  BY <1>1, EntryType
<1>11. Account(b)!Enter(Entry(e))
  <2>1. EntriesOf(b)' = Append(EntriesOf(b), Entry(e))
        /\ \A i \in DOMAIN EntriesOf(b) : EntriesOf(b)[i].rid # Entry(e).rid
    BY <1>5, <1>6, <1>9 DEF old, new
  <2> QED BY <1>6, <1>7, <1>8, <1>9, <2>1 DEF Account!Enter, EntriesOf
<1>12. EntriesOf(b)' # << >> /\ EntriesOf(b)'[Len(EntriesOf(b)')] = Entry(e)
  BY <1>5 DEF new
<1> QED BY <1>10, <1>11, <1>12 DEF Account!EnterSome, Account!Entries, EntriesOf

\* A step of the ledger is a step of each of its books, or none.
LEMMA EachBookSteps ==
  TypeOK /\ NothingOverdrawn /\ JournalTotals /\ [Next]_vars
    => \A b \in Books : [Account(b)!BookNext]_(Account(b)!bookVars)
<1> SUFFICES ASSUME TypeOK, NothingOverdrawn, JournalTotals, [Next]_vars, NEW b \in Books
             PROVE  [Account(b)!BookNext]_(Account(b)!bookVars)
  OBVIOUS
<1> DEFINE Stutters == /\ books'[b] = books[b] /\ journal'[b] = journal[b]
                       /\ cash'[b] = cash[b] /\ position'[b] = position[b]
<1>1. Stutters => [Account(b)!BookNext]_(Account(b)!bookVars)
  BY DEF Account!bookVars
<1>2. UNCHANGED store => Stutters
  BY DEF store
<1>3. ASSUME NEW c \in Books, CreateBook(c)
      PROVE  [Account(b)!BookNext]_(Account(b)!bookVars)
  <2>1. CASE b # c
    BY <1>1, <1>3, <2>1 DEF CreateBook, TypeOK
  <2>2. CASE b = c
    <3>1. books[b] = "absent" /\ cash[b] = 0
      BY <1>3, <2>2, ClosedBookIsEmpty DEF CreateBook
    <3>2. /\ books'[b] = "open" /\ cash'[b] = cash[b]
          /\ journal'[b] = journal[b] /\ position'[b] = position[b]
      BY <1>3, <2>2, <3>1 DEF CreateBook, TypeOK
    <3>3. Account(b)!Open
      BY <3>1, <3>2 DEF Account!Open
    <3> QED BY <3>3 DEF Account!BookNext
  <2> QED BY <2>1, <2>2
<1>4. ASSUME NEW c \in Books, DeleteBook(c)
      PROVE  [Account(b)!BookNext]_(Account(b)!bookVars)
  <2>1. CASE b # c
    BY <1>1, <1>4, <2>1 DEF DeleteBook, TypeOK
  <2>2. CASE b = c
    <3>1. /\ books[b] = "open" /\ books'[b] = "deleted" /\ journal'[b] = << >>
          /\ cash'[b] = 0 /\ position'[b] = [t \in Tickers |-> 0]
      BY <1>4, <2>2 DEF DeleteBook, TypeOK
    <3>2. Account(b)!Delete
      BY <3>1 DEF Account!Delete
    <3> QED BY <3>2 DEF Account!BookNext
  <2> QED BY <2>1, <2>2
<1>5. ASSUME NEW r \in Requests, NEW posting \in Postings(r), Posts(r, posting)
      PROVE  [Account(b)!BookNext]_(Account(b)!bookVars)
  <2>1. CASE b \in DOMAIN posting
    BY <1>5, <2>1, PostingEnters DEF Account!BookNext
  <2>2. CASE b \notin DOMAIN posting
    BY <1>1, <1>5, <2>2, UntouchedBook DEF Posts, Post
  <2> QED BY <2>1, <2>2
<1>6. CASE UNCHANGED vars
  BY <1>1, <1>2, <1>6 DEF vars, store
<1>7. CASE Next
  BY <1>1, <1>2, <1>3, <1>4, <1>5, <1>7, StepShape DEF StoreStepFor, LoseRequest
<1> QED BY <1>6, <1>7

\* Every book the ledger keeps is an account that AccountBook describes, whatever
\* sessions, reversals and transfers do to it and to the others.
THEOREM LedgerImplementsAccountBook == Spec => EachBookIsAnAccount
<1>1. Init => \A b \in Books : Account(b)!BookInit
  <2> SUFFICES ASSUME Init, NEW b \in Books PROVE Account(b)!BookInit
    OBVIOUS
  <2>1. books[b] = "absent" /\ journal[b] = << >> /\ cash[b] = 0
        /\ position[b] = [t \in Tickers |-> 0]
    BY DEF Init
  <2>2. EntriesOf(b) = << >>
    BY <2>1 DEF EntriesOf
  <2> QED BY <2>1, <2>2 DEF Account!BookInit, EntriesOf
<1> QED
  BY <1>1, EachBookSteps, TypeCorrect, NeverOverdrawn, TotalsInit, TotalsStep, PTL
  DEF Spec, EachBookIsAnAccount

-----------------------------------------------------------------------------
(* Journals are only appended to *)

\* Two records of one event, which may differ in its status.
SameEvent(e, f) ==
  /\ f.request = e.request /\ f.legs = e.legs /\ f.reverses = e.reverses
  /\ f.transfer = e.transfer /\ f.role = e.role

\* Nothing but its status is changed about an event: it keeps its place and its
\* contents as long as its book is there, and a book that was opened is never
\* opened again.
JournalKept ==
  \A b \in Books : books[b] # "absent" =>
    /\ books'[b] # "absent"
    /\ books'[b] = "open" =>
         /\ books[b] = "open"
         /\ \A i \in DOMAIN journal[b] :
              /\ i \in DOMAIN journal'[b] /\ SameEvent(journal[b][i], journal'[b][i])
              /\ journal'[b][i].status \in {journal[b][i].status, "reversed"}

\* The journal of a book that one event was posted on, place by place.
LEMMA WithEventAt ==
  ASSUME TypeOK, NEW b \in Books, NEW e \in Events
  PROVE  /\ Len(journal[b]) \in Nat /\ DOMAIN journal[b] = 1..Len(journal[b])
         /\ DOMAIN WithEvent(b, e) = 1..(Len(journal[b]) + 1)
         /\ WithEvent(b, e)[Len(journal[b]) + 1] = e
         /\ \A i \in DOMAIN journal[b] :
              /\ SameEvent(journal[b][i], WithEvent(b, e)[i])
              /\ WithEvent(b, e)[i].status = IF i = e.reverses THEN "reversed"
                                             ELSE journal[b][i].status
<1> DEFINE old == journal[b]
           k == e.reverses
           marked == [old EXCEPT ![k].status = "reversed"]
<1>1. old \in Seq(Events) /\ k \in Nat
  BY DEF TypeOK, Events
<1>2. Len(old) \in Nat /\ DOMAIN old = 1..Len(old)
  BY <1>1
<1>3. /\ DOMAIN marked = 1..Len(old) /\ marked \in Seq(Events) /\ Len(marked) = Len(old)
      /\ \A i \in DOMAIN old :
           /\ SameEvent(old[i], marked[i])
           /\ marked[i].status = IF i = k THEN "reversed" ELSE old[i].status
  <2>1. ASSUME k \in 1..Len(old)
        PROVE  [old[k] EXCEPT !.status = "reversed"] \in Events
    BY <1>1, <2>1, MarkedType
  <2>2. k \notin 1..Len(old) => marked = old
    BY <1>1
  <2>3. DOMAIN marked = DOMAIN old
    OBVIOUS
  <2>4. ASSUME NEW i \in DOMAIN old
        PROVE  /\ SameEvent(old[i], marked[i])
               /\ marked[i].status = IF i = k THEN "reversed" ELSE old[i].status
    <3>1. old[i] \in Events
      BY <1>1, <1>2, <2>4
    <3>2. marked[i] = IF i = k THEN [old[i] EXCEPT !.status = "reversed"] ELSE old[i]
      BY <2>4
    <3> HIDE DEF marked
    <3> QED BY <3>1, <3>2 DEF SameEvent, Events
  <2>5. marked \in Seq(Events) /\ Len(marked) = Len(old)
    <3>1. CASE k \in 1..Len(old)
      BY <1>1, <2>1, <3>1 DEF Events
    <3>2. CASE k \notin 1..Len(old)
      BY <1>1, <2>2, <3>2
    <3> QED BY <3>1, <3>2
  <2> HIDE DEF marked
  <2> QED BY <1>2, <2>3, <2>4, <2>5
<1>4. WithEvent(b, e) = Append(IF k = 0 THEN old ELSE marked, e)
  BY DEF WithEvent
<1> HIDE DEF marked
<1>5. CASE k = 0
  BY <1>1, <1>2, <1>4, <1>5 DEF SameEvent
<1>6. CASE k # 0
  BY <1>1, <1>2, <1>3, <1>4, <1>6
<1> QED BY <1>2, <1>5, <1>6

LEMMA KeptByStep == TypeOK /\ [Next]_vars => JournalKept
<1> SUFFICES ASSUME TypeOK, [Next]_vars, NEW b \in Books, books[b] # "absent"
             PROVE  /\ books'[b] # "absent"
                    /\ books'[b] = "open" =>
                         /\ books[b] = "open"
                         /\ \A i \in DOMAIN journal[b] :
                              /\ i \in DOMAIN journal'[b] /\ SameEvent(journal[b][i], journal'[b][i])
                              /\ journal'[b][i].status \in {journal[b][i].status, "reversed"}
  BY DEF JournalKept
<1>1. CASE books'[b] = books[b] /\ journal'[b] = journal[b]
  BY <1>1 DEF SameEvent, TypeOK
<1>2. ASSUME NEW c \in Books, CreateBook(c)
      PROVE  books'[b] = books[b] /\ journal'[b] = journal[b]
  BY <1>2 DEF CreateBook, TypeOK
<1>3. ASSUME NEW c \in Books, DeleteBook(c)
      PROVE  \/ books'[b] = "deleted"
             \/ books'[b] = books[b] /\ journal'[b] = journal[b]
  BY <1>3 DEF DeleteBook, TypeOK
<1>4. ASSUME NEW r \in Requests, NEW posting \in Postings(r), Posts(r, posting), b \in DOMAIN posting
      PROVE  /\ books'[b] = "open" /\ books[b] = "open"
             /\ \A i \in DOMAIN journal[b] :
                  /\ i \in DOMAIN journal'[b] /\ SameEvent(journal[b][i], journal'[b][i])
                  /\ journal'[b][i].status \in {journal[b][i].status, "reversed"}
  <2>1. posting[b] \in Events /\ journal'[b] = WithEvent(b, posting[b]) /\ books[b] = "open"
    BY <1>4, PostedBook DEF Insertable
  <2>2. books' = books
    BY <1>4 DEF Posts, Post
  <2> QED BY <2>1, <2>2, WithEventAt
<1>5. ASSUME NEW r \in Requests, NEW posting \in Postings(r), Posts(r, posting), b \notin DOMAIN posting
      PROVE  books'[b] = books[b] /\ journal'[b] = journal[b]
  BY <1>5, UntouchedBook DEF Posts, Post
<1>6. CASE UNCHANGED store
  BY <1>1, <1>6 DEF store
<1>7. CASE UNCHANGED vars
  BY <1>1, <1>7 DEF vars
<1> QED BY <1>1, <1>2, <1>3, <1>4, <1>5, <1>6, <1>7, StepShape DEF StoreStepFor, LoseRequest

\* A journal is a record: whatever requests, losses and deletions do, an event
\* that was committed keeps its place, its request, its legs and its transfer
\* until its book is deleted; all that happens to it is to be marked reversed.
THEOREM JournalsAreOnlyAppendedTo == Spec => [][JournalKept]_vars
<1>1. TypeOK /\ [Next]_vars => [JournalKept]_vars
  BY KeptByStep
<1> QED BY <1>1, TypeCorrect, PTL DEF Spec

-----------------------------------------------------------------------------
(* Events are fit for the requests they name *)

\* What the checks of a request demand of the request alone.
Accepted(r) ==
  /\ r.op = "record" => MayHold(r.book, r.tx)
  /\ r.op = "transfer" => /\ r.book # r.to /\ r.amount > 0
                          /\ Currency[r.book] = Currency[r.to] <=> r.rate = NoAmount
                          /\ r.rate # NoAmount => r.rate > 0

\* The event e, at place i of the journal of b, is one that r can have posted.
FitFor(r, b, i, e) ==
  /\ Accepted(r)
  /\ r.op = "record" =>
       b = r.book /\ e.role = "none" /\ e.transfer = NoEvent /\ e.reverses = 0
  /\ r.op = "reverse" =>
       b = r.book /\ e.role = "none" /\ e.transfer = NoEvent /\ e.reverses = r.target
  /\ r.op = "transfer" =>
       /\ e.reverses = 0 /\ e.transfer \in EventIds /\ e.transfer[1] = r.book
       /\ \/ e.role = "out" /\ b = r.book /\ e.transfer[2] = i
          \/ e.role = "in" /\ b = r.to
  /\ r.op = "unwind" =>
       e.role # "none" /\ e.reverses # 0 /\ e.transfer = <<r.book, r.target>>

EventsFit ==
  \A b \in Books :
    /\ books[b] # "open" => journal[b] = << >>
    /\ \A i \in DOMAIN journal[b] : FitFor(journal[b][i].request, b, i, journal[b][i])

\* What a session may rely on until it ends its request.  Its book was opened;
\* while it is still there, so are the event it located and the event it was
\* answered with.
SessionFit(s) ==
  LET r == s.request
  IN  /\ s.state = "cleared" => Accepted(r)
      /\ s.state \in {"located", "cleared"} /\ r.op = "reverse" =>
           /\ books[r.book] # "absent"
           /\ books[r.book] = "open" => /\ Exists(r.book, r.target)
                                        /\ journal[r.book][r.target].transfer = NoEvent
      /\ s.state = "answered" /\ r.op \in {"record", "transfer"} =>
           /\ books[r.book] # "absent" /\ s.event[1] = r.book
           /\ books[r.book] = "open" => /\ Exists(r.book, s.event[2])
                                        /\ journal[r.book][s.event[2]].request = r

SessionsFit == \A w \in Workers : SessionFit(session[w])

\* What a session relies on is not undone by others.
LEMMA SessionFitKept ==
  ASSUME TypeOK, JournalKept, NEW w \in Workers, SessionFit(session[w]), session'[w] = session[w],
         session[w].state # "idle"
  PROVE  SessionFit(session[w])'
<1> DEFINE s == session[w]
           r == s.request
<1>1. r \in Requests /\ r.book \in Books
  BY RequestFields DEF TypeOK
<1>2. books[r.book] # "absent" =>
        /\ books'[r.book] # "absent"
        /\ books'[r.book] = "open" =>
             /\ books[r.book] = "open"
             /\ \A i \in DOMAIN journal[r.book] :
                  i \in DOMAIN journal'[r.book] /\ SameEvent(journal[r.book][i], journal'[r.book][i])
  BY <1>1 DEF JournalKept
<1>4. \A i \in DOMAIN journal[r.book] :
        books[r.book] # "absent" /\ books'[r.book] = "open" =>
          /\ i \in DOMAIN journal'[r.book]
          /\ journal'[r.book][i].transfer = journal[r.book][i].transfer
          /\ journal'[r.book][i].request = journal[r.book][i].request
  BY <1>2 DEF SameEvent
<1>5. SessionFit(s)' <=>
        /\ s.state = "cleared" => Accepted(r)
        /\ s.state \in {"located", "cleared"} /\ r.op = "reverse" =>
             /\ books'[r.book] # "absent"
             /\ books'[r.book] = "open" => /\ r.target \in DOMAIN journal'[r.book]
                                           /\ journal'[r.book][r.target].transfer = NoEvent
        /\ s.state = "answered" /\ r.op \in {"record", "transfer"} =>
             /\ books'[r.book] # "absent" /\ s.event[1] = r.book
             /\ books'[r.book] = "open" => /\ s.event[2] \in DOMAIN journal'[r.book]
                                           /\ journal'[r.book][s.event[2]].request = r
  BY DEF SessionFit, Exists, Accepted, MayHold
<1>6. SessionFit(s)
  OBVIOUS
<1> HIDE DEF s
<1>7. SessionFit(s)'
  BY <1>2, <1>4, <1>5, <1>6 DEF SessionFit, Exists
<1> QED BY <1>7 DEF s

LEMMA BecomeIs ==
  ASSUME TypeOK, NEW w \in Workers, NEW state, NEW r, NEW e, Become(w, state, r, e)
  PROVE  /\ session'[w] = [state |-> state, request |-> r, event |-> e]
         /\ \A v \in Workers : v # w => session'[v] = session[v]
BY DEF Become, TypeOK

\* The steps once more, told apart by whether they can post.
LEMMA StepKinds ==
  ASSUME TypeOK, Next
  PROVE  \/ \E b \in Books : CreateBook(b) \/ DeleteBook(b)
         \/ \E w \in Workers : UNCHANGED store /\ Start(w)
         \/ \E w \in Workers : UNCHANGED store /\ (CheckReversal(w) \/ CheckUnwind(w))
         \/ \E w \in Workers : Ends(w)
         \/ \E w \in Workers : UNCHANGED store /\ LoseRequest(w)
<1>1. ASSUME NEW w \in Workers, Start(w) PROVE UNCHANGED store
  BY <1>1, ReadingStep DEF Start
<1>2. ASSUME NEW w \in Workers, CheckReversal(w) \/ CheckUnwind(w) PROVE UNCHANGED store
  BY <1>2, CheckingStep
<1>3. ASSUME NEW w \in Workers, LoseRequest(w) PROVE UNCHANGED store
  BY <1>3 DEF LoseRequest
<1> QED BY <1>1, <1>2, <1>3, PostingStep DEF Next, Finish

\* Ending a request posts what it is turned into, or changes only the session.
LEMMA EndsPosts ==
  ASSUME TypeOK, NEW w \in Workers, Ends(w)
  PROVE  LET r == session[w].request
         IN  /\ r \in Requests /\ session[w].state = "cleared"
             /\ \/ Refuse(w, r)
                \/ \E posting \in Postings(r) :
                     /\ PostingOf(r, posting) /\ Posts(r, posting)
                     /\ Become(w, "answered", r, <<r.book, NextPlace(r.book)>>)
<1> DEFINE r == session[w].request
<1>1. ASSUME NEW posting \in Postings(r), PostOrRollBack(w, r, posting)
      PROVE  \/ Refuse(w, r)
             \/ Posts(r, posting) /\ Become(w, "answered", r, <<r.book, NextPlace(r.book)>>)
  BY <1>1 DEF PostOrRollBack, Posts
<1> QED BY <1>1 DEF Ends

\* The journal of a book that was posted on, place by place.
LEMMA PostedPlaces ==
  ASSUME TypeOK, NEW r \in Requests, NEW posting \in Postings(r), Posts(r, posting),
         NEW b \in DOMAIN posting
  PROVE  /\ b \in Books /\ books[b] = "open" /\ posting[b] \in Events /\ posting[b].request = r
         /\ Len(journal[b]) \in Nat /\ DOMAIN journal[b] = 1..Len(journal[b])
         /\ DOMAIN journal'[b] = 1..(Len(journal[b]) + 1)
         /\ journal'[b][Len(journal[b]) + 1] = posting[b]
         /\ \A i \in DOMAIN journal[b] :
              /\ SameEvent(journal[b][i], journal'[b][i])
              /\ journal'[b][i].status = IF i = posting[b].reverses THEN "reversed"
                                         ELSE journal[b][i].status
<1>1. /\ b \in Books /\ books[b] = "open" /\ posting[b] \in Events /\ posting[b].request = r
      /\ journal'[b] = WithEvent(b, posting[b])
  BY PostedBook DEF Insertable
<1> QED BY <1>1, WithEventAt

\* What a request is turned into is fit for it.
LEMMA PostingFits ==
  ASSUME TypeOK, NEW r \in Requests, Accepted(r), NEW posting \in Postings(r), PostingOf(r, posting),
         NEW b \in DOMAIN posting
  PROVE  FitFor(r, b, Len(journal[b]) + 1, posting[b])
<1>1. r.book \in Books /\ (r.op \in {"reverse", "unwind"} => r.target \in Nat \ {0})
  BY RequestFields
<1>2. <<r.book, NextPlace(r.book)>> \in EventIds
  BY <1>1 DEF TypeOK, NextPlace, EventIds
<1>3. CASE r.op = "record"
  BY <1>3 DEF PostingOf, FitFor, Event
<1>4. CASE r.op = "reverse"
  BY <1>4 DEF PostingOf, FitFor, Event
<1>5. CASE r.op = "transfer"
  BY <1>2, <1>5 DEF PostingOf, FitFor, Event, NextPlace
<1>6. CASE r.op = "unwind"
  <2> DEFINE in == InHalf(r.book, r.target)
             half(c) == IF c = r.book THEN r.target ELSE in[2]
  <2>1. /\ IsTransfer(r.book, r.target) /\ b \in {r.book, in[1]}
        /\ posting[b] = Event(r, Invert(journal[b][half(b)].legs), half(b), <<r.book, r.target>>,
                              journal[b][half(b)].role)
    BY <1>6 DEF PostingOf
  <2>2. in[1] \in Books /\ in[2] \in DOMAIN journal[in[1]] /\ journal[in[1]][in[2]].role = "in"
    BY <2>1, InHalfIs
  <2>3. in[2] # 0
    BY <2>2, JournalledEvent
  <2>4. journal[r.book][r.target].role = "out"
    BY <2>1 DEF IsTransfer, IsOutHalf
  <2>5. half(b) # 0 /\ journal[b][half(b)].role # "none"
    BY <1>1, <1>6, <2>1, <2>2, <2>3, <2>4
  <2> HIDE DEF half
  <2> QED BY <1>6, <2>1, <2>5 DEF FitFor, Event
<1> QED BY <1>3, <1>4, <1>5, <1>6, LedgerAssumption DEF RequestSet

LEMMA EventsFitStep == TypeOK /\ EventsFit /\ SessionsFit /\ [Next]_vars => EventsFit'
<1> SUFFICES ASSUME TypeOK, EventsFit, SessionsFit, [Next]_vars, NEW b \in Books
             PROVE  /\ books'[b] # "open" => journal'[b] = << >>
                    /\ \A i \in DOMAIN journal'[b] :
                         FitFor(journal'[b][i].request, b, i, journal'[b][i])
  BY DEF EventsFit, FitFor, Accepted, MayHold
<1> DEFINE Goal == /\ books'[b] # "open" => journal'[b] = << >>
                   /\ \A i \in DOMAIN journal'[b] :
                        FitFor(journal'[b][i].request, b, i, journal'[b][i])
<1>1. CASE journal'[b] = journal[b] /\ (books[b] = "open" => books'[b] = "open")
  BY <1>1 DEF EventsFit
<1>2. ASSUME NEW c \in Books, CreateBook(c) PROVE Goal
  <2>1. journal'[b] = journal[b] /\ (books[b] = "open" => books'[b] = "open")
    BY <1>2 DEF CreateBook, TypeOK
  <2> QED BY <1>1, <2>1
<1>3. ASSUME NEW c \in Books, DeleteBook(c) PROVE Goal
  <2>1. CASE b = c
    BY <1>3, <2>1 DEF DeleteBook, TypeOK
  <2>2. CASE b # c
    BY <1>1, <1>3, <2>2 DEF DeleteBook, TypeOK
  <2> QED BY <2>1, <2>2
<1>4. ASSUME NEW w \in Workers, Ends(w) PROVE Goal
  <2> DEFINE r == session[w].request
  <2>1. r \in Requests /\ Accepted(r)
    BY <1>4, EndsPosts DEF SessionsFit, SessionFit
  <2>2. CASE Refuse(w, r)
    BY <1>1, <2>2 DEF Refuse, store
  <2>3. ASSUME NEW posting \in Postings(r), PostingOf(r, posting), Posts(r, posting)
        PROVE  Goal
    <3> HIDE DEF r
    <3>1. books' = books
      BY <2>3 DEF Posts, Post
    <3>2. CASE b \notin DOMAIN posting
      BY <1>1, <2>1, <2>3, <3>1, <3>2, UntouchedBook
    <3>3. CASE b \in DOMAIN posting
      <4>1. ASSUME NEW i \in DOMAIN journal[b]
            PROVE  FitFor(journal'[b][i].request, b, i, journal'[b][i])
        <5>1. FitFor(journal[b][i].request, b, i, journal[b][i])
          BY DEF EventsFit
        <5>2. SameEvent(journal[b][i], journal'[b][i])
          BY <2>1, <2>3, <3>3, PostedPlaces
        <5> QED BY <5>1, <5>2 DEF SameEvent, FitFor
      <4>2. FitFor(r, b, Len(journal[b]) + 1, posting[b])
        BY <2>1, <2>3, <3>3, PostingFits
      <4>3. /\ books[b] = "open" /\ posting[b].request = r
            /\ Len(journal[b]) \in Nat /\ DOMAIN journal[b] = 1..Len(journal[b])
            /\ DOMAIN journal'[b] = 1..(Len(journal[b]) + 1)
            /\ journal'[b][Len(journal[b]) + 1] = posting[b]
        BY <2>1, <2>3, <3>3, PostedPlaces
      <4>4. \A i \in DOMAIN journal'[b] : i \in DOMAIN journal[b] \/ i = Len(journal[b]) + 1
        BY <4>3
      <4> QED BY <3>1, <4>1, <4>2, <4>3, <4>4
    <3> QED BY <3>2, <3>3
  <2> HIDE DEF Goal
  <2> QED BY <1>4, <2>2, <2>3, EndsPosts
<1>5. CASE UNCHANGED store
  BY <1>1, <1>5 DEF store
<1>6. CASE UNCHANGED vars
  BY <1>1, <1>6 DEF vars
<1> HIDE DEF Goal
<1> QED BY <1>2, <1>3, <1>4, <1>5, <1>6, StepKinds DEF Goal

\* A session fit for the store as it is is fit after a step that leaves the store.
LEMMA SessionFitSame ==
  ASSUME UNCHANGED store, NEW w \in Workers, SessionFit(session'[w])
  PROVE  SessionFit(session[w])'
BY DEF store, SessionFit, Exists, Accepted, MayHold

\* What a session concludes from its first reads.
LEMMA StartFits ==
  ASSUME TypeOK, NEW w \in Workers, Start(w)
  PROVE  SessionFit(session'[w])
<1>1. PICK r \in Requests : \/ RecordTransaction(w, r) \/ ReverseTransaction(w, r)
                            \/ TransferCash(w, r) \/ UnwindTransfer(w, r)
  BY DEF Start
<1>2. ASSUME Refuse(w, r)
      PROVE  session'[w].state = "refused"
  BY <1>2 DEF Refuse, Become, TypeOK
<1>3. ASSUME NEW i, Answer(w, r, <<r.book, i>>)
      PROVE  /\ session'[w].state = "answered" /\ session'[w].request = r
             /\ session'[w].event[1] = r.book /\ session'[w].event[2] = i
  BY <1>3 DEF Answer, Become, TypeOK
<1>4. ASSUME Clear(w, r)
      PROVE  session'[w].state = "cleared" /\ session'[w].request = r
  BY <1>4 DEF Clear, Become, TypeOK
<1>5. ASSUME Locate(w, r)
      PROVE  session'[w].state = "located" /\ session'[w].request = r
  BY <1>5 DEF Locate, Become, TypeOK
<1>6. CASE session'[w].state = "refused"
  BY <1>6 DEF SessionFit
<1>7. ASSUME NEW i, i \in Used(r.book, r.rid), SameFingerprint(journal[r.book][i], r),
             books[r.book] = "open", Answer(w, r, <<r.book, i>>)
      PROVE  SessionFit(session'[w])
  BY <1>3, <1>7 DEF SessionFit, Used, SameFingerprint, Exists
<1>8. CASE RecordTransaction(w, r)
  BY <1>2, <1>4, <1>6, <1>7, <1>8 DEF RecordTransaction, SessionFit, Accepted
<1>9. CASE ReverseTransaction(w, r)
  BY <1>2, <1>5, <1>6, <1>9 DEF ReverseTransaction, SessionFit, Reversible
<1>10. CASE TransferCash(w, r)
  <2>1. Transferable(r) /\ r.op = "transfer" => Accepted(r) /\ books[r.book] = "open"
    BY DEF Transferable, Accepted
  <2> QED BY <1>2, <1>4, <1>6, <1>7, <1>10, <2>1 DEF TransferCash, SessionFit
<1>11. CASE UnwindTransfer(w, r)
  BY <1>2, <1>5, <1>6, <1>11 DEF UnwindTransfer, SessionFit
<1> QED BY <1>1, <1>8, <1>9, <1>10, <1>11

\* And from its second ones.
LEMMA CheckFits ==
  ASSUME TypeOK, NEW w \in Workers, SessionFit(session[w]), CheckReversal(w) \/ CheckUnwind(w)
  PROVE  SessionFit(session'[w])
<1> DEFINE r == session[w].request
<1>1. session[w].state = "located" /\ r.op \in {"reverse", "unwind"}
  BY DEF CheckReversal, CheckUnwind, Serving
<1>2. session'[w].request = r /\ session'[w].state \in {"answered", "cleared", "refused"}
  <2>1. \/ \E e : Answer(w, r, e)
        \/ Refuse(w, r)
        \/ Clear(w, r)
    BY DEF CheckReversal, CheckUnwind
  <2> HIDE DEF r
  <2> QED BY <2>1 DEF Answer, Refuse, Clear, Become, TypeOK
<1> HIDE DEF r
<1>3. r = session[w].request
  BY DEF r
<1> QED BY <1>1, <1>2, <1>3 DEF SessionFit, Accepted

\* A session that posted is answered with its own event.
LEMMA PostedSessionFits ==
  ASSUME TypeOK, NEW w \in Workers, NEW r \in Requests, NEW posting \in Postings(r),
         PostingOf(r, posting), Posts(r, posting),
         Become(w, "answered", r, <<r.book, NextPlace(r.book)>>)
  PROVE  SessionFit(session[w])'
<1>1. session'[w] = [state |-> "answered", request |-> r, event |-> <<r.book, NextPlace(r.book)>>]
  BY BecomeIs
<1>2. r.op \in {"record", "transfer"} => r.book \in DOMAIN posting
  BY DEF PostingOf
<1>3. r.op \in {"record", "transfer"} =>
        /\ books[r.book] = "open" /\ NextPlace(r.book) \in DOMAIN journal'[r.book]
        /\ journal'[r.book][NextPlace(r.book)].request = r
  BY <1>2, PostedPlaces DEF NextPlace
<1>4. books' = books
  BY DEF Posts, Post
<1> QED BY <1>1, <1>3, <1>4 DEF SessionFit, Exists

LEMMA SessionsFitStep == TypeOK /\ SessionsFit /\ [Next]_vars => SessionsFit'
<1> SUFFICES ASSUME TypeOK, SessionsFit, [Next]_vars, NEW v \in Workers
             PROVE  SessionFit(session[v])'
  BY DEF SessionsFit
<1>1. CASE session'[v].state = "idle"
  BY <1>1 DEF SessionFit
<1>2. CASE session'[v] = session[v]
  <2>1. JournalKept
    BY KeptByStep
  <2>2. CASE session[v].state # "idle"
    BY <1>2, <2>1, <2>2, SessionFitKept DEF SessionsFit
  <2>3. CASE session[v].state = "idle"
    BY <1>1, <1>2, <2>3
  <2> QED BY <2>2, <2>3
<1>3. ASSUME NEW w \in Workers, NEW state, NEW r, NEW e, Become(w, state, r, e), w # v
      PROVE  SessionFit(session[v])'
  BY <1>2, <1>3, BecomeIs
<1>4. ASSUME NEW w \in Workers, UNCHANGED store, Start(w) PROVE SessionFit(session[v])'
  <2>1. CASE w = v
    BY <1>4, <2>1, StartFits, SessionFitSame
  <2>2. CASE w # v
    <3>1. \E r \in Requests : Serves(w, r)
      BY <1>4, ReadingStep DEF Start
    <3> QED BY <1>3, <2>2, <3>1 DEF Serves
  <2> QED BY <2>1, <2>2
<1>5. ASSUME NEW w \in Workers, UNCHANGED store, CheckReversal(w) \/ CheckUnwind(w)
      PROVE  SessionFit(session[v])'
  <2>1. CASE w = v
    BY <1>5, <2>1, CheckFits, SessionFitSame DEF SessionsFit
  <2>2. CASE w # v
    <3>1. \E r \in Requests : Serves(w, r)
      BY <1>5, CheckingStep
    <3> QED BY <1>3, <2>2, <3>1 DEF Serves
  <2> QED BY <2>1, <2>2
<1>6. ASSUME NEW w \in Workers, Ends(w) PROVE SessionFit(session[v])'
  <2> DEFINE r == session[w].request
  <2>1. CASE Refuse(w, r)
    <3>1. CASE w = v
      <4>1. session'[w].state = "refused"
        <5> HIDE DEF r
        <5> QED BY <2>1 DEF Refuse, Become, TypeOK
      <4> QED BY <3>1, <4>1 DEF SessionFit
    <3> HIDE DEF r
    <3> QED BY <1>3, <2>1, <3>1 DEF Refuse
  <2>2. ASSUME NEW posting \in Postings(r), PostingOf(r, posting), Posts(r, posting),
               Become(w, "answered", r, <<r.book, NextPlace(r.book)>>)
        PROVE  SessionFit(session[v])'
    <3>1. r \in Requests
      BY <1>6 DEF Ends
    <3> HIDE DEF r
    <3> QED BY <1>3, <2>2, <3>1, PostedSessionFits
  <2> QED BY <1>6, <2>1, <2>2, EndsPosts
<1>7. ASSUME NEW w \in Workers, LoseRequest(w) PROVE SessionFit(session[v])'
  <2>1. CASE w = v
    BY <1>1, <1>7, <2>1 DEF LoseRequest, Become, TypeOK
  <2> QED BY <1>3, <1>7, <2>1 DEF LoseRequest
<1>8. ASSUME NEW b \in Books, CreateBook(b) \/ DeleteBook(b) PROVE SessionFit(session[v])'
  BY <1>2, <1>8 DEF CreateBook, DeleteBook
<1>9. CASE UNCHANGED vars
  BY <1>2, <1>9 DEF vars
<1> QED BY <1>4, <1>5, <1>6, <1>7, <1>8, <1>9, StepKinds

\* Both together: what a session relies on, and what it posts.
RequestInv == EventsFit /\ SessionsFit

LEMMA RequestInvHolds == Spec => []RequestInv
<1>1. Init => RequestInv
  BY DEF Init, RequestInv, EventsFit, SessionsFit, SessionFit
<1>2. TypeOK /\ RequestInv /\ [Next]_vars => RequestInv'
  BY EventsFitStep, SessionsFitStep DEF RequestInv
<1> QED BY <1>1, <1>2, TypeCorrect, PTL DEF Spec

\* A posting or a transfer is answered with an event of its own, in its own book,
\* whether it posted it now or found it posted, and however many sessions post,
\* lose their requests or delete other books meanwhile.
THEOREM AnswersNameTheirRequests == Spec => []AnswerNamesTheRequest
<1>1. RequestInv => AnswerNamesTheRequest
  BY DEF RequestInv, SessionsFit, SessionFit, AnswerNamesTheRequest
<1> QED BY <1>1, RequestInvHolds, PTL

-----------------------------------------------------------------------------
(* Who holds securities *)

\* No event of a cash account or a loan names a ticker, and so it holds nothing.
HoldsNothing ==
  \A b \in Books : Kind[b] # "investment" =>
    /\ \A i \in DOMAIN journal[b] : journal[b][i].legs.ticker = NoTicker
    /\ \A t \in Tickers : position[b][t] = 0

\* Nor does what a request is turned into: only a trade has legs in a ticker, and a
\* reversal has the ticker of what it reverses.
LEMMA PostingNamesNoTicker ==
  ASSUME TypeOK, HoldsNothing, NEW r \in Requests, Accepted(r),
         NEW posting \in Postings(r), PostingOf(r, posting), NEW b \in DOMAIN posting,
         b \in Books, Kind[b] # "investment"
  PROVE  posting[b].legs.ticker = NoTicker
<1>1. CASE r.op = "record"
  <2>1. b = r.book /\ posting[b].legs = BuildLegs(r.tx)
    BY <1>1 DEF PostingOf, Event
  <2>2. r.tx.type \notin Trades
    BY <1>1, <2>1 DEF Accepted, MayHold, HoldingEvents
  <2> QED BY <2>1, <2>2 DEF BuildLegs, CashPair
<1>2. CASE r.op = "transfer"
  BY <1>2 DEF PostingOf, Event, CashPair
<1>3. CASE r.op = "reverse"
  <2>1. b = r.book /\ r.target \in DOMAIN journal[b]
        /\ posting[b].legs = Invert(journal[b][r.target].legs)
    BY <1>3 DEF PostingOf, Event, Exists
  <2> QED BY <2>1 DEF HoldsNothing, Invert
<1>4. CASE r.op = "unwind"
  <2> DEFINE in == InHalf(r.book, r.target)
             half(c) == IF c = r.book THEN r.target ELSE in[2]
  <2>1. IsTransfer(r.book, r.target) /\ b \in {r.book, in[1]}
        /\ posting[b].legs = Invert(journal[b][half(b)].legs)
    BY <1>4 DEF PostingOf, Event
  <2>2. r.target \in DOMAIN journal[r.book] /\ in[2] \in DOMAIN journal[in[1]]
    BY <2>1, InHalfIs DEF IsTransfer, IsOutHalf, Exists
  <2>3. half(b) \in DOMAIN journal[b]
    BY <2>1, <2>2
  <2> HIDE DEF half
  <2> QED BY <2>1, <2>3 DEF HoldsNothing, Invert
<1> QED BY <1>1, <1>2, <1>3, <1>4, LedgerAssumption DEF RequestSet

LEMMA HoldsNothingStep == TypeOK /\ SessionsFit /\ HoldsNothing /\ [Next]_vars => HoldsNothing'
<1> SUFFICES ASSUME TypeOK, SessionsFit, HoldsNothing, [Next]_vars,
                    NEW b \in Books, Kind[b] # "investment"
             PROVE  /\ \A i \in DOMAIN journal'[b] : journal'[b][i].legs.ticker = NoTicker
                    /\ \A t \in Tickers : position'[b][t] = 0
  BY DEF HoldsNothing
<1> DEFINE Goal == /\ \A i \in DOMAIN journal'[b] : journal'[b][i].legs.ticker = NoTicker
                   /\ \A t \in Tickers : position'[b][t] = 0
<1>1. CASE journal'[b] = journal[b] /\ position'[b] = position[b]
  BY <1>1 DEF HoldsNothing
<1>2. CASE UNCHANGED store
  BY <1>1, <1>2 DEF store
<1>3. ASSUME NEW c \in Books, CreateBook(c) PROVE Goal
  BY <1>1, <1>3 DEF CreateBook
<1>4. ASSUME NEW c \in Books, DeleteBook(c) PROVE Goal
  <2>1. CASE b = c
    BY <1>4, <2>1 DEF DeleteBook, TypeOK
  <2>2. CASE b # c
    BY <1>1, <1>4, <2>2 DEF DeleteBook, TypeOK
  <2> QED BY <2>1, <2>2
<1>5. ASSUME NEW w \in Workers, Ends(w) PROVE Goal
  <2> DEFINE r == session[w].request
  <2>1. r \in Requests /\ Accepted(r)
    BY <1>5, EndsPosts DEF SessionsFit, SessionFit
  <2>2. CASE Refuse(w, r)
    BY <1>2, <2>2 DEF Refuse
  <2>3. ASSUME NEW posting \in Postings(r), PostingOf(r, posting), Posts(r, posting)
        PROVE  Goal
    <3> HIDE DEF r
    <3>1. CASE b \notin DOMAIN posting
      BY <1>1, <2>1, <2>3, <3>1, UntouchedBook
    <3>2. CASE b \in DOMAIN posting
      <4>1. posting[b].legs.ticker = NoTicker
        BY <2>1, <2>3, <3>2, PostingNamesNoTicker
      <4>2. position'[b] = position[b]
        BY <2>1, <2>3, <3>2, <4>1, PostedBook DEF Holding
      <4>3. /\ Len(journal[b]) \in Nat /\ DOMAIN journal[b] = 1..Len(journal[b])
            /\ DOMAIN journal'[b] = 1..(Len(journal[b]) + 1)
            /\ journal'[b][Len(journal[b]) + 1] = posting[b]
            /\ \A i \in DOMAIN journal[b] : journal'[b][i].legs = journal[b][i].legs
        BY <2>1, <2>3, <3>2, PostedPlaces DEF SameEvent
      <4>4. \A i \in DOMAIN journal'[b] : i \in DOMAIN journal[b] \/ i = Len(journal[b]) + 1
        BY <4>3
      <4> QED BY <4>1, <4>2, <4>3, <4>4 DEF HoldsNothing
    <3> QED BY <3>1, <3>2
  <2> HIDE DEF Goal
  <2> QED BY <1>5, <2>2, <2>3, EndsPosts
<1>6. CASE UNCHANGED vars
  BY <1>1, <1>6 DEF vars
<1> HIDE DEF Goal
<1> QED BY <1>2, <1>3, <1>4, <1>5, <1>6, StepKinds DEF Goal

\* The kind of a book is checked before the lock is taken and holds when the event
\* is posted, also by a reversal or an unwinding, whose legs come from the journal:
\* a cash account and a loan never hold a security.
THEOREM SecuritiesAreInInvestmentBooks == Spec => []OnlyInvestmentsHold
<1>1. Init => HoldsNothing
  BY DEF Init, HoldsNothing
<1>2. TypeOK /\ RequestInv /\ HoldsNothing /\ [Next]_vars => HoldsNothing'
  BY HoldsNothingStep DEF RequestInv
<1>3. HoldsNothing => OnlyInvestmentsHold
  BY DEF HoldsNothing, OnlyInvestmentsHold
<1> QED BY <1>1, <1>2, <1>3, TypeCorrect, RequestInvHolds, PTL DEF Spec

-----------------------------------------------------------------------------
(* The two halves of a transfer *)

\* Event i of b is a half of a transfer, and not the undoing of one; the book of
\* the other half.
IsHalf(b, i) == journal[b][i].role # "none" /\ journal[b][i].reverses = 0
Partner(e) == IF e.role = "out" THEN e.request.to ELSE e.request.book

\* A transfer_id names a book that was opened and, while that is there, a place in
\* its journal: so the place a new transfer is given names no other transfer.
TransfersIssued ==
  \A b \in Books : \A i \in DOMAIN journal[b] :
    LET t == journal[b][i].transfer
    IN  t # NoEvent => /\ books[t[1]] # "absent"
                       /\ books[t[1]] = "open" => t[2] <= Len(journal[t[1]])

\* A book has one half of a transfer at most.
HalvesUnique ==
  \A b \in Books : \A i, j \in DOMAIN journal[b] :
    IsHalf(b, i) /\ IsHalf(b, j) /\ journal[b][i].transfer = journal[b][j].transfer => i = j

\* The book of the other half was opened, so it is there, with that half, or deleted.
PartnersOpened ==
  \A b \in Books : \A i \in DOMAIN journal[b] :
    IsHalf(b, i) => books[Partner(journal[b][i])] # "absent"

TransfersFit == TransfersIssued /\ HalvesUnique /\ PartnersOpened /\ TransferHalvesAgree

\* A half of a transfer was posted by the request for it, on one of its two books.
LEMMA HalfIs ==
  ASSUME TypeOK, EventsFit, NEW b \in Books, NEW i \in DOMAIN journal[b], IsHalf(b, i)
  PROVE  LET e == journal[b][i]
             r == e.request
         IN  /\ r \in Requests /\ r.op = "transfer" /\ r.book \in Books /\ r.to \in Books
             /\ r.book # r.to /\ books[b] = "open"
             /\ e.transfer \in EventIds /\ e.transfer[1] = r.book /\ e.transfer # NoEvent
             /\ \/ e.role = "out" /\ b = r.book /\ Partner(e) = r.to /\ e.transfer[2] = i
                \/ e.role = "in" /\ b = r.to /\ Partner(e) = r.book
<1> DEFINE e == journal[b][i]
           r == e.request
<1>1. e \in Events /\ r \in Requests
  BY JournalledEvent DEF Events
<1>2. FitFor(r, b, i, e)
  BY DEF EventsFit
<1>3. books[b] = "open"
  BY DEF EventsFit
<1>4. e.role # "none" /\ e.reverses = 0
  BY DEF IsHalf
<1> HIDE DEF e
<1>5. r.op = "transfer"
  BY <1>1, <1>2, <1>4, LedgerAssumption DEF FitFor, RequestSet
<1>6. r.book \in Books /\ r.to \in Books
  BY <1>1, <1>5, RequestFields
<1>7. r.book # r.to
  BY <1>2, <1>5 DEF FitFor, Accepted
<1>8. /\ e.transfer \in EventIds /\ e.transfer[1] = r.book
      /\ \/ e.role = "out" /\ b = r.book /\ Partner(e) = r.to /\ e.transfer[2] = i
         \/ e.role = "in" /\ b = r.to /\ Partner(e) = r.book
  BY <1>2, <1>5 DEF FitFor, Partner
<1>9. e.transfer # NoEvent
  BY <1>8, LedgerAssumption
<1> QED BY <1>1, <1>3, <1>5, <1>6, <1>7, <1>8, <1>9 DEF e

\* A transfer_id names an event of a book.
LEMMA TransferIdIs ==
  ASSUME TypeOK, NEW b \in Books, NEW i \in DOMAIN journal[b], journal[b][i].transfer # NoEvent
  PROVE  LET t == journal[b][i].transfer
         IN  t \in EventIds /\ t[1] \in Books /\ t[2] \in Nat /\ t = <<t[1], t[2]>>
BY JournalledEvent DEF Events, EventIds

\* The trail of a transfer in one journal.
TrailIn(events, t) ==
  {<<e.request, e.status, e.reverses # 0>> :
     e \in {events[i] : i \in {k \in DOMAIN events : events[k].transfer = t}}}

LEMMA HalvesAgreeIn ==
  ASSUME TransferHalvesAgree, NEW b \in Books, NEW i \in DOMAIN journal[b], IsHalf(b, i),
         books[Partner(journal[b][i])] = "open"
  PROVE  TrailIn(journal[b], journal[b][i].transfer)
           = TrailIn(journal[Partner(journal[b][i])], journal[b][i].transfer)
BY DEF TransferHalvesAgree, IsHalf, Partner, Trail, TrailIn

\* A step that posts nothing: a journal stays as it is or goes with its book.
Quiet ==
  \A b \in Books :
    /\ journal'[b] = journal[b] \/ journal'[b] = << >>
    /\ books'[b] = "open" => journal'[b] = journal[b]
    /\ books[b] # "absent" => books'[b] \in {books[b], "deleted"}

LEMMA QuietKeepsTransfers ==
  ASSUME TypeOK, EventsFit, TransfersFit, Quiet
  PROVE  TransfersFit'
<1>1. ASSUME NEW b \in Books, NEW i \in DOMAIN journal'[b]
      PROVE  journal'[b] = journal[b] /\ i \in DOMAIN journal[b]
  BY <1>1 DEF Quiet
<1>2. TransfersIssued'
  <2> SUFFICES ASSUME NEW b \in Books, NEW i \in DOMAIN journal'[b], journal'[b][i].transfer # NoEvent
               PROVE  LET t == journal'[b][i].transfer
                      IN  /\ books'[t[1]] # "absent"
                          /\ books'[t[1]] = "open" => t[2] <= Len(journal'[t[1]])
    BY DEF TransfersIssued
  <2> DEFINE t == journal[b][i].transfer
  <2>1. journal'[b] = journal[b] /\ i \in DOMAIN journal[b] /\ t # NoEvent
    BY <1>1
  <2>2. t[1] \in Books
    BY <2>1, TransferIdIs
  <2>3. /\ books[t[1]] # "absent"
        /\ books[t[1]] = "open" => t[2] <= Len(journal[t[1]])
    BY <2>1 DEF TransfersFit, TransfersIssued
  <2>4. /\ books'[t[1]] = "open" => journal'[t[1]] = journal[t[1]]
        /\ books[t[1]] # "absent" => books'[t[1]] \in {books[t[1]], "deleted"}
    BY <2>2 DEF Quiet
  <2> HIDE DEF t
  <2>5. /\ books'[t[1]] # "absent"
        /\ books'[t[1]] = "open" => t[2] <= Len(journal'[t[1]])
    BY <2>3, <2>4
  <2> QED BY <2>1, <2>5 DEF t
<1>3. HalvesUnique'
  BY <1>1 DEF HalvesUnique, IsHalf, TransfersFit
<1>4. ASSUME NEW b \in Books, NEW i \in DOMAIN journal'[b],
             journal'[b][i].role # "none", journal'[b][i].reverses = 0
      PROVE  LET p == Partner(journal'[b][i])
             IN  /\ journal'[b] = journal[b] /\ i \in DOMAIN journal[b] /\ IsHalf(b, i)
                 /\ p \in Books /\ books[p] # "absent"
  <2>1. journal'[b] = journal[b] /\ i \in DOMAIN journal[b] /\ IsHalf(b, i)
    BY <1>1, <1>4 DEF IsHalf
  <2>2. Partner(journal[b][i]) \in Books
    BY <2>1, HalfIs
  <2> QED BY <2>1, <2>2 DEF TransfersFit, PartnersOpened
<1>5. PartnersOpened'
  BY <1>4 DEF PartnersOpened, IsHalf, Partner, Quiet
<1>6. TransferHalvesAgree'
  <2> SUFFICES ASSUME NEW b \in Books, NEW i \in DOMAIN journal'[b],
                      journal'[b][i].role # "none", journal'[b][i].reverses = 0,
                      books'[Partner(journal'[b][i])] = "open"
               PROVE  TrailIn(journal'[b], journal'[b][i].transfer)
                        = TrailIn(journal'[Partner(journal'[b][i])], journal'[b][i].transfer)
    BY DEF TransferHalvesAgree, Trail, TrailIn, Partner
  <2> DEFINE p == Partner(journal[b][i])
  <2>1. journal'[b] = journal[b] /\ i \in DOMAIN journal[b] /\ IsHalf(b, i) /\ p \in Books
        /\ books[p] # "absent"
    BY <1>4
  <2>2. journal'[p] = journal[p] /\ books[p] = "open"
    BY <2>1 DEF Quiet
  <2>3. TrailIn(journal[b], journal[b][i].transfer) = TrailIn(journal[p], journal[b][i].transfer)
    BY <2>1, <2>2, HalvesAgreeIn DEF TransfersFit
  <2> QED BY <2>1, <2>2, <2>3
<1> QED BY <1>2, <1>3, <1>5, <1>6 DEF TransfersFit

\* An event is appended to a journal and marks the one it reverses: how that changes
\* the trails in it.
Appended(old, new, n, e) ==
  /\ n \in Nat /\ DOMAIN old = 1..n /\ DOMAIN new = 1..(n + 1) /\ new[n + 1] = e
  /\ \A i \in DOMAIN old :
       /\ SameEvent(old[i], new[i])
       /\ new[i].status = IF i = e.reverses THEN "reversed" ELSE old[i].status

\* The trail of another transfer than that of the event and of the one it marks.
LEMMA OtherTrail ==
  ASSUME NEW old, NEW new, NEW n, NEW e, NEW t, Appended(old, new, n, e),
         e.transfer # t, e.reverses \in DOMAIN old => old[e.reverses].transfer # t
  PROVE  TrailIn(new, t) = TrailIn(old, t)
<1>1. \A i \in DOMAIN new : i \in DOMAIN old \/ i = n + 1
  BY DEF Appended
<1>2. {k \in DOMAIN new : new[k].transfer = t} = {k \in DOMAIN old : old[k].transfer = t}
  BY <1>1 DEF Appended, SameEvent
<1>3. ASSUME NEW i \in {k \in DOMAIN old : old[k].transfer = t}
      PROVE  new[i].request = old[i].request /\ new[i].status = old[i].status
             /\ new[i].reverses = old[i].reverses
  BY <1>3 DEF Appended, SameEvent
<1> DEFINE K == {k \in DOMAIN old : old[k].transfer = t}
<1>4. TrailIn(new, t) = {<<new[i].request, new[i].status, new[i].reverses # 0>> : i \in K}
  BY <1>2 DEF TrailIn
<1>5. TrailIn(old, t) = {<<old[i].request, old[i].status, old[i].reverses # 0>> : i \in K}
  BY DEF TrailIn
<1> HIDE DEF K
<1> QED BY <1>3, <1>4, <1>5 DEF K

\* The trail of a transfer that is posted now.
LEMMA FirstTrail ==
  ASSUME NEW old, NEW new, NEW n, NEW e, NEW t, Appended(old, new, n, e),
         e.transfer = t, \A i \in DOMAIN old : old[i].transfer # t
  PROVE  TrailIn(new, t) = {<<e.request, e.status, e.reverses # 0>>}
<1>1. {k \in DOMAIN new : new[k].transfer = t} = {n + 1}
  <2>1. \A i \in DOMAIN new : i \in DOMAIN old \/ i = n + 1
    BY DEF Appended
  <2> QED BY <2>1 DEF Appended, SameEvent
<1>2. new[n + 1] = e
  BY DEF Appended
<1> QED BY <1>1, <1>2 DEF TrailIn

\* The events of a trail that undo it.
Undoings(events, t) == {x \in TrailIn(events, t) : x[3] = TRUE}

\* The trail after e undid its half: that half, marked, e, and what undid it before.
Undone(old, e, t) ==
  Undoings(old, t) \cup {<<old[e.reverses].request, "reversed", FALSE>>, <<e.request, e.status, TRUE>>}

\* The appended event undoes the only half of t there is.
Undoes(old, new, n, e, t) ==
  /\ Appended(old, new, n, e) /\ e.transfer = t
  /\ e.reverses # 0 /\ e.reverses \in DOMAIN old
  /\ old[e.reverses].transfer = t /\ old[e.reverses].reverses = 0
  /\ \A i \in DOMAIN old : old[i].transfer = t /\ old[i].reverses = 0 => i = e.reverses

\* The trail of a transfer whose half is undone now.
LEMMA UndoneTrail ==
  ASSUME NEW old, NEW new, NEW n, NEW e, NEW t, Undoes(old, new, n, e, t)
  PROVE  TrailIn(new, t) = Undone(old, e, t)
<1> DEFINE h == e.reverses
<1>0. /\ Appended(old, new, n, e) /\ e.transfer = t /\ h # 0 /\ h \in DOMAIN old
      /\ old[h].transfer = t /\ old[h].reverses = 0
      /\ \A i \in DOMAIN old : old[i].transfer = t /\ old[i].reverses = 0 => i = h
  BY DEF Undoes
<1> DEFINE K == {k \in DOMAIN old : old[k].transfer = t}
           U == {k \in K : old[k].reverses # 0}
           Before(i) == <<old[i].request, old[i].status, old[i].reverses # 0>>
           After(i) == <<new[i].request, new[i].status, new[i].reverses # 0>>
<1>1. \A i \in DOMAIN new : i \in DOMAIN old \/ i = n + 1
  BY <1>0 DEF Appended
<1>2. {k \in DOMAIN new : new[k].transfer = t} = U \cup {h, n + 1}
  BY <1>0, <1>1 DEF Appended, SameEvent
<1>3. TrailIn(old, t) = {Before(i) : i \in K}
  BY DEF TrailIn
<1>4. TrailIn(new, t) = {After(i) : i \in U \cup {h, n + 1}}
  BY <1>2 DEF TrailIn
<1>5. ASSUME NEW i \in U PROVE After(i) = Before(i) /\ Before(i)[3] = TRUE
  BY <1>0, <1>5 DEF Appended, SameEvent
<1>6. After(h) = <<old[h].request, "reversed", FALSE>>
  BY <1>0 DEF Appended, SameEvent
<1>7. After(n + 1) = <<e.request, e.status, TRUE>>
  BY <1>0 DEF Appended
<1>8. \A i \in K : Before(i)[3] = (i \in U)
  BY <1>0
<1>9. {x \in {Before(i) : i \in K} : x[3] = TRUE} = {Before(i) : i \in U}
  <2> HIDE DEF Before
  <2>1. U \subseteq K
    OBVIOUS
  <2> HIDE DEF U, K
  <2> QED BY <1>5, <1>8, <2>1
<1> HIDE DEF Before, After, U, K
<1>10. {After(i) : i \in U \cup {h, n + 1}} = {After(i) : i \in U} \cup {After(h), After(n + 1)}
  OBVIOUS
<1>11. {After(i) : i \in U} = {Before(i) : i \in U}
  BY <1>5
<1> QED BY <1>3, <1>4, <1>6, <1>7, <1>9, <1>10, <1>11 DEF Undoings, Undone

LEMMA PostedAppends ==
  ASSUME TypeOK, NEW r \in Requests, NEW posting \in Postings(r), Posts(r, posting),
         NEW b \in DOMAIN posting
  PROVE  Appended(journal[b], journal'[b], Len(journal[b]), posting[b])
BY PostedPlaces DEF Appended

\* An event of a journal that may have been posted on is an old one or the posted one.
LEMMA OldOrPosted ==
  ASSUME TypeOK, NEW r \in Requests, NEW posting \in Postings(r), Posts(r, posting),
         NEW b \in Books, NEW i \in DOMAIN journal'[b]
  PROVE  \/ i \in DOMAIN journal[b] /\ SameEvent(journal[b][i], journal'[b][i])
         \/ b \in DOMAIN posting /\ i = Len(journal[b]) + 1 /\ journal'[b][i] = posting[b]
<1>1. CASE b \in DOMAIN posting
  <2>1. /\ Len(journal[b]) \in Nat /\ DOMAIN journal[b] = 1..Len(journal[b])
        /\ DOMAIN journal'[b] = 1..(Len(journal[b]) + 1)
        /\ journal'[b][Len(journal[b]) + 1] = posting[b]
        /\ \A k \in DOMAIN journal[b] : SameEvent(journal[b][k], journal'[b][k])
    BY <1>1, PostedPlaces
  <2>2. i \in DOMAIN journal[b] \/ i = Len(journal[b]) + 1
    BY <2>1
  <2> QED BY <1>1, <2>1, <2>2
<1>2. CASE b \notin DOMAIN posting
  BY <1>2, UntouchedBook DEF SameEvent
<1> QED BY <1>1, <1>2

LEMMA OtherTrailsSame ==
  ASSUME TypeOK, NEW r \in Requests, NEW posting \in Postings(r), Posts(r, posting),
         NEW b \in Books, NEW t,
         b \in DOMAIN posting =>
           /\ posting[b].transfer # t
           /\ posting[b].reverses \in DOMAIN journal[b] =>
                journal[b][posting[b].reverses].transfer # t
  PROVE  TrailIn(journal'[b], t) = TrailIn(journal[b], t)
<1>1. CASE b \in DOMAIN posting
  BY <1>1, PostedAppends, OtherTrail
<1>2. CASE b \notin DOMAIN posting
  BY <1>2, UntouchedBook
<1> QED BY <1>1, <1>2

\* What a posting has to see to, for the transfers to stay in order.
LEMMA PostingKeepsTransfers ==
  ASSUME TypeOK, EventsFit, TransfersFit,
         NEW r \in Requests, NEW posting \in Postings(r), Posts(r, posting),
         \A b \in DOMAIN posting : LET t == posting[b].transfer
                                   IN  t # NoEvent => books[t[1]] # "absent" /\ t[1] \in Books
                                                        /\ t[2] <= Len(journal'[t[1]]),
         \A b \in DOMAIN posting :
           posting[b].role # "none" /\ posting[b].reverses = 0 =>
             LET t == posting[b].transfer
                 p == Partner(posting[b])
             IN  /\ \A i \in DOMAIN journal[b] : journal[b][i].transfer # t
                 /\ books[p] # "absent"
                 /\ TrailIn(journal'[b], t) = TrailIn(journal'[p], t),
         \A b \in Books : \A i \in DOMAIN journal[b] :
           LET t == journal[b][i].transfer
               p == Partner(journal[b][i])
           IN  IsHalf(b, i) /\ books[p] = "open" => TrailIn(journal'[b], t) = TrailIn(journal'[p], t)
  PROVE  TransfersFit'
<1>0. books' = books
  BY DEF Posts, Post
<1>1. ASSUME NEW b \in Books
      PROVE  /\ Len(journal[b]) \in Nat /\ Len(journal'[b]) \in Nat
             /\ Len(journal[b]) <= Len(journal'[b])
  <2>1. CASE b \in DOMAIN posting
    <3>1. /\ Len(journal[b]) \in Nat /\ journal'[b] = WithEvent(b, posting[b]) /\ posting[b] \in Events
      BY <2>1, PostedPlaces, PostedBook
    <3> QED BY <3>1, WithEventIs
  <2>2. CASE b \notin DOMAIN posting
    <3>1. journal'[b] = journal[b] /\ Len(journal[b]) \in Nat
      BY <2>2, UntouchedBook DEF TypeOK
    <3> QED BY <3>1
  <2> QED BY <2>1, <2>2
<1>2. TransfersIssued'
  <2> SUFFICES ASSUME NEW b \in Books, NEW i \in DOMAIN journal'[b], journal'[b][i].transfer # NoEvent
               PROVE  LET t == journal'[b][i].transfer
                      IN  /\ books'[t[1]] # "absent"
                          /\ books'[t[1]] = "open" => t[2] <= Len(journal'[t[1]])
    BY DEF TransfersIssued
  <2>1. CASE i \in DOMAIN journal[b] /\ SameEvent(journal[b][i], journal'[b][i])
    <3> DEFINE t == journal[b][i].transfer
    <3>1. t = journal'[b][i].transfer /\ t # NoEvent
      BY <2>1 DEF SameEvent
    <3>2. t[1] \in Books /\ t[2] \in Nat
      BY <2>1, <3>1, TransferIdIs
    <3>3. books[t[1]] # "absent" /\ (books[t[1]] = "open" => t[2] <= Len(journal[t[1]]))
      BY <2>1, <3>1 DEF TransfersFit, TransfersIssued
    <3>4. /\ Len(journal[t[1]]) \in Nat /\ Len(journal'[t[1]]) \in Nat
          /\ Len(journal[t[1]]) <= Len(journal'[t[1]])
      BY <1>1, <3>2
    <3> HIDE DEF t
    <3>5. books[t[1]] = "open" => t[2] <= Len(journal'[t[1]])
      BY <3>2, <3>3, <3>4
    <3> QED BY <1>0, <3>1, <3>3, <3>5
  <2>2. CASE b \in DOMAIN posting /\ journal'[b][i] = posting[b]
    BY <1>0, <2>2
  <2> QED BY <2>1, <2>2, OldOrPosted
<1>3. HalvesUnique'
  <2> SUFFICES ASSUME NEW b \in Books, NEW i \in DOMAIN journal'[b], NEW j \in DOMAIN journal'[b],
                      journal'[b][i].role # "none", journal'[b][i].reverses = 0,
                      journal'[b][j].role # "none", journal'[b][j].reverses = 0,
                      journal'[b][i].transfer = journal'[b][j].transfer
               PROVE  i = j
    BY DEF HalvesUnique, IsHalf
  <2>1. CASE /\ i \in DOMAIN journal[b] /\ SameEvent(journal[b][i], journal'[b][i])
             /\ j \in DOMAIN journal[b] /\ SameEvent(journal[b][j], journal'[b][j])
    BY <2>1 DEF SameEvent, TransfersFit, HalvesUnique, IsHalf
  <2>2. ASSUME NEW k \in DOMAIN journal[b], SameEvent(journal[b][k], journal'[b][k]),
               b \in DOMAIN posting, posting[b].role # "none", posting[b].reverses = 0
        PROVE  journal'[b][k].transfer # posting[b].transfer
    BY <2>2 DEF SameEvent
  <2> QED BY <2>1, <2>2, OldOrPosted
<1>4. ASSUME NEW b \in Books, NEW i \in DOMAIN journal'[b],
             journal'[b][i].role # "none", journal'[b][i].reverses = 0
      PROVE  LET t == journal'[b][i].transfer
                 p == Partner(journal'[b][i])
             IN  /\ books[p] # "absent"
                 /\ books[p] = "open" => TrailIn(journal'[b], t) = TrailIn(journal'[p], t)
  <2>1. CASE i \in DOMAIN journal[b] /\ SameEvent(journal[b][i], journal'[b][i])
    <3>1. /\ IsHalf(b, i) /\ Partner(journal[b][i]) = Partner(journal'[b][i])
          /\ journal[b][i].transfer = journal'[b][i].transfer
      BY <1>4, <2>1 DEF SameEvent, IsHalf, Partner
    <3>2. books[Partner(journal[b][i])] # "absent"
      BY <2>1, <3>1 DEF TransfersFit, PartnersOpened
    <3> QED BY <2>1, <3>1, <3>2
  <2>2. CASE b \in DOMAIN posting /\ journal'[b][i] = posting[b]
    BY <1>4, <2>2
  <2> QED BY <2>1, <2>2, OldOrPosted
<1>5. PartnersOpened'
  BY <1>0, <1>4 DEF PartnersOpened, IsHalf, Partner
<1>6. TransferHalvesAgree'
  BY <1>0, <1>4 DEF TransferHalvesAgree, Trail, TrailIn, Partner
<1> QED BY <1>2, <1>3, <1>5, <1>6 DEF TransfersFit

\* A record and a reversal post nothing of a transfer and mark nothing of one: what a
\* reversal located is still no half of a transfer.
LEMMA PlainKeepsTransfers ==
  ASSUME TypeOK, EventsFit, TransfersFit, NEW r \in Requests, r.op \in {"record", "reverse"},
         r.op = "reverse" /\ books[r.book] = "open" => journal[r.book][r.target].transfer = NoEvent,
         NEW posting \in Postings(r), PostingOf(r, posting), Posts(r, posting)
  PROVE  TransfersFit'
<1>1. \A b \in DOMAIN posting :
        /\ b = r.book /\ posting[b].role = "none" /\ posting[b].transfer = NoEvent
        /\ r.op = "reverse" => posting[b].reverses = r.target
        /\ r.op = "record" => posting[b].reverses = 0
  BY DEF PostingOf, Event
<1>2. \A b \in DOMAIN posting : books[b] = "open" /\ 0 \notin DOMAIN journal[b]
  BY PostedPlaces
<1>3. ASSUME NEW b \in Books, NEW t, t # NoEvent
      PROVE  TrailIn(journal'[b], t) = TrailIn(journal[b], t)
  <2>1. b \in DOMAIN posting =>
          /\ posting[b].transfer # t
          /\ posting[b].reverses \in DOMAIN journal[b] =>
               journal[b][posting[b].reverses].transfer # t
    BY <1>1, <1>2, <1>3
  <2> QED BY <2>1, OtherTrailsSame
<1>4. ASSUME NEW b \in Books, NEW i \in DOMAIN journal[b], IsHalf(b, i),
             books[Partner(journal[b][i])] = "open"
      PROVE  TrailIn(journal'[b], journal[b][i].transfer)
               = TrailIn(journal'[Partner(journal[b][i])], journal[b][i].transfer)
  <2>1. journal[b][i].transfer # NoEvent /\ Partner(journal[b][i]) \in Books
    BY <1>4, HalfIs
  <2>2. TrailIn(journal[b], journal[b][i].transfer)
          = TrailIn(journal[Partner(journal[b][i])], journal[b][i].transfer)
    BY <1>4, HalvesAgreeIn DEF TransfersFit
  <2> QED BY <1>3, <2>1, <2>2
<1> QED BY <1>1, <1>4, PostingKeepsTransfers

\* A transfer posts both halves under a transfer_id no event has.
LEMMA TransferKeepsTransfers ==
  ASSUME TypeOK, EventsFit, TransfersFit, NEW r \in Requests, r.op = "transfer", Accepted(r),
         NEW posting \in Postings(r), PostingOf(r, posting), Posts(r, posting)
  PROVE  TransfersFit'
<1> DEFINE t == <<r.book, Len(journal[r.book]) + 1>>
<1>1. r.book \in Books /\ r.to \in Books /\ r.book # r.to
  BY RequestFields DEF Accepted
<1>2. /\ DOMAIN posting = {r.book, r.to}
      /\ posting[r.book].role = "out" /\ posting[r.to].role = "in"
      /\ \A b \in {r.book, r.to} : /\ posting[b].request = r /\ posting[b].status = "posted"
                                   /\ posting[b].reverses = 0 /\ posting[b].transfer = t
  BY <1>1 DEF PostingOf, Event, NextPlace
<1>3. \A b \in {r.book, r.to} : books[b] = "open" /\ 0 \notin DOMAIN journal[b]
  BY <1>2, PostedPlaces
<1>4. /\ Len(journal[r.book]) \in Nat
      /\ r.book \in DOMAIN posting => DOMAIN journal'[r.book] = 1..(Len(journal[r.book]) + 1)
  BY <1>2, PostedPlaces
<1>5. ASSUME NEW b \in Books, NEW i \in DOMAIN journal[b]
      PROVE  journal[b][i].transfer # t
  <2> SUFFICES ASSUME journal[b][i].transfer = t PROVE FALSE
    OBVIOUS
  <2>1. journal[b][i].transfer # NoEvent
    <3>1. t \in EventIds
      BY <1>1, <1>4 DEF EventIds
    <3> QED BY <3>1, LedgerAssumption
  <2>2. books[t[1]] = "open" => t[2] <= Len(journal[t[1]])
    BY <2>1 DEF TransfersFit, TransfersIssued
  <2> QED BY <1>3, <1>4, <2>2
<1>6. \A b \in {r.book, r.to} : TrailIn(journal'[b], t) = {<<r, "posted", FALSE>>}
  <2> SUFFICES ASSUME NEW b \in {r.book, r.to}
               PROVE  TrailIn(journal'[b], t) = {<<r, "posted", FALSE>>}
    OBVIOUS
  <2>1. Appended(journal[b], journal'[b], Len(journal[b]), posting[b])
    BY <1>2, PostedAppends
  <2>2. /\ posting[b].request = r /\ posting[b].status = "posted"
        /\ posting[b].reverses = 0 /\ posting[b].transfer = t
    BY <1>2
  <2>3. \A i \in DOMAIN journal[b] : journal[b][i].transfer # t
    BY <1>1, <1>5
  <2> HIDE DEF t
  <2>4. TrailIn(journal'[b], t)
          = {<<posting[b].request, posting[b].status, posting[b].reverses # 0>>}
    BY <2>1, <2>2, <2>3, FirstTrail
  <2> QED BY <2>2, <2>4
<1>7. ASSUME NEW b \in Books, NEW u, u # t
      PROVE  TrailIn(journal'[b], u) = TrailIn(journal[b], u)
  <2>1. b \in DOMAIN posting =>
          /\ posting[b].transfer # u
          /\ posting[b].reverses \in DOMAIN journal[b] =>
               journal[b][posting[b].reverses].transfer # u
    BY <1>2, <1>3, <1>7
  <2> QED BY <2>1, OtherTrailsSame
<1>8. ASSUME NEW b \in Books, NEW i \in DOMAIN journal[b], IsHalf(b, i),
             books[Partner(journal[b][i])] = "open"
      PROVE  TrailIn(journal'[b], journal[b][i].transfer)
               = TrailIn(journal'[Partner(journal[b][i])], journal[b][i].transfer)
  <2>1. journal[b][i].transfer # t /\ Partner(journal[b][i]) \in Books
    BY <1>5, <1>8, HalfIs
  <2>2. TrailIn(journal[b], journal[b][i].transfer)
          = TrailIn(journal[Partner(journal[b][i])], journal[b][i].transfer)
    BY <1>8, HalvesAgreeIn DEF TransfersFit
  <2> QED BY <1>7, <2>1, <2>2
<1>9. \A b \in {r.book, r.to} : Partner(posting[b]) \in {r.book, r.to}
  BY <1>2 DEF Partner
<1>10. t[1] = r.book /\ t[2] = Len(journal[r.book]) + 1 /\ t[2] <= Len(journal'[r.book])
  <2>1. journal'[r.book] = WithEvent(r.book, posting[r.book]) /\ posting[r.book] \in Events
    BY <1>2, PostedBook
  <2>2. Len(journal'[r.book]) = Len(journal[r.book]) + 1
    BY <1>1, <2>1, WithEventIs
  <2> QED BY <1>4, <2>2
<1> HIDE DEF t
<1>11. \A b \in DOMAIN posting :
         /\ posting[b].transfer # NoEvent => books[posting[b].transfer[1]] # "absent"
              /\ posting[b].transfer[1] \in Books
              /\ posting[b].transfer[2] <= Len(journal'[posting[b].transfer[1]])
  <2> SUFFICES ASSUME NEW b \in DOMAIN posting
               PROVE  /\ books[posting[b].transfer[1]] # "absent"
                      /\ posting[b].transfer[1] \in Books
                      /\ posting[b].transfer[2] <= Len(journal'[posting[b].transfer[1]])
    OBVIOUS
  <2>1. posting[b].transfer = t
    BY <1>2
  <2>2. r.book \in Books /\ books[r.book] # "absent"
    BY <1>1, <1>3
  <2> QED BY <1>10, <2>1, <2>2
<1>12. \A b \in DOMAIN posting :
         /\ \A i \in DOMAIN journal[b] : journal[b][i].transfer # posting[b].transfer
         /\ books[Partner(posting[b])] # "absent"
         /\ TrailIn(journal'[b], posting[b].transfer)
              = TrailIn(journal'[Partner(posting[b])], posting[b].transfer)
  <2> SUFFICES ASSUME NEW b \in DOMAIN posting
               PROVE  /\ \A i \in DOMAIN journal[b] : journal[b][i].transfer # posting[b].transfer
                      /\ books[Partner(posting[b])] # "absent"
                      /\ TrailIn(journal'[b], posting[b].transfer)
                           = TrailIn(journal'[Partner(posting[b])], posting[b].transfer)
    OBVIOUS
  <2>1. b \in {r.book, r.to} /\ b \in Books /\ posting[b].transfer = t
    BY <1>1, <1>2
  <2>2. Partner(posting[b]) \in {r.book, r.to}
    BY <1>9, <2>1
  <2>3. \A i \in DOMAIN journal[b] : journal[b][i].transfer # t
    BY <1>5, <2>1
  <2>4. books[Partner(posting[b])] # "absent"
    BY <1>1, <1>3, <2>2
  <2>5. TrailIn(journal'[b], t) = TrailIn(journal'[Partner(posting[b])], t)
    BY <1>6, <2>1, <2>2
  <2> QED BY <2>1, <2>3, <2>4, <2>5
<1> QED BY <1>8, <1>11, <1>12, PostingKeepsTransfers

\* Unwinding a transfer undoes both halves: the incoming one it finds is the one
\* that was posted with the outgoing one.
LEMMA UnwindKeepsTransfers ==
  ASSUME TypeOK, EventsFit, TransfersFit, NEW r \in Requests, r.op = "unwind",
         NEW posting \in Postings(r), PostingOf(r, posting), Posts(r, posting)
  PROVE  TransfersFit'
<1> DEFINE t == <<r.book, r.target>>
           in == InHalf(r.book, r.target)
           half(b) == IF b = r.book THEN r.target ELSE in[2]
           out == journal[r.book][r.target]
           to == out.request.to
<1>1. /\ IsTransfer(r.book, r.target) /\ DOMAIN posting = {r.book, in[1]}
      /\ \A b \in {r.book, in[1]} :
           /\ posting[b].request = r /\ posting[b].status = "posted"
           /\ posting[b].reverses = half(b) /\ posting[b].transfer = t
  <2>1. /\ IsTransfer(r.book, r.target)
        /\ posting = [b \in {r.book, in[1]} |->
                        Event(r, Invert(journal[b][half(b)].legs), half(b), t, journal[b][half(b)].role)]
    BY DEF PostingOf
  <2> HIDE DEF t, in, half
  <2>2. DOMAIN posting = {r.book, in[1]}
    BY <2>1
  <2>3. ASSUME NEW b \in {r.book, in[1]}
        PROVE  /\ posting[b].request = r /\ posting[b].status = "posted"
               /\ posting[b].reverses = half(b) /\ posting[b].transfer = t
    <3>1. PICK legs, role : posting[b] = Event(r, legs, half(b), t, role)
      BY <2>1
    <3> QED
      BY <3>1 DEF Event
  <2> QED
    BY <2>1, <2>2, <2>3
<1>2. r.book \in Books /\ r.target \in DOMAIN journal[r.book] /\ IsHalf(r.book, r.target)
      /\ out.role = "out" /\ out.transfer = t
  <2>1. r.book \in Books
    BY RequestFields
  <2>2. IsTransfer(r.book, r.target)
    BY <1>1
  <2>3. r.target \in DOMAIN journal[r.book] /\ IsOutHalf(r.book, r.target)
    BY <2>2 DEF IsTransfer, IsOutHalf, Exists
  <2>4. out.role = "out" /\ out.transfer = t
    BY <2>3 DEF IsOutHalf
  <2>5. IsHalf(r.book, r.target)
    BY <2>3 DEF IsOutHalf, IsHalf
  <2> QED
    BY <2>1, <2>3, <2>4, <2>5
<1>3. /\ out.request.op = "transfer" /\ out.request.book = r.book /\ to \in Books
      /\ to # r.book /\ books[r.book] = "open" /\ Partner(out) = to /\ t # NoEvent
  <2> HIDE DEF t
  <2> QED BY <1>2, HalfIs
<1>4. in[1] \in Books /\ in[2] \in DOMAIN journal[in[1]] /\ IsHalf(in[1], in[2])
      /\ journal[in[1]][in[2]].transfer = t /\ journal[in[1]][in[2]].role = "in"
  <2>1. IsTransfer(r.book, r.target)
    BY <1>1
  <2> QED BY <2>1, InHalfIs, SMTT(40) DEF IsHalf
<1> HIDE DEF in
\* A half of this transfer, on a book whose partner is there, was posted by the
\* request of the outgoing half.
<1>5. ASSUME NEW b \in Books, NEW i \in DOMAIN journal[b], IsHalf(b, i), journal[b][i].transfer = t,
             b # r.book
      PROVE  /\ b = to /\ Partner(journal[b][i]) = r.book
             /\ TrailIn(journal[b], t) = TrailIn(journal[r.book], t)
             /\ journal[b][i].request = out.request
  <2> DEFINE e == journal[b][i]
  <2>1. /\ e.request.op = "transfer" /\ e.transfer[1] = e.request.book /\ e.reverses = 0
        /\ \/ e.role = "out" /\ b = e.request.book
           \/ e.role = "in" /\ b = e.request.to /\ Partner(e) = e.request.book
    <3> HIDE DEF t
    <3> QED BY <1>5, HalfIs DEF IsHalf
  <2>2. e.request.book = r.book /\ Partner(e) = r.book /\ b = e.request.to
    BY <1>5, <2>1
  <2>3. TrailIn(journal[b], t) = TrailIn(journal[r.book], t)
    <3> HIDE DEF t
    <3> QED BY <1>3, <1>5, <2>2, HalvesAgreeIn DEF TransfersFit
  <2>4. <<e.request, e.status, FALSE>> \in TrailIn(journal[b], t)
    <3> HIDE DEF t
    <3> QED BY <1>5, <2>1 DEF TrailIn
  <2>5. PICK k \in DOMAIN journal[r.book] :
          /\ journal[r.book][k].transfer = t
          /\ <<e.request, e.status, FALSE>> =
               <<journal[r.book][k].request, journal[r.book][k].status, journal[r.book][k].reverses # 0>>
    <3> HIDE DEF t, e
    <3>1. <<e.request, e.status, FALSE>> \in TrailIn(journal[r.book], t)
      BY <2>3, <2>4
    <3> QED BY <3>1 DEF TrailIn
  <2>6. journal[r.book][k].request = e.request /\ journal[r.book][k].reverses = 0
    BY <2>5
  <2>7. IsHalf(r.book, k)
    <3>1. FitFor(e.request, r.book, k, journal[r.book][k])
      BY <1>2, <2>6 DEF EventsFit
    <3> QED BY <2>1, <2>6, <3>1 DEF FitFor, IsHalf
  <2>8. k = r.target
    BY <1>2, <2>5, <2>7 DEF TransfersFit, HalvesUnique
  <2> QED BY <2>2, <2>3, <2>6, <2>8
<1>6. in[1] = r.book => in[2] = r.target
  BY <1>2, <1>4 DEF TransfersFit, HalvesUnique
<1>7. in[1] # r.book
  BY <1>2, <1>4, <1>6
<1>8. in[1] = to /\ journal[to][in[2]].request = out.request
      /\ TrailIn(journal[to], t) = TrailIn(journal[r.book], t)
  BY <1>4, <1>5, <1>7
<1>9. \A b \in {r.book, to} :
        /\ b \in DOMAIN posting
        /\ half(b) \in DOMAIN journal[b] /\ IsHalf(b, half(b)) /\ half(b) # 0
        /\ journal[b][half(b)].transfer = t /\ journal[b][half(b)].request = out.request
        /\ posting[b].reverses = half(b)
  <2>1. r.target # 0 /\ in[2] # 0
    BY <1>2, <1>4, JournalledEvent
  <2> HIDE DEF t
  <2> QED BY <1>1, <1>2, <1>3, <1>4, <1>8, <2>1
<1>10. \A b \in {r.book, to} :
         TrailIn(journal'[b], t) = Undoings(journal[r.book], t)
                                     \cup {<<out.request, "reversed", FALSE>>, <<r, "posted", TRUE>>}
  <2> SUFFICES ASSUME NEW b \in {r.book, to}
               PROVE  TrailIn(journal'[b], t)
                        = Undoings(journal[r.book], t)
                            \cup {<<out.request, "reversed", FALSE>>, <<r, "posted", TRUE>>}
    OBVIOUS
  <2> DEFINE h == half(b)
  <2>1. Appended(journal[b], journal'[b], Len(journal[b]), posting[b])
    BY <1>9, PostedAppends
  <2>2. /\ posting[b].request = r /\ posting[b].status = "posted"
        /\ posting[b].reverses = h /\ posting[b].transfer = t
    BY <1>1, <1>8, <1>9
  <2>3. /\ h \in DOMAIN journal[b] /\ h # 0 /\ IsHalf(b, h)
        /\ journal[b][h].transfer = t /\ journal[b][h].request = out.request
    BY <1>9
  <2>4. \A i \in DOMAIN journal[b] : journal[b][i].transfer = t /\ journal[b][i].reverses = 0 => i = h
    <3> SUFFICES ASSUME NEW i \in DOMAIN journal[b],
                        journal[b][i].transfer = t, journal[b][i].reverses = 0
                 PROVE  i = h
      OBVIOUS
    <3>1. b \in Books
      BY <1>2, <1>3
    <3>2. IsHalf(b, i)
      <4>1. FitFor(journal[b][i].request, b, i, journal[b][i]) /\ journal[b][i].request \in Requests
        BY <3>1, JournalledEvent DEF EventsFit, Events
      <4>2. journal[b][i].transfer # NoEvent
        BY <1>3
      <4> HIDE DEF t
      <4> QED BY <4>1, <4>2, LedgerAssumption DEF FitFor, IsHalf, RequestSet
    <3> HIDE DEF h, t
    <3> QED BY <2>3, <3>1, <3>2 DEF TransfersFit, HalvesUnique
  <2>5. TrailIn(journal[b], t) = TrailIn(journal[r.book], t)
    BY <1>8
  <2>6. posting[b].reverses # 0 /\ journal[b][h].reverses = 0
    BY <2>2, <2>3 DEF IsHalf
  <2> DEFINE old == journal[b]
             new == journal'[b]
             n == Len(journal[b])
             e == posting[b]
  <2> HIDE DEF h, half, t, out
  <2>7. Undoes(old, new, n, e, t)
    BY <2>1, <2>2, <2>3, <2>4, <2>6 DEF Undoes
  <2>8. old[e.reverses] = journal[b][h]
    BY <2>2
  <2> HIDE DEF old, new, n, e
  <2>9. TrailIn(new, t) = Undone(old, e, t)
    BY <2>7, UndoneTrail
  <2>10. TrailIn(journal'[b], t) = Undoings(journal[b], t)
                                     \cup {<<journal[b][h].request, "reversed", FALSE>>,
                                           <<posting[b].request, posting[b].status, TRUE>>}
    BY <2>8, <2>9 DEF old, new, e, Undone
  <2> QED BY <2>2, <2>3, <2>5, <2>10 DEF Undoings
<1>11. ASSUME NEW b \in Books, NEW u, u # t
       PROVE  TrailIn(journal'[b], u) = TrailIn(journal[b], u)
  <2> HIDE DEF t, half
  <2>1. b \in DOMAIN posting =>
          /\ posting[b].transfer # u
          /\ journal[b][posting[b].reverses].transfer # u
    <3> SUFFICES ASSUME b \in DOMAIN posting
                 PROVE  posting[b].transfer = t /\ journal[b][posting[b].reverses].transfer = t
      BY <1>11
    <3>1. b \in {r.book, to}
      BY <1>1, <1>8
    <3>2. posting[b].reverses = half(b) /\ journal[b][half(b)].transfer = t
      BY <1>9, <3>1
    <3>3. posting[b].transfer = t
      BY <1>1
    <3> QED BY <3>2, <3>3
  <2> QED BY <2>1, OtherTrailsSame
<1>12. ASSUME NEW b \in Books, NEW i \in DOMAIN journal[b], IsHalf(b, i),
              books[Partner(journal[b][i])] = "open"
       PROVE  TrailIn(journal'[b], journal[b][i].transfer)
                = TrailIn(journal'[Partner(journal[b][i])], journal[b][i].transfer)
  <2> DEFINE p == Partner(journal[b][i])
             u == journal[b][i].transfer
  <2>1. p \in Books
    BY <1>12, HalfIs
  <2>2. CASE u = t
    <3>1. b \in {r.book, to} /\ p \in {r.book, to}
      <4>1. CASE b # r.book
        BY <1>5, <1>12, <2>2, <4>1
      <4>2. CASE b = r.book
        <5>1. i = r.target
          BY <1>2, <1>12, <2>2, <4>2 DEF TransfersFit, HalvesUnique
        <5> QED BY <1>3, <4>2, <5>1
      <4> QED BY <4>1, <4>2
    <3> HIDE DEF p, u, t, out, to
    <3> QED BY <1>10, <2>2, <3>1 DEF p, u
  <2>3. CASE u # t
    <3>1. TrailIn(journal[b], u) = TrailIn(journal[p], u)
      BY <1>12, HalvesAgreeIn DEF TransfersFit
    <3> QED BY <1>11, <2>1, <2>3, <3>1
  <2> QED BY <2>2, <2>3
<1>13. t[1] = r.book /\ t[2] = r.target /\ t[2] <= Len(journal'[r.book])
  <2>1. journal'[r.book] = WithEvent(r.book, posting[r.book]) /\ posting[r.book] \in Events
    BY <1>1, PostedBook
  <2>2. Len(journal'[r.book]) = Len(journal[r.book]) + 1
    BY <1>2, <2>1, WithEventIs
  <2>3. Len(journal[r.book]) \in Nat /\ DOMAIN journal[r.book] = 1..Len(journal[r.book])
    BY <1>2, <2>1, WithEventAt
  <2> QED BY <1>2, <2>2, <2>3
<1>14. \A b \in DOMAIN posting : posting[b].reverses # 0 /\ posting[b].transfer = t
  BY <1>1, <1>8, <1>9
<1>15. books[r.book] # "absent" /\ r.book \in Books
  BY <1>2, <1>3
<1> HIDE DEF t, half, out, to
<1>16. \A b \in DOMAIN posting :
         /\ posting[b].transfer # NoEvent => books[posting[b].transfer[1]] # "absent"
              /\ posting[b].transfer[1] \in Books
              /\ posting[b].transfer[2] <= Len(journal'[posting[b].transfer[1]])
  BY <1>13, <1>14, <1>15
<1> QED BY <1>12, <1>14, <1>16, PostingKeepsTransfers

LEMMA TransfersStep == TypeOK /\ RequestInv /\ TransfersFit /\ [Next]_vars => TransfersFit'
<1> SUFFICES ASSUME TypeOK, RequestInv, TransfersFit, [Next]_vars PROVE TransfersFit'
  OBVIOUS
<1>1. EventsFit /\ SessionsFit
  BY DEF RequestInv
<1>2. CASE UNCHANGED store
  <2>1. Quiet
    BY <1>2 DEF Quiet, store
  <2> QED BY <1>1, <2>1, QuietKeepsTransfers
<1>3. ASSUME NEW c \in Books, CreateBook(c) PROVE TransfersFit'
  <2>1. Quiet
    BY <1>3 DEF CreateBook, Quiet, TypeOK
  <2> QED BY <1>1, <2>1, QuietKeepsTransfers
<1>4. ASSUME NEW c \in Books, DeleteBook(c) PROVE TransfersFit'
  <2>1. Quiet
    BY <1>4 DEF DeleteBook, Quiet, TypeOK
  <2> QED BY <1>1, <2>1, QuietKeepsTransfers
<1>5. ASSUME NEW w \in Workers, Ends(w) PROVE TransfersFit'
  <2> DEFINE r == session[w].request
  <2>1. /\ r \in Requests /\ Accepted(r)
        /\ r.op = "reverse" /\ books[r.book] = "open" => journal[r.book][r.target].transfer = NoEvent
    BY <1>1, <1>5, EndsPosts DEF SessionsFit, SessionFit
  <2>2. CASE Refuse(w, r)
    BY <1>2, <2>2 DEF Refuse
  <2>3. ASSUME NEW posting \in Postings(r), PostingOf(r, posting), Posts(r, posting)
        PROVE  TransfersFit'
    <3> HIDE DEF r
    <3>1. r.op \in {"record", "reverse", "transfer", "unwind"}
      BY <2>1, LedgerAssumption DEF RequestSet
    <3> QED BY <1>1, <2>1, <2>3, <3>1, PlainKeepsTransfers, TransferKeepsTransfers, UnwindKeepsTransfers
  <2> QED BY <1>5, <2>2, <2>3, EndsPosts
<1>6. CASE UNCHANGED vars
  BY <1>2, <1>6 DEF vars, store
<1> QED BY <1>2, <1>3, <1>4, <1>5, <1>6, StepKinds

LEMMA TransfersFitHolds == Spec => []TransfersFit
<1>1. Init => TransfersFit
  BY DEF Init, TransfersFit, TransfersIssued, HalvesUnique, PartnersOpened, TransferHalvesAgree
<1> QED BY <1>1, TransfersStep, TypeCorrect, RequestInvHolds, PTL DEF Spec

\* A transfer is whole: whatever else is posted, reversed, unwound or deleted, and
\* although an unwinding decides on what it read earlier and finds the incoming half
\* by its transfer_id, the two books, while both are there, say the same of it: what
\* request posted it, which ones undid it, and whether it stands.
THEOREM TransfersAreWhole == Spec => []TransferHalvesAgree
<1>1. TransfersFit => TransferHalvesAgree
  BY DEF TransfersFit
<1> QED BY <1>1, TransfersFitHolds, PTL

-----------------------------------------------------------------------------
(* Retries *)

\* The event a request posted passes the checks that its retry makes.
LEMMA PostedIsFound ==
  ASSUME TypeOK, EventsFit, TransfersFit, NEW r \in Requests, r.op = "transfer",
         \A b \in BooksOf(r) : books[b] = "open",
         NEW i \in DOMAIN journal[r.book], journal[r.book][i].request = r
  PROVE  IsTransfer(r.book, i) /\ Transferable(r)
<1> DEFINE e == journal[r.book][i]
           t == <<r.book, i>>
<1>1. r.book \in Books /\ r.to \in Books /\ books[r.book] = "open" /\ books[r.to] = "open"
  BY RequestFields DEF BooksOf
<1>2. FitFor(r, r.book, i, e)
  BY <1>1 DEF EventsFit
<1>3. Accepted(r) /\ Transferable(r)
  BY <1>1, <1>2 DEF FitFor, Accepted, Transferable
<1>4. IsHalf(r.book, i)
  BY <1>2 DEF FitFor, IsHalf
<1>5. e.role = "out" /\ e.transfer = t /\ e.reverses = 0 /\ Partner(e) = r.to
  <2>1. /\ e.transfer \in EventIds /\ e.transfer[1] = r.book
        /\ e.role = "out" /\ e.transfer[2] = i /\ Partner(e) = r.to
    BY <1>1, <1>3, <1>4, HalfIs DEF Accepted
  <2>2. e.transfer = <<e.transfer[1], e.transfer[2]>>
    BY <2>1 DEF EventIds
  <2> QED BY <1>4, <2>1, <2>2 DEF IsHalf
<1>6. IsOutHalf(r.book, i)
  BY <1>5 DEF IsOutHalf, Exists
<1>7. TrailIn(journal[r.book], t) = TrailIn(journal[r.to], t)
  <2>1. e.transfer = t
    BY <1>5
  <2> HIDE DEF t
  <2> QED BY <1>1, <1>4, <1>5, <2>1, HalvesAgreeIn DEF TransfersFit
<1>8. <<r, e.status, FALSE>> \in TrailIn(journal[r.to], t)
  <2>1. <<r, e.status, FALSE>> \in TrailIn(journal[r.book], t)
    BY <1>5 DEF TrailIn
  <2> QED BY <1>7, <2>1
<1>9. PICK k \in DOMAIN journal[r.to] :
        /\ journal[r.to][k].transfer = t
        /\ <<r, e.status, FALSE>> =
             <<journal[r.to][k].request, journal[r.to][k].status, journal[r.to][k].reverses # 0>>
  <2> HIDE DEF t, e
  <2> QED BY <1>8 DEF TrailIn
<1>10. journal[r.to][k].request = r /\ journal[r.to][k].reverses = 0
  BY <1>9
<1>11. FitFor(r, r.to, k, journal[r.to][k])
  BY <1>1, <1>10 DEF EventsFit
<1>12. journal[r.to][k].role = "in"
  BY <1>3, <1>11 DEF FitFor, Accepted
<1>13. <<r.to, k>> \in InHalves(t)
  BY <1>1, <1>9, <1>10, <1>12 DEF InHalves
<1> QED BY <1>3, <1>6, <1>13 DEF IsTransfer

\* Only the first check of r by w can turn w away.
LEMMA TurnedAwayByCheck ==
  ASSUME TypeOK, [Next]_vars, NEW w \in Workers, NEW r \in Requests, TurnedAway(w, r)
  PROVE  \/ RecordTransaction(w, r) \/ ReverseTransaction(w, r)
         \/ TransferCash(w, r) \/ UnwindTransfer(w, r)
<1>1. session[w].state \in {"idle", "answered", "refused"} /\ session'[w] # session[w]
      /\ session'[w].state = "refused" /\ session'[w].request = r
  BY DEF TurnedAway, Free
<1>2. ASSUME NEW v \in Workers, NEW state, NEW q, NEW e, Become(v, state, q, e)
      PROVE  v = w /\ q = r /\ state = "refused"
  BY <1>1, <1>2 DEF Become, TypeOK
<1>3. ASSUME NEW b \in Books, CreateBook(b) \/ DeleteBook(b) PROVE FALSE
  BY <1>1, <1>3 DEF CreateBook, DeleteBook
<1>4. ASSUME NEW v \in Workers, CheckReversal(v) \/ CheckUnwind(v) PROVE FALSE
  <2>1. session[v].state = "located"
    BY <1>4 DEF CheckReversal, CheckUnwind, Serving
  <2>2. \E q \in Requests : Serves(v, q)
    BY <1>4, CheckingStep
  <2>3. v = w
    BY <1>2, <2>2 DEF Serves
  <2> QED BY <1>1, <2>1, <2>3
<1>5. ASSUME NEW v \in Workers, Ends(v) PROVE FALSE
  <2>1. session[v].state = "cleared" /\ \E q \in Requests : Serves(v, q)
    BY <1>5, EndingStep DEF Ends
  <2>2. v = w
    BY <1>2, <2>1 DEF Serves
  <2> QED BY <1>1, <2>1, <2>2
<1>6. ASSUME NEW v \in Workers, LoseRequest(v) PROVE FALSE
  BY <1>2, <1>6 DEF LoseRequest
<1>7. ~UNCHANGED vars
  BY <1>1 DEF vars
<1>8. PICK v \in Workers : Start(v)
  BY <1>3, <1>4, <1>5, <1>6, <1>7, StepKinds
<1>9. PICK q \in Requests : \/ RecordTransaction(v, q) \/ ReverseTransaction(v, q)
                            \/ TransferCash(v, q) \/ UnwindTransfer(v, q)
  BY <1>8 DEF Start
<1>10. Serves(v, q)
  BY <1>9, ReadingStep
<1>11. v = w /\ q = r
  BY <1>2, <1>10 DEF Serves
<1> QED BY <1>9, <1>11

\* Sending a posting or a transfer again after it went through is never refused
\* while its books are there: the event it posted is the only one with its request
\* id, names it, and, of a transfer, still has its other half.
THEOREM RetriesAreAnswered == Spec => RetryIsAnswered
<1>1. TypeOK /\ OneEventPerRequest /\ RequestInv /\ TransfersFit /\ [Next]_vars =>
        [\A w \in Workers, r \in Requests :
           (r.op \in {"record", "transfer"} /\ (\A b \in BooksOf(r) : books[b] = "open")
              /\ TurnedAway(w, r))
             => \A i \in Used(r.book, r.rid) : journal[r.book][i].request # r]_vars
  <2> SUFFICES ASSUME TypeOK, OneEventPerRequest, EventsFit, TransfersFit, [Next]_vars,
                      NEW w \in Workers, NEW r \in Requests, r.op \in {"record", "transfer"},
                      \A b \in BooksOf(r) : books[b] = "open", TurnedAway(w, r),
                      NEW i \in Used(r.book, r.rid), journal[r.book][i].request = r
               PROVE  FALSE
    BY DEF RequestInv
  <2>1. r.book \in Books /\ books[r.book] = "open" /\ i \in DOMAIN journal[r.book]
    BY RequestFields DEF BooksOf, Used
  <2>2. \A j \in Used(r.book, r.rid) : j = i
    BY <2>1 DEF Used, OneEventPerRequest
  <2>3. ~\E j : Answer(w, r, <<r.book, j>>)
    BY DEF Answer, Become, TypeOK, TurnedAway
  <2>4. ~Clear(w, r)
    BY DEF Clear, Become, TypeOK, TurnedAway
  <2>5. FitFor(r, r.book, i, journal[r.book][i])
    BY <2>1 DEF EventsFit
  <2>6. CASE RecordTransaction(w, r)
    <3>1. MayHold(r.book, r.tx)
      BY <2>5, <2>6 DEF RecordTransaction, FitFor, Accepted
    <3> QED BY <2>1, <2>2, <2>3, <2>4, <2>6, <3>1 DEF RecordTransaction, SameFingerprint
  <2>7. CASE TransferCash(w, r)
    <3>1. IsTransfer(r.book, i) /\ Transferable(r)
      BY <2>1, <2>7, PostedIsFound DEF TransferCash
    <3> QED BY <2>2, <2>3, <2>4, <2>7, <3>1 DEF TransferCash, SameFingerprint
  <2>8. ~ReverseTransaction(w, r) /\ ~UnwindTransfer(w, r)
    BY DEF ReverseTransaction, UnwindTransfer
  <2> QED BY <2>6, <2>7, <2>8, TurnedAwayByCheck
<1> QED BY <1>1, TypeCorrect, RequestsPostOnce, RequestInvHolds, TransfersFitHolds, PTL
        DEF Spec, RetryIsAnswered
=============================================================================
