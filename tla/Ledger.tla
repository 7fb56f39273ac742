------------------------------- MODULE Ledger -------------------------------
(***************************************************************************)
(* Books, their journals, and the position and cash projections kept with  *)
(* them, as served by concurrent HTTP requests.                            *)
(*                                                                         *)
(* Every request runs on a thread and a database session of its own.  It   *)
(* first reads outside any transaction (the session takes SQLite's write   *)
(* lock only with its first INSERT), decides on what it read, and then     *)
(* posts: the INSERT of the event takes the lock, the projections are read *)
(* under it, and the session commits or rolls back.  Readers never see     *)
(* uncommitted rows and there is one writer at a time, so the posting      *)
(* phase is one step; the reading phase is separated from it wherever      *)
(* another session can commit in between.                                  *)
(***************************************************************************)
EXTENDS Journal, Sums

CONSTANTS
  Kind,         \* [Books -> {"investment", "cash", "liability"}]
  RequestIds,   \* idempotency keys, chosen by clients
  Workers,      \* request-serving threads
  NoRequest, NoEvent,
  Requests      \* the requests clients may send, and send again

\* An event is known by its book and its place in the book's journal; places
\* are given out in created_at order.
EventIds == Books \X (Nat \ {0})

\* `target' of a reversal is an event's place in the book, `target' of an unwind
\* the place of a transfer's outgoing half in its book: <<book, target>> is the
\* transfer_id.
RequestSet ==
       [op: {"record"},   book: Books, rid: RequestIds, tx: Transactions]
  \cup [op: {"reverse"},  book: Books, rid: RequestIds, target: Nat \ {0}]
  \cup [op: {"transfer"}, book: Books, rid: RequestIds, to: Books,
        amount: Int, rate: Int \cup {NoAmount}]
  \cup [op: {"unwind"},   book: Books, rid: RequestIds, target: Nat \ {0}]

ASSUME LedgerAssumption ==
  /\ Kind \in [Books -> {"investment", "cash", "liability"}]
  /\ Requests \subseteq RequestSet
  /\ NoRequest \notin Requests
  /\ NoEvent \notin EventIds

\* An event keeps the request that posted it: its request_id, and, because the
\* fingerprint is a hash of the payload, the payload.
Events ==
  [request: Requests, legs: Legs, status: {"posted", "reversed"}, reverses: Nat,
   transfer: EventIds \cup {NoEvent}, role: {"none", "out", "in"}]

SessionStates == {"idle", "located", "cleared", "answered", "refused"}

VARIABLES
  books,      \* books[b]: "absent", "open" or "deleted"
  journal,    \* journal[b]: the events of b, oldest first
  cash,       \* cash[b]: the cash balance of b
  position,   \* position[b][t]: the quantity of t held in b
  session     \* session[w]: the request w serves or last served

vars == <<books, journal, cash, position, session>>
store == <<books, journal, cash, position>>

TypeOK ==
  /\ books \in [Books -> {"absent", "open", "deleted"}]
  /\ journal \in [Books -> Seq(Events)]
  /\ cash \in [Books -> Int]
  /\ position \in [Books -> [Tickers -> Int]]
  /\ session \in [Workers -> [state: SessionStates, request: Requests \cup {NoRequest},
                              event: EventIds \cup {NoEvent}]]
  /\ \A w \in Workers : session[w].state # "idle" => session[w].request # NoRequest

Init ==
  /\ books = [b \in Books |-> "absent"]
  /\ journal = [b \in Books |-> << >>]
  /\ cash = [b \in Books |-> 0]
  /\ position = [b \in Books |-> [t \in Tickers |-> 0]]
  /\ session = [w \in Workers |-> [state |-> "idle", request |-> NoRequest, event |-> NoEvent]]

-----------------------------------------------------------------------------
(* Books *)

\* _create_book: the book and its zero balance in one commit.
CreateBook(b) ==
  /\ books[b] = "absent"
  /\ books' = [books EXCEPT ![b] = "open"]
  /\ cash' = [cash EXCEPT ![b] = 0]
  /\ UNCHANGED <<journal, position, session>>

\* Mutant: the cash balance does not go with its book.
DeleteBookKeepingCash(b) ==
  /\ books[b] = "open"
  /\ books' = [books EXCEPT ![b] = "deleted"]
  /\ journal' = [journal EXCEPT ![b] = << >>]
  /\ position' = [position EXCEPT ![b] = [t \in Tickers |-> 0]]
  /\ UNCHANGED <<cash, session>>

\* delete_portfolio: the book's events go, newest first, then the book and its
\* projections.  The other half of a transfer stays, its transfer_id dangling.
DeleteBook(b) ==
  /\ books[b] = "open"
  /\ books' = [books EXCEPT ![b] = "deleted"]
  /\ journal' = [journal EXCEPT ![b] = << >>]
  /\ cash' = [cash EXCEPT ![b] = 0]
  /\ position' = [position EXCEPT ![b] = [t \in Tickers |-> 0]]
  /\ UNCHANGED session

-----------------------------------------------------------------------------
(* What a session reads *)

Exists(b, i) == i \in DOMAIN journal[b]

\* The events of b posted under a request_id: at most one, by uq_journal_request.
Used(b, rid) == {i \in DOMAIN journal[b] : journal[b][i].request.rid = rid}

\* The outgoing half of the transfer <<b, i>>, and its incoming halves.
IsOutHalf(b, i) ==
  /\ Exists(b, i)
  /\ journal[b][i].transfer = <<b, i>> /\ journal[b][i].role = "out" /\ journal[b][i].reverses = 0

InHalves(transfer) ==
  {e \in UNION {{c} \X DOMAIN journal[c] : c \in Books} :
     LET event == journal[e[1]][e[2]]
     IN  event.transfer = transfer /\ event.role = "in" /\ event.reverses = 0}

\* _originals: both halves are still there.
IsTransfer(b, i) == IsOutHalf(b, i) /\ InHalves(<<b, i>>) # {}
InHalf(b, i) == CHOOSE e \in InHalves(<<b, i>>) : TRUE

\* Mutant: the kind is compared with "cash", so that a loan may hold securities.
MayHoldUnlessCash(b, tx) ==
  Kind[b] = "cash" => tx.type \notin HoldingEvents /\ tx.ticker = NoTicker

\* reject_security_activity and, for a ticker, the currency check.
MayHold(b, tx) ==
  Kind[b] # "investment" => tx.type \notin HoldingEvents /\ tx.ticker = NoTicker
SameCurrency(b, tx) == tx.ticker # NoTicker => Currency[tx.ticker] = Currency[b]

\* Mutants: the fingerprint is not compared; it covers the time of the request.
AnyFingerprint(event, r) == event.request.rid = r.rid
TimestampedFingerprint(event, r) == FALSE

\* The event's request_fingerprint is that of r.
SameFingerprint(event, r) == event.request = r

\* Mutant: the status of the original is not looked at.
ReversibleAgain(b, i) ==
  /\ books[b] = "open" /\ Exists(b, i)
  /\ journal[b][i].reverses = 0 /\ journal[b][i].transfer = NoEvent

\* reverse_transaction's demands on the original.
Reversible(b, i) ==
  /\ books[b] = "open" /\ Exists(b, i)
  /\ journal[b][i].status = "posted"
  /\ journal[b][i].reverses = 0 /\ journal[b][i].transfer = NoEvent

\* _validate of a transfer.
Transferable(r) ==
  /\ books[r.book] = "open" /\ books[r.to] = "open"
  /\ r.book # r.to /\ r.amount > 0
  /\ Currency[r.book] = Currency[r.to] <=> r.rate = NoAmount
  /\ r.rate # NoAmount => r.rate > 0

Received(r) == IF r.rate = NoAmount THEN r.amount ELSE r.amount * r.rate

-----------------------------------------------------------------------------
(* What a session decides *)

Become(w, state, r, e) ==
  session' = [session EXCEPT ![w] = [state |-> state, request |-> r, event |-> e]]

Refuse(w, r) == Become(w, "refused", r, NoEvent) /\ UNCHANGED store
Answer(w, r, e) == Become(w, "answered", r, e) /\ UNCHANGED store
Locate(w, r) == Become(w, "located", r, NoEvent) /\ UNCHANGED store
Clear(w, r) == Become(w, "cleared", r, NoEvent) /\ UNCHANGED store

Free(w) == session[w].state \in {"idle", "answered", "refused"}
Serving(w, state, op) == session[w].state = state /\ session[w].request.op = op

-----------------------------------------------------------------------------
(* Posting *)

\* Mutant: only a sale is checked against what is there.
AffordableSale(b, legs) == legs.quantity < 0 => -legs.quantity <= position[b][legs.ticker]

\* _apply_projections accepts the legs on book b.
Affordable(b, legs) ==
  /\ legs.quantity < 0 => -legs.quantity <= position[b][legs.ticker]
  /\ legs.cash # 0 => cash[b] + legs.cash >= 0 \/ Kind[b] = "liability"

\* Mutant: there is no unique key on the book and the request_id.
InsertableTwice(b, rid) == books[b] = "open"

\* The INSERT of the event passes its foreign and unique keys.
Insertable(b, rid) == books[b] = "open" /\ Used(b, rid) = {}

\* Mutant: the event is inserted with a status the journal does not have.
PendingEvent(r, legs, reverses, transfer, role) ==
  [request |-> r, legs |-> legs, status |-> "pending", reverses |-> reverses,
   transfer |-> transfer, role |-> role]

Event(r, legs, reverses, transfer, role) ==
  [request |-> r, legs |-> legs, status |-> "posted", reverses |-> reverses,
   transfer |-> transfer, role |-> role]

NextPlace(b) == Len(journal[b]) + 1

\* The journal of b once e is posted and the event it reverses is marked.
WithEvent(b, e) ==
  Append(IF e.reverses = 0 THEN journal[b]
         ELSE [journal[b] EXCEPT ![e.reverses].status = "reversed"], e)

Holding(b, legs) ==
  IF legs.ticker = NoTicker THEN position[b]
  ELSE [position[b] EXCEPT ![legs.ticker] = @ + legs.quantity]

\* Mutant: the position is updated and the cash is not.
PostWithoutCash(posting) ==
  /\ journal'  = [b \in Books |-> IF b \in DOMAIN posting THEN WithEvent(b, posting[b])
                                  ELSE journal[b]]
  /\ position' = [b \in Books |-> IF b \in DOMAIN posting THEN Holding(b, posting[b].legs)
                                  ELSE position[b]]
  /\ UNCHANGED <<books, cash>>

\* posting[b] is the event to post on book b, for the books of one transaction.
Post(posting) ==
  /\ journal'  = [b \in Books |-> IF b \in DOMAIN posting THEN WithEvent(b, posting[b])
                                  ELSE journal[b]]
  /\ cash'     = [b \in Books |-> IF b \in DOMAIN posting THEN cash[b] + posting[b].legs.cash
                                  ELSE cash[b]]
  /\ position' = [b \in Books |-> IF b \in DOMAIN posting THEN Holding(b, posting[b].legs)
                                  ELSE position[b]]
  /\ UNCHANGED books

\* All of the postings, or a rollback and an error.
PostOrRollBack(w, r, posting) ==
  \/ /\ \A b \in DOMAIN posting : Insertable(b, r.rid) /\ Affordable(b, posting[b].legs)
     /\ Post(posting)
     /\ Become(w, "answered", r, <<r.book, NextPlace(r.book)>>)
  \/ /\ \E b \in DOMAIN posting : ~(Insertable(b, r.rid) /\ Affordable(b, posting[b].legs))
     /\ Refuse(w, r)

-----------------------------------------------------------------------------
(* record_transaction *)

RecordTransaction(w, r) ==
  /\ Free(w) /\ r.op = "record"
  /\ \/ /\ books[r.book] = "open" /\ MayHold(r.book, r.tx)
        /\ \E i \in Used(r.book, r.rid) :
             IF SameFingerprint(journal[r.book][i], r) THEN Answer(w, r, <<r.book, i>>)
                                                       ELSE Refuse(w, r)
     \/ /\ books[r.book] = "open" /\ MayHold(r.book, r.tx) /\ Used(r.book, r.rid) = {}
        /\ SameCurrency(r.book, r.tx) /\ Buildable(r.tx) /\ Balanced(BuildLegs(r.tx))
        /\ Clear(w, r)
     \/ /\ \/ books[r.book] # "open"
           \/ ~MayHold(r.book, r.tx)
           \/ /\ Used(r.book, r.rid) = {}
              /\ ~(SameCurrency(r.book, r.tx) /\ Buildable(r.tx) /\ Balanced(BuildLegs(r.tx)))
        /\ Refuse(w, r)

PostTransaction(w) ==
  /\ Serving(w, "cleared", "record")
  /\ LET r == session[w].request
     IN  PostOrRollBack(w, r,
           [b \in {r.book} |-> Event(r, BuildLegs(r.tx), 0, NoEvent, "none")])

-----------------------------------------------------------------------------
(* reverse_transaction *)

\* The original is read first, and its status checked.
ReverseTransaction(w, r) ==
  /\ Free(w) /\ r.op = "reverse"
  /\ IF Reversible(r.book, r.target) THEN Locate(w, r) ELSE Refuse(w, r)

\* Any event already posted under the request_id is the answer.
CheckReversal(w) ==
  /\ Serving(w, "located", "reverse")
  /\ LET r == session[w].request
     IN  \/ \E i \in Used(r.book, r.rid) : Answer(w, r, <<r.book, i>>)
         \/ Used(r.book, r.rid) = {} /\ Clear(w, r)

\* The legs and the status read earlier are used as they were: legs never
\* change, the status may have.  Once the book is deleted there are none.
PostReversal(w) ==
  /\ Serving(w, "cleared", "reverse")
  /\ LET r == session[w].request
     IN  IF Exists(r.book, r.target)
         THEN PostOrRollBack(w, r,
                [b \in {r.book} |-> Event(r, Invert(journal[b][r.target].legs),
                                          r.target, NoEvent, "none")])
         ELSE Refuse(w, r)

-----------------------------------------------------------------------------
(* transfer_cash *)

TransferCash(w, r) ==
  /\ Free(w) /\ r.op = "transfer"
  /\ \/ /\ Transferable(r)
        /\ \E i \in Used(r.book, r.rid) :
             IF SameFingerprint(journal[r.book][i], r) /\ IsTransfer(r.book, i)
             THEN Answer(w, r, <<r.book, i>>) ELSE Refuse(w, r)
     \/ Transferable(r) /\ Used(r.book, r.rid) = {} /\ Clear(w, r)
     \/ ~Transferable(r) /\ Refuse(w, r)

\* Mutant: the commit comes after the first half.
PostOutgoingHalf(w) ==
  /\ Serving(w, "cleared", "transfer")
  /\ LET r == session[w].request
     IN  PostOrRollBack(w, r,
           [b \in {r.book} |->
              Event(r, CashPair(-r.amount), 0, <<r.book, NextPlace(r.book)>>, "out")])

\* Both halves are inserted and applied under one commit.
PostTransfer(w) ==
  /\ Serving(w, "cleared", "transfer")
  /\ LET r == session[w].request
         transfer == <<r.book, NextPlace(r.book)>>
     IN  PostOrRollBack(w, r,
           [b \in {r.book, r.to} |->
              IF b = r.book THEN Event(r, CashPair(-r.amount), 0, transfer, "out")
                            ELSE Event(r, CashPair(Received(r)), 0, transfer, "in")])

-----------------------------------------------------------------------------
(* reverse_transfer *)

UnwindTransfer(w, r) ==
  /\ Free(w) /\ r.op = "unwind"
  /\ LET unwindable ==
           /\ IsTransfer(r.book, r.target)
           /\ journal[r.book][r.target].status = "posted"
           /\ LET in == InHalf(r.book, r.target) IN journal[in[1]][in[2]].status = "posted"
     IN  IF unwindable THEN Locate(w, r) ELSE Refuse(w, r)

\* Any event the outgoing book has under the request_id makes the answer the
\* transfer's original halves, if both are still there.
CheckUnwind(w) ==
  /\ Serving(w, "located", "unwind")
  /\ LET r == session[w].request
     IN  \/ /\ Used(r.book, r.rid) # {}
            /\ IF IsTransfer(r.book, r.target)
               THEN Answer(w, r, <<r.book, r.target>>) ELSE Refuse(w, r)
         \/ Used(r.book, r.rid) = {} /\ Clear(w, r)

\* Mutant: only the outgoing half is reversed.
PostUnwindOfOutgoing(w) ==
  /\ Serving(w, "cleared", "unwind")
  /\ LET r == session[w].request
     IN  IF IsTransfer(r.book, r.target)
         THEN PostOrRollBack(w, r,
                [b \in {r.book} |-> Event(r, Invert(journal[b][r.target].legs), r.target,
                                          <<r.book, r.target>>, "out")])
         ELSE Refuse(w, r)

PostUnwind(w) ==
  /\ Serving(w, "cleared", "unwind")
  /\ LET r  == session[w].request
         in == InHalf(r.book, r.target)
         transfer == <<r.book, r.target>>
     IN  IF IsTransfer(r.book, r.target)
         THEN PostOrRollBack(w, r,
                [b \in {r.book, in[1]} |->
                   LET half == IF b = r.book THEN r.target ELSE in[2]
                   IN  Event(r, Invert(journal[b][half].legs), half, transfer,
                             journal[b][half].role)])
         ELSE Refuse(w, r)

-----------------------------------------------------------------------------

\* The lock was not granted in time, or the server stopped: SQLite rolls back
\* and the client, who got no answer, may send the request again.
LoseRequest(w) ==
  /\ session[w].state \in {"located", "cleared"}
  /\ Become(w, "idle", NoRequest, NoEvent)
  /\ UNCHANGED store

Start(w) ==
  \E r \in Requests : \/ RecordTransaction(w, r) \/ ReverseTransaction(w, r)
                      \/ TransferCash(w, r) \/ UnwindTransfer(w, r)

Finish(w) ==
  \/ CheckReversal(w) \/ CheckUnwind(w)
  \/ PostTransaction(w) \/ PostReversal(w) \/ PostTransfer(w) \/ PostUnwind(w)

Next ==
  \/ \E b \in Books : CreateBook(b) \/ DeleteBook(b)
  \/ \E w \in Workers : Start(w) \/ Finish(w) \/ LoseRequest(w)

Spec == Init /\ [][Next]_vars

-----------------------------------------------------------------------------
(* Properties *)

CashDeltas(b) == [i \in DOMAIN journal[b] |-> journal[b][i].legs.cash]
QuantityDeltas(b, t) ==
  [i \in DOMAIN journal[b] |-> IF journal[b][i].legs.ticker = t
                               THEN journal[b][i].legs.quantity ELSE 0]

CashAgreesWithJournal ==
  \A b \in Books : cash[b] = SumTo(CashDeltas(b), Len(journal[b]))
PositionsAgreeWithJournal ==
  \A b \in Books, t \in Tickers :
     position[b][t] = SumTo(QuantityDeltas(b, t), Len(journal[b]))

\* The projections never disagree with the journal (the failure journal.py exists
\* to prevent): a book's balance is the sum of the cash legs of its events, and
\* what it holds of a ticker the sum of the quantities they moved, reversals and
\* transfer halves included.
ProjectionsAgreeWithJournal == CashAgreesWithJournal /\ PositionsAgreeWithJournal

\* However requests interleave between their checks and their posting, no
\* position goes negative and no cash is overdrawn, except the balance of a
\* liability.
NothingOverdrawn ==
  \A b \in Books : /\ Kind[b] = "liability" \/ cash[b] >= 0
                   /\ \A t \in Tickers : position[b][t] >= 0

\* A cash account and a loan never hold a security.
OnlyInvestmentsHold ==
  \A b \in Books, t \in Tickers : Kind[b] # "investment" => position[b][t] = 0

\* A request id posts at most one event in a book, also when two sessions have
\* both found it unused.
OneEventPerRequest ==
  \A b \in Books : \A i, j \in DOMAIN journal[b] :
     journal[b][i].request.rid = journal[b][j].request.rid => i = j

\* What happened to one half of a transfer: the requests that posted and
\* unwound it, and where that left it.
Trail(b, transfer) ==
  {<<e.request, e.status, e.reverses # 0>> :
     e \in {journal[b][i] : i \in {k \in DOMAIN journal[b] : journal[b][k].transfer = transfer}}}

\* Neither half of a transfer is ever posted, or unwound, without the other, as
\* long as neither book is deleted.
TransferHalvesAgree ==
  \A b \in Books : \A i \in DOMAIN journal[b] :
     LET e == journal[b][i]
         partner == IF e.role = "out" THEN e.request.to ELSE e.request.book
     IN  (e.role # "none" /\ e.reverses = 0 /\ books[partner] = "open")
           => Trail(b, e.transfer) = Trail(partner, e.transfer)

\* A posting or a transfer is never answered with the event of another request, as
\* long as its book is there: a request_id reused with other data is refused.
AnswerNamesTheRequest ==
  \A w \in Workers :
     LET s == session[w]
     IN  (s.state = "answered" /\ s.request.op \in {"record", "transfer"}
            /\ books[s.request.book] = "open")
           => journal[s.event[1]][s.event[2]].request = s.request

\* A free worker is given a request and turns it away.
TurnedAway(w, r) ==
  Free(w) /\ session'[w] # session[w] /\ session'[w].state = "refused" /\ session'[w].request = r

BooksOf(r) == IF r.op = "transfer" THEN {r.book, r.to} ELSE {r.book}

\* Retrying a posting or a transfer that went through is safe, as long as its
\* books are there: the answer is the event it posted, never an error.
RetryIsAnswered ==
  [][\A w \in Workers, r \in Requests :
       (r.op \in {"record", "transfer"} /\ (\A b \in BooksOf(r) : books[b] = "open")
          /\ TurnedAway(w, r))
         => \A i \in Used(r.book, r.rid) : journal[r.book][i].request # r]_vars

\* An event is reversed at most once, so that its legs are undone and not mirrored.
ReversedAtMostOnce ==
  \A b \in Books : \A i, j \in DOMAIN journal[b] :
     journal[b][i].reverses # 0 /\ journal[b][i].reverses = journal[b][j].reverses => i = j

\* What the ledger promises of each book (AccountBook).
Entry(e) == [rid |-> e.request.rid, cash |-> e.legs.cash,
             ticker |-> e.legs.ticker, quantity |-> e.legs.quantity]

Account(b) == INSTANCE AccountBook WITH
  MayOwe  <- Kind[b] = "liability",
  state   <- books[b],
  entries <- [i \in DOMAIN journal[b] |-> Entry(journal[b][i])],
  balance <- cash[b],
  holding <- position[b]

\* Every book, seen alone, behaves as AccountBook says, through concurrent
\* sessions, lost requests, reversals, transfers and deletion.
EachBookIsAnAccount ==
  /\ \A b \in Books : Account(b)!BookInit
  /\ [][\A b \in Books : [Account(b)!BookNext]_(Account(b)!bookVars)]_vars
=============================================================================
