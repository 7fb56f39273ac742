----------------------------- MODULE AccountBook -----------------------------
(***************************************************************************)
(* What the ledger promises of one book, whoever posts to it and in        *)
(* whatever order: an append-only list of entries, at most one per request *)
(* id; a balance and holdings that move with the entries and are never     *)
(* overdrawn; and, at the end, a deletion after which nothing is posted.   *)
(*                                                                         *)
(* There are no sessions here, no reversal marks and no transfers: a       *)
(* reversal and half a transfer are entries like any other.                *)
(***************************************************************************)
EXTENDS Integers, Sequences

CONSTANTS
  Tickers, NoTicker, RequestIds,
  MayOwe          \* whether a negative balance is the book's normal state

VARIABLES state, entries, balance, holding

bookVars == <<state, entries, balance, holding>>

Entries == [rid: RequestIds, cash: Int, ticker: Tickers \cup {NoTicker}, quantity: Int]

BookInit ==
  /\ state = "absent"
  /\ entries = << >>
  /\ balance = 0
  /\ holding = [t \in Tickers |-> 0]

Open ==
  /\ state = "absent"
  /\ state' = "open"
  /\ UNCHANGED <<entries, balance, holding>>

Enter(e) ==
  /\ state = "open"
  /\ \A i \in DOMAIN entries : entries[i].rid # e.rid
  /\ entries' = Append(entries, e)
  /\ balance' = balance + e.cash
  /\ MayOwe \/ balance' >= 0
  /\ holding' = [t \in Tickers |-> IF t = e.ticker THEN holding[t] + e.quantity ELSE holding[t]]
  /\ \A t \in Tickers : holding'[t] >= 0
  /\ UNCHANGED state

Delete ==
  /\ state = "open"
  /\ state' = "deleted"
  /\ entries' = << >>
  /\ balance' = 0
  /\ holding' = [t \in Tickers |-> 0]

\* An entry's numbers are unbounded, so the entry is read off the next state.
EnterSome ==
  /\ entries' # << >>
  /\ entries'[Len(entries')] \in Entries
  /\ Enter(entries'[Len(entries')])

BookNext == Open \/ EnterSome \/ Delete

BookSpec == BookInit /\ [][BookNext]_bookVars
=============================================================================
