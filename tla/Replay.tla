------------------------------- MODULE Replay -------------------------------
(***************************************************************************)
(* A book rebuilt at a past cutoff by folding its journal.                 *)
(*                                                                         *)
(* A journal is the sequence of a book's events in the order they were     *)
(* posted (created_at).  An event has a type, the time it occurred, which  *)
(* may be earlier or, for a corporate action, later than its posting, the  *)
(* event it reverses (0: none), its summed legs, and the magnitudes of its *)
(* income legs and of its fee and tax legs.  The book holds one security,  *)
(* so one position is folded.                                              *)
(***************************************************************************)
EXTENDS Journal, CostBasis, SequencesExt

Through(journal, cutoff) == {i \in DOMAIN journal : journal[i].occurred <= cutoff}

\* Ordered by occurrence, ties by the order of posting.
Before(journal, i, j) ==
  \/ journal[i].occurred < journal[j].occurred
  \/ journal[i].occurred = journal[j].occurred /\ i < j

\* The place of each event among others, from one on.
Places(journal, events) == [i \in events |-> Cardinality({j \in events : Before(journal, j, i)}) + 1]

\* _events_through: each event after those it comes after.
EventsThrough(journal, cutoff) ==
  LET places == Places(journal, Through(journal, cutoff))
  IN  [k \in 1..Cardinality(DOMAIN places) |-> CHOOSE i \in DOMAIN places : places[i] = k]

FoldEvent(state, event) ==
  [cash     |-> state.cash + event.legs.cash,
   position |-> IF event.legs.ticker = NoTicker THEN state.position
                ELSE FoldSecurityLeg(state.position, event.legs.quantity, event.legs.security)]

\* replay_state, but for the flows.
ReplayState(journal, cutoff) ==
  FoldLeft(LAMBDA state, i : FoldEvent(state, journal[i]),
           [cash |-> 0, position |-> NoPosition], EventsThrough(journal, cutoff))

-----------------------------------------------------------------------------
(* Flows *)

ExternalEvents == Inflows \cup Outflows
InternalEvents == Trades \cup Incomes \cup Expenses \cup ActionTypes

\* Mutant: a reversal is classified on its own.
OwnType(journal, i, known) == journal[i].type

\* effective_type: a reversal is of the type of the event it undoes, if that is
\* among the known ones.
EffectiveType(journal, i, known) ==
  IF journal[i].type = "reversal" /\ journal[i].reverses \in known
  THEN journal[journal[i].reverses].type ELSE journal[i].type

NoFlows == [in |-> 0, out |-> 0, income |-> 0, costs |-> 0, unknown |-> 0]

\* Mutant: an event that was reversed since is no flow.
FlowUnlessReversed(journal, i, known) ==
  IF journal[i].reversed \/ journal[i].type \notin ExternalEvents THEN NoFlows
  ELSE [NoFlows EXCEPT !.in = journal[i].legs.cash]

\* What one event adds to the totals (_accumulate_flows).
Flow(journal, i, known) ==
  LET event == journal[i]
      type == EffectiveType(journal, i, known)
  IN  IF type \in ExternalEvents
      THEN IF event.legs.cash >= 0 THEN [NoFlows EXCEPT !.in = event.legs.cash]
                                   ELSE [NoFlows EXCEPT !.out = event.legs.cash]
      ELSE IF type \in InternalEvents
      THEN [NoFlows EXCEPT !.income = event.income, !.costs = event.costs]
      ELSE [NoFlows EXCEPT !.unknown = event.legs.cash]

FlowsOf(journal, events, known) ==
  [f \in DOMAIN NoFlows |-> MapThenSumSet(LAMBDA i : Flow(journal, i, known)[f], events)]

\* The flows of replay_state: of the events since a time and through the cutoff.
ReplayFlows(journal, since, cutoff) ==
  FlowsOf(journal, {i \in Through(journal, cutoff) : journal[i].occurred >= since},
          Through(journal, cutoff))

NetExternal(flows) == flows.in + flows.out

\* Mutant: an event on a boundary belongs to the window that it opens.
BucketOpenedBy(edges, k, occurred) ==
  {n \in k..(Len(edges) - 1) : occurred < edges[n + 1]}

\* The windows from the k-th on that end at or after a time.
BucketsFrom(edges, k, occurred) ==
  {n \in k..(Len(edges) - 1) : occurred <= edges[n + 1]}

\* The cursor moves to the window of an event, which counts towards it.
Counted(journal, edges, known, pass, i) ==
  LET later == BucketsFrom(edges, pass.cursor, journal[i].occurred)
      k == Min(later)
      more == [f \in DOMAIN NoFlows |-> pass.buckets[k][f] + Flow(journal, i, known)[f]]
  IN  IF journal[i].occurred <= edges[1] \/ later = {} THEN pass
      ELSE [cursor |-> k, buckets |-> [pass.buckets EXCEPT ![k] = more]]

\* flows_by_bucket: one pass over the events with a cursor that only moves
\* forward.  buckets[k] is the window that ends at edges[k + 1].
FlowsByBucket(journal, edges) ==
  LET last == edges[Len(edges)]
      known == Through(journal, last)
  IN  FoldLeft(LAMBDA pass, i : Counted(journal, edges, known, pass, i),
               [cursor |-> 1, buckets |-> [k \in 1..(Len(edges) - 1) |-> NoFlows]],
               EventsThrough(journal, last)).buckets
=============================================================================
