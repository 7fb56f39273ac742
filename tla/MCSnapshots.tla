---------------------------- MODULE MCSnapshots ----------------------------
(***************************************************************************)
(* Instances of Snapshots for TLC: a portfolio, one client and the cron,   *)
(* from a Thursday to a Saturday, two ticks a day: during the session of   *)
(* the market and after it.                                                *)
(***************************************************************************)
EXTENDS Snapshots, TLC

CONSTANTS p1, w1, w2

OnePortfolio == <<p1>>
DaySessions == [US |-> [zone |-> 0, opens |-> 0, closes |-> 1]]

Rebuild(from, to, force) == [portfolio |-> p1, from |-> from, to |-> to, force |-> force]
\* The first two days again, a range that ends in the future, and an inverted one.
ClientRequests == {Rebuild(0, 1, TRUE), Rebuild(1, 9, FALSE), Rebuild(1, 0, FALSE)}
NoRequests == {Rebuild(1, 0, FALSE)}

\* A purchase of the first day and one of the second.
ClientPostings == {[portfolio |-> p1, occurred |-> t, quantity |-> q] : t \in {0, 3}, q \in {1}}

Bounds(events, corrections, deletions, requests, failures) ==
  [events |-> events, corrections |-> corrections, deletions |-> deletions,
   requests |-> requests, failures |-> failures]
\* Two at a time.
Troubles == {Bounds(1, 0, 0, 1, 0), Bounds(1, 0, 0, 0, 1), Bounds(1, 1, 0, 0, 0), Bounds(0, 0, 1, 1, 0)}
\* What the cron has to get over.
CronTroubles == {Bounds(0, 0, 0, 1, 1), Bounds(0, 0, 1, 0, 1)}
\* One event and one correction.
CorrectionOnly == {Bounds(1, 1, 0, 0, 0)}

WorkerSymmetry == Permutations(Workers)
=============================================================================
