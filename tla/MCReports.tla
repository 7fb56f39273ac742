------------------------------ MODULE MCReports ------------------------------
(***************************************************************************)
(* Groups, consolidated summaries, value series and instrument identity,   *)
(* on small instances.  A summary and a series never read each other, and  *)
(* neither changes the members, so in a behaviour one of them moves beside *)
(* the transfers and the deletion of portfolios: the `focus' it begins     *)
(* with.  Membership, the classification of instruments and their issuers  *)
(* have a focus of their own.                                              *)
(***************************************************************************)
EXTENDS NavSeries, Identity, TLC

CONSTANTS Focuses, e1, e2, inv, loan, bank, tsm, tw2330, tsmc, umc

\* A group of one, of two, and a list that names a portfolio twice.
SomeLists == {<<inv>>, <<inv, loan>>, <<bank, bank>>}
SomeCreations == inv :> 0 @@ loan :> 1 @@ bank :> 0
SomeBases == inv :> "USD" @@ loan :> "TWD" @@ bank :> "TWD"
SomeOpenings == inv :> 2 @@ loan :> -3 @@ bank :> 1

SomeHoldings ==
  inv :> {[ticker |-> "ACME", currency |-> "USD", value |-> 3]} @@ loan :> {} @@ bank :> {}

\* The loan is paid back, and more than it is; and drawn again, the day before.
SomeMovements ==
  {[from |-> inv, to |-> loan, paid |-> 1, received |-> 4, back |-> 0],
   [from |-> loan, to |-> inv, paid |-> 3, received |-> 1, back |-> 1]}

\* All rates are known, or one of the two.
SomeRates == {"USD" :> 1 @@ "TWD" :> 2, "USD" :> 1 @@ "TWD" :> NoRate, "USD" :> NoRate @@ "TWD" :> 1}
SomeGaps == {{}, {"ACME"}}

VARIABLE focus
vars == <<focus, consolidationVars, navVars, identityVars>>

Init ==
  /\ focus \in Focuses
  /\ GroupsInit /\ ReportsInit /\ NavInit /\ IdentityInit

\* The other requests, with a bound on transfers.
Surroundings(posts) ==
  \/ moment < GroupStart + 1 /\ GroupClockTicks /\ UNCHANGED <<reportVars, navVars>>
  \/ (\E list \in {<<inv>>, <<inv, loan>>} : CreateGroup(list)) /\ UNCHANGED <<reportVars, navVars>>
  \/ \E p \in Portfolios : DeletesPortfolio(p)
  \/ Cardinality(entries) < 2 * posts /\ TransfersNext /\ UNCHANGED <<groupVars, navVars>>

Next ==
  /\ UNCHANGED focus
  /\ \/ /\ focus = "groups" /\ GroupsNext
        /\ UNCHANGED <<reportVars, navVars, identityVars>>
     \/ /\ focus = "summary"
        /\ Surroundings(MaxPosts) \/ (SummaryNext /\ UNCHANGED <<groupVars, navVars>>)
        /\ UNCHANGED identityVars
     \/ /\ focus = "series"
        /\ Surroundings(1) \/ (SeriesNext /\ UNCHANGED <<groupVars, reportVars>>)
        /\ UNCHANGED identityVars
     \/ /\ \/ focus = "classification" /\ ClassificationNext
           \/ focus = "issuers" /\ IssuersNext
        /\ UNCHANGED <<consolidationVars, navVars>>

Spec == Init /\ [][Next]_vars

ThreadSymmetry == Permutations(Editors)
=============================================================================
