----------------------------- MODULE MarketData -----------------------------
(***************************************************************************)
(* Quotes, the cache of daily bars and exchange rates together: what the   *)
(* program takes from the provider of market data.  They share nothing but *)
(* the provider, so each moves as it does alone.                           *)
(***************************************************************************)
EXTENDS Quotes, HistoryCache, Fx

MarketSpec == QuotesSpec /\ HistorySpec /\ FxSpec

\* The types of the three, and the unique keys of their tables.
TypesOK == QuotesTypeOK /\ HistoryTypeOK /\ FxTypeOK
=============================================================================
