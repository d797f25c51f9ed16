--------------------------- MODULE MCDerivedTrades ---------------------------
(***************************************************************************)
(* Instances of DerivedTrades for TLC.  Trades 1 and 2 are of one minute,  *)
(* trade 3 of the next; all are of one day.                                *)
(***************************************************************************)
EXTENDS DerivedTrades

CONSTANTS kraken, coinbase

TwoVenues == <<kraken, coinbase>>
OneVenue  == <<coinbase>>
OneFrame  == <<"1m">>
Minutes == [t \in Derived |-> [id \in Ids |-> IF t = "1m" /\ id = 3 THEN 2 ELSE 1]]
=============================================================================
