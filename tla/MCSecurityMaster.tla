-------------------------- MODULE MCSecurityMaster --------------------------
(***************************************************************************)
(* Instances of SecurityMaster for TLC: one instrument and its venue.      *)
(***************************************************************************)
EXTENDS SecurityMaster

CONSTANTS instrument, venue

InstrumentAndVenue == [k \in {instrument, venue} |-> IF k = instrument THEN 1 ELSE 2]
=============================================================================
