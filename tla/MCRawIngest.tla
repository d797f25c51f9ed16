----------------------------- MODULE MCRawIngest -----------------------------
(***************************************************************************)
(* Instances of RawIngest for TLC: one partition, the schedule's slot and  *)
(* that of a person.                                                       *)
(***************************************************************************)
EXTENDS RawIngest

CONSTANTS p1, cron, byHand, nightlyJob, nobody
=============================================================================
