---------------------------- MODULE MCV1Consumer ----------------------------
(***************************************************************************)
(* Instances of V1Consumer for TLC.                                        *)
(***************************************************************************)
EXTENDS V1Consumer

Lags == <<1, 2, 3, 6>>
=============================================================================
