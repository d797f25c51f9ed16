--------------------------- MODULE MCCaptureSession ---------------------------
(***************************************************************************)
(* Instances of CaptureSession for TLC.                                    *)
(***************************************************************************)
EXTENDS CaptureSession

CONSTANT btc

One == <<btc>>
=============================================================================
