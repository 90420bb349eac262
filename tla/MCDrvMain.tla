----------------------------- MODULE MCDrvMain -----------------------------
(***************************************************************************)
(* Instances of DrvMain for TLC: up to two START and two STOP actions.     *)
(***************************************************************************)
EXTENDS DrvMain

CONSTANTS start1, start2, stop1, stop2
=============================================================================
