----------------------------- MODULE MCCmdQueue -----------------------------
(***************************************************************************)
(* Instances of CmdQueue for TLC: command a has a callback, b has none.    *)
(***************************************************************************)
EXTENDS CmdQueue

CONSTANTS a, b, d
=============================================================================
