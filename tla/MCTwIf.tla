------------------------------ MODULE MCTwIf ------------------------------
(***************************************************************************)
(* Instances of TwIf for TLC: transactions c and d with a completion CB, n *)
(* without one.                                                            *)
(***************************************************************************)
EXTENDS TwIf

CONSTANTS c, d, n
=============================================================================
