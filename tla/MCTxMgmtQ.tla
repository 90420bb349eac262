----------------------------- MODULE MCTxMgmtQ -----------------------------
(***************************************************************************)
(* Instances of TxMgmtQ for TLC.                                           *)
(***************************************************************************)
EXTENDS TxMgmtQ
=============================================================================
