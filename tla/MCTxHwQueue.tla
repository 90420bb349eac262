---------------------------- MODULE MCTxHwQueue ----------------------------
(***************************************************************************)
(* An instance of TxHwQueue for TLC: the counters have the least moduli    *)
(* that the assumptions allow, so that they wrap around all the time.      *)
(***************************************************************************)
EXTENDS TxHwQueue

\* Of two blocks one is guaranteed to AC 1; the other is for whoever comes first.
MCThresh == [q \in 0 .. 3 |-> IF q = 1 THEN 1 ELSE 0]
=============================================================================
