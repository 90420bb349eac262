---------------------------- MODULE MCTxnQueue ----------------------------
(***************************************************************************)
(* Instances of TxnQueue for TLC.                                          *)
(***************************************************************************)
EXTENDS TxnQueue

CONSTANTS e, s, q, h, a, z

\* Two functions: f 1 has a single step and a queued transaction, f 2 a
\* queued transaction of high priority.
TwoFuncOf == [t \in Txns |-> IF t = h THEN 2 ELSE 1]
TwoPrioOf == [t \in Txns |-> IF t = q THEN 1 ELSE 0]

\* One function (WLAN): two ELP writes, an aggregation a..z of low priority, a
\* low priority transaction q, a high priority transaction h.
OneFuncOf == [t \in Txns |-> 1]
OnePrioOf == [t \in Txns |-> IF t = h THEN 0 ELSE 1]
=============================================================================
