------------------------------ MODULE MCTxPath ------------------------------
(***************************************************************************)
(* An instance of TxPath for TLC: two of the four ACs have traffic.  AC 1  *)
(* has small packets and one block of its own, AC 2 packets of two blocks  *)
(* and as many of its own; one block is for whoever comes first.           *)
(***************************************************************************)
EXTENDS TxPath

MCThresh    == [q \in 0 .. 3 |-> IF q \in {1, 2} THEN q ELSE 0]
MCBlks      == [q \in 0 .. 3 |-> IF q = 2 THEN 2 ELSE 1]
MCQueueSize == [q \in 0 .. 3 |-> IF q = 1 THEN 2 ELSE 1]
MCPace      == [q \in 0 .. 3 |-> IF q = 1 THEN 2 ELSE 1]
=============================================================================
