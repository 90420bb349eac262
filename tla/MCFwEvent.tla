----------------------------- MODULE MCFwEvent -----------------------------
(***************************************************************************)
(* Instances of FwEvent for TLC.                                           *)
(***************************************************************************)
EXTENDS FwEvent

\* One result before a stop, and two, which fill the table, in the last life.
MCMaxResults == [n \in 0 .. MaxStops |-> IF n < MaxStops THEN 1 ELSE 2]
=============================================================================
