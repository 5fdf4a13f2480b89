------------------------------ MODULE RfMonitorMC ------------------------------
(***************************************************************************)
(* RfMonitor with two boards and 24 bins of 250 Hz; the tolerance is the   *)
(* 400 Hz of demo/run_demo.py.                                             *)
(***************************************************************************)
EXTENDS RfMonitor

CONSTANTS a, b

\* The boards' carriers two bins apart until a command moves one of them.
CrystalErrors == {[x \in Board |-> IF x = a THEN 0 ELSE e] : e \in {2}}

\* What two theorems of RfMonitorProofs assume of the search for carriers: here for
\* every place and level of the two carriers.
ASSUME SearchLocates == LocatesRadios

ASSUME SearchSeparates == SeparatesCarriers

=============================================================================
