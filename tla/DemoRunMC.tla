----------------------------- MODULE DemoRunMC -----------------------------
(***************************************************************************)
(* DemoRun with the times of the code in ticks of four seconds (a time     *)
(* that is no multiple of four is rounded to the nearest).                 *)
(***************************************************************************)
EXTENDS DemoRun

=============================================================================
