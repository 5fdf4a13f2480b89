--------------------------- MODULE AlertDeliveryMC ---------------------------
(***************************************************************************)
(* AlertDelivery with a tick of about five seconds and the values of       *)
(* demo/rf_monitor.py: suppression 20 s, timeout 5 s, stale after 25 s.    *)
(***************************************************************************)
EXTENDS AlertDelivery

CONSTANTS a, b

\* Nothing, one rogue, and two carriers in one frequency bucket.
SingleSweeps == {<<>>, <<a>>, <<a, a>>}

\* Nothing, or two rogues.
PairSweeps == {<<>>, <<a, b>>}

=============================================================================
