-------------------------------- MODULE Score --------------------------------
(***************************************************************************)
(* sim/score.py: comparing what the detector found with the manifest of    *)
(* what was injected.  Each anomaly claims the first finding that can be   *)
(* it; what is left on either side is an error.                            *)
(***************************************************************************)
EXTENDS Integers, Sequences, SequencesExt

\* A finding that carries window_start is about an interval, which begins at
\* start; for the others start and ts are the same.
MatchesAnomaly(finding, anomaly, window) ==
  /\ finding.kind = anomaly.kind
  /\ finding.start - window <= anomaly.t
  /\ anomaly.t <= finding.ts + window

\* One turn of the loop over the anomalies.
Claim(score, anomaly, window) ==
  LET fits == {n \in DOMAIN score.unclaimed :
                 MatchesAnomaly(score.unclaimed[n], anomaly, window)}
  IN  IF fits = {}
        THEN [score EXCEPT !.missed = Append(@, anomaly)]
        ELSE [score EXCEPT !.hits = @ + 1,
                !.unclaimed = RemoveAt(@, CHOOSE n \in fits : \A k \in fits : n <= k)]

ScoreOne(anomalies, findings, window) ==
  FoldLeft(LAMBDA score, anomaly : Claim(score, anomaly, window),
           [unclaimed |-> findings, hits |-> 0, missed |-> <<>>], anomalies)

\* precision and recall are both 1.
Perfect(score) == score.unclaimed = <<>> /\ score.missed = <<>>

=============================================================================
