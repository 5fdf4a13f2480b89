---------------------------- MODULE RulesOutcome ----------------------------
(***************************************************************************)
(* What becomes of the findings of Rules: the scorer compares them with a  *)
(* manifest of what was injected, and the network monitor ranks and sends  *)
(* them.  The inventory lists one device, the inverter.                    *)
(***************************************************************************)
EXTENDS Rules

Scoring == INSTANCE Score
Ranking == INSTANCE Inventory

CONSTANT ListedWatts   \* the capacities the inverter may be listed with

\* Any capacity, also none at all, and a record without one, here -1.
ASSUME ListedAssumption == ListedWatts \subseteq Nat \cup {-1}

\* The other sessions follow each other at one period.
RegularWithout(i, period) ==
  \A p \in Intervals(Positions \ {i}) : Gap(p) = period

\* The findings file: evaluate's findings, in any order, as the scorer reads
\* them.
Found ==
  LET listed == Scoring!SetToSeq(findings)
  IN  [n \in DOMAIN listed |->
         [kind |-> listed[n].kind, start |-> observations[listed[n].from].ts,
          ts |-> observations[listed[n].at].ts]]

\* A session injected into a regular channel splits an interval, and unless it
\* lands on its middle, the shorter part is reported and nothing else: the
\* scorer, with no tolerance at all, finds neither a miss nor a false positive
\* (rules.py:436-442, sim/score.py:41-112).  With fewer than five intervals it
\* would move the median.
InjectedSessionIsFound ==
  (stage = "done" /\ windows = {} /\ Len(observations) >= 6 /\ (\E band \in Bands : Bands = {band})
   /\ SessionFindings({}) = {}) =>
    \A i \in 2..(Len(observations) - 1) :
      LET before == Gap(<<i - 1, i>>)
          period == before + Gap(<<i, i + 1>>)
          manifest == <<[kind |-> "off_cycle_burst", t |-> observations[i].ts]>>
      IN  RegularWithout(i, period) /\ period > 0 /\ 2 * before # period =>
            Scoring!Perfect(Scoring!ScoreOne(manifest, Found, 0))

SeverityOf == [k \in Kind |-> IF k \in {"new_asn", "tunnel_indicator"} THEN "high" ELSE "medium"]

\* The findings as the network monitor sends them (demo/tls_monitor.py:214-215),
\* when only the inverter is in the inventory.
Sent(watts) ==
  LET listed == Scoring!SetToSeq(findings)
  IN  Ranking!Rank(Ranking!Enrich(
        [n \in DOMAIN listed |->
           [subject |-> observations[listed[n].at].subject, severity |-> SeverityOf[listed[n].kind]]],
        [inverter |-> watts]))

\* A device that is not in the inventory is kept "at the bottom"
\* (inventory.py:25-27): nothing is dropped, and its findings come after those
\* of a known device, unless that one's capacity is no more than the nominal
\* one, is missing or zero, or is up to three times the nominal one and the rules
\* found the unknown one's sessions to be worse.
UnknownComesLast ==
  stage = "done" =>
    \A watts \in ListedWatts :
      LET sent == Sent(watts)
          nominal == Ranking!UnknownDeviceWatts
      IN  /\ Len(sent) = Cardinality(findings)
          /\ \A m, n \in DOMAIN sent :
               sent[m].subject # "inverter" /\ sent[n].subject = "inverter" /\ m < n =>
                 \/ watts <= nominal
                 \/ watts <= 3 * nominal /\ sent[m].severity = "high" /\ sent[n].severity = "medium"

=============================================================================
