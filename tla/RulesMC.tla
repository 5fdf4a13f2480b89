------------------------------- MODULE RulesMC -------------------------------
(***************************************************************************)
(* Rules over every short stream of one device's sessions in which at most *)
(* MaxUnusual are not the heartbeat: another channel, a firmware-sized     *)
(* transfer, a foreign network, a foreign country.  The heartbeat comes    *)
(* every 4 ticks; 1 and 3 are what a session injected into it makes of one *)
(* interval.                                                               *)
(***************************************************************************)
EXTENDS RulesOutcome

CONSTANT MaxUnusual   \* bound: sessions other than heartbeats in one stream

Heartbeat == [subject |-> "inverter", asn |-> "vendor", cc |-> "US", size |-> 10]

MCShape ==
  {Heartbeat,
   [Heartbeat EXCEPT !.size = 13],
   [Heartbeat EXCEPT !.size = 20],
   [Heartbeat EXCEPT !.asn = "vpn", !.subject = "logger"],
   [Heartbeat EXCEPT !.cc = "XX"]}

MCPause == {1, 3, 4}
MCSchedules == {{}, {<<9, 11>>}}

\* No capacity, none at all, the nominal one, three times it and a little more, and
\* the 501 kW of inventory.py:7.
MCListedWatts == {-1, 0, 1000, 3000, 3001, 501000}

Unusual(o) == o.size # Heartbeat.size \/ o.asn # Heartbeat.asn \/ o.cc # Heartbeat.cc

\* Only when it starts matters of the first session.
FewUnusual ==
  /\ Cardinality({i \in Positions : Unusual(observations[i])}) <= MaxUnusual
  /\ observations # <<>> => observations[1].ts = 4

----------------------------------------------------------------------------
\* A session is a spike when it is VOLUME_SPIKE_FACTOR times larger than the 95th
\* percentile "session we have already seen" (rules.py:31-32), of which there
\* are five or more.
SpikeAgainstThePast ==
  stage = "done" =>
    \A i \in {n \in Positions : n > 5} :
      LET past == [j \in 1..(i - 1) |-> Level(j)]
          usual == Kth(past, (VolumePercent * (i - 1)) \div 100 + 1)
      IN  (/\ ~LeavesAllowlist(i) /\ ~LeavesCountry(i)
           /\ ~InMaintenance(observations[i].ts, windows)
           /\ Level(i) > usual + VolumeSpikeLevels) =>
            \E f \in findings : f.kind = "volume_spike" /\ f.at = i

=============================================================================
