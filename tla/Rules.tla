-------------------------------- MODULE Rules --------------------------------
(***************************************************************************)
(* core/rules.py: how the sessions of one capture become findings.         *)
(*                                                                         *)
(* `evaluate' learns a baseline from the sessions it is given, asks the    *)
(* per-session rules about each of them, and then asks the cadence rule    *)
(* about the whole stream, channel by channel.  Nothing is kept between    *)
(* two calls.                                                              *)
(*                                                                         *)
(* A session's size is its level: log10(bytes) in fixed steps.  On that    *)
(* scale `spike_factor * p95' is a sum, and the channel boundaries, which  *)
(* the code computes on the same scale, are midpoints; they are kept here  *)
(* doubled.  A rule's thresholds are per cent where the code has           *)
(* fractions.  A finding is a record with the position of the session it   *)
(* is about and the position where its interval starts (window_start; the  *)
(* session itself for the other rules); the order of the list is left to   *)
(* the ranking that follows.                                               *)
(***************************************************************************)
EXTENDS Integers, Sequences, FiniteSets, Functions

CONSTANTS
  Device,             \* source addresses: the subject of a session
  Network,            \* destination networks (ASN)
  AllowedNetworks,    \* allowed_asns
  TunnelNetworks,     \* networks whose name has one of TUNNEL_NAME_HINTS
  Country, AllowedCountries,
  Shape,              \* what a session may be, its start aside
  Pause,              \* the times that may pass between two starts
  Schedules,          \* the maintenance windows an operator may declare
  VolumeSpikeLevels,  \* VOLUME_SPIKE_FACTOR, as a difference of levels
  VolumePercent,      \* VOLUME_PERCENTILE
  EarlyPercent,       \* CADENCE_EARLY_FRACTION
  MaxFiringPercent,   \* CADENCE_MAX_FIRING_RATE
  MinFirings,         \* CADENCE_MIN_FIRINGS
  MinSessions,        \* MIN_SESSIONS_FOR_CADENCE
  MinLevelGap,        \* CHANNEL_MIN_LOG_GAP
  MaxChannels,        \* CHANNEL_MAX_COUNT
  Resolution,         \* one step of TIMESTAMP_MATCH_DECIMALS, in ticks
  MaxSessions         \* bound: sessions in one capture

ASSUME ThresholdsAssumption ==
  /\ VolumeSpikeLevels \in Nat /\ VolumePercent \in 0..99
  /\ EarlyPercent \in 0..100 /\ MaxFiringPercent \in 0..100
  /\ MinFirings \in Nat /\ MinSessions \in Nat \ {0, 1}
  /\ MinLevelGap \in Nat \ {0} /\ MaxChannels \in Nat \ {0}
  /\ Resolution \in Nat \ {0}

\* A schedule is a set of windows [start, end], both ends included.
ASSUME SchedulesAssumption == Schedules \subseteq SUBSET (Nat \X Nat)

ASSUME SessionsAssumption ==
  /\ Shape \subseteq [subject : Device, asn : Network, cc : Country, size : Nat]
  /\ Pause \subseteq Nat

Session ==
  [ts : Nat, subject : Device, asn : Network, cc : Country, size : Nat]

VARIABLES
  observations,  \* the sessions, sorted by start
  windows,       \* maintenance_windows
  findings,
  stage          \* how far evaluate has got

vars == <<observations, windows, findings, stage>>

Kind == {"new_asn", "tunnel_indicator", "geo_drift", "volume_spike", "off_cycle_burst"}

Finding == [kind : Kind, at : Nat, from : Nat]

TypeOK ==
  /\ observations \in Seq(Session)
  /\ windows \in Schedules
  /\ findings \in SUBSET Finding
  /\ stage \in {"collecting", "sessions", "done"}

Positions == DOMAIN observations

----------------------------------------------------------------------------
(* Helpers *)

InMaintenance(t, declared) == \E w \in declared : w[1] <= t /\ t <= w[2]

SessionId(i) ==
  <<(observations[i].ts + Resolution \div 2) \div Resolution, observations[i].subject>>

\* The k-th smallest of the values of f, counted with repetitions.
Kth(f, k) ==
  CHOOSE v \in Range(f) :
    /\ Cardinality({x \in DOMAIN f : f[x] < v}) < k
    /\ Cardinality({x \in DOMAIN f : f[x] <= v}) >= k

\* Twice the median, which is the mean of the two in the middle of an even number.
TwiceMedian(f) ==
  LET n == Cardinality(DOMAIN f)
  IN  Kth(f, (n + 1) \div 2) + Kth(f, n \div 2 + 1)

----------------------------------------------------------------------------
(* The baseline and the per-session rules *)

Level(i) == observations[i].size

\* Mutant: the percentile taken from the wrong end.
NormalLargeReversed ==
  LET index == (VolumePercent * Len(observations)) \div 100
  IN  Kth([i \in Positions |-> Level(i)], Len(observations) - index)

\* size_percentile: learned from all sessions of the stream.  The last index
\* is never passed, for a percentile below 100.
NormalLarge ==
  LET index == (VolumePercent * Len(observations)) \div 100
  IN  Kth([i \in Positions |-> Level(i)], index + 1)

LeavesAllowlist(i) == observations[i].asn \notin AllowedNetworks
LeavesCountry(i) == observations[i].cc \notin AllowedCountries

\* A session has at least the headers of a packet, so the percentile the code
\* compares with zero first is above it.
IsSpike(i, normalLarge) == Level(i) > normalLarge + VolumeSpikeLevels

\* Mutant: the maintenance test first, for all rules.
KindsOfQuiet(i, normalLarge, declared) ==
  IF InMaintenance(observations[i].ts, declared) THEN {}
  ELSE IF LeavesAllowlist(i)
  THEN {IF observations[i].asn \in TunnelNetworks THEN "tunnel_indicator" ELSE "new_asn"}
  ELSE IF LeavesCountry(i) THEN {"geo_drift"}
  ELSE IF IsSpike(i, normalLarge) THEN {"volume_spike"}
  ELSE {}

\* Mutant: a kind that events.KINDS does not have.
KindsOfMisnamed(i, normalLarge, declared) ==
  IF LeavesAllowlist(i) THEN {"new_asn"}
  ELSE IF LeavesCountry(i) THEN {"country"}
  ELSE IF InMaintenance(observations[i].ts, declared) THEN {}
  ELSE IF IsSpike(i, normalLarge) THEN {"volume_spike"}
  ELSE {}

\* What the per-session rules say of a session: the first that fires.
KindsOf(i, normalLarge, declared) ==
  IF LeavesAllowlist(i)
  THEN {IF observations[i].asn \in TunnelNetworks THEN "tunnel_indicator" ELSE "new_asn"}
  ELSE IF LeavesCountry(i) THEN {"geo_drift"}
  ELSE IF InMaintenance(observations[i].ts, declared) THEN {}
  ELSE IF IsSpike(i, normalLarge) THEN {"volume_spike"}
  ELSE {}

SessionFindings(declared) ==
  LET normalLarge == NormalLarge
  IN  UNION {{[kind |-> k, at |-> i, from |-> i] : k \in KindsOf(i, normalLarge, declared)} :
               i \in Positions}

----------------------------------------------------------------------------
(* Channels: sessions grouped by size *)

Levels == {Level(i) : i \in Positions}

\* The pairs of numbers of S with none between them.
Neighbours(S) ==
  {p \in S \X S : p[1] < p[2] /\ \A c \in S : ~(p[1] < c /\ c < p[2])}

\* gaps_with_position.sort(reverse=True): the widest first, and of equal gaps
\* the later one.
Wider(m, n) ==
  LET gap(p) == p[2] - p[1]
  IN  gap(m) > gap(n) \/ (gap(m) = gap(n) /\ m[1] > n[1])

\* The widest gaps, and of those only the wide ones.
Cuts(gaps) ==
  {n \in gaps : /\ n[2] - n[1] >= MinLevelGap
                /\ Cardinality({m \in gaps : Wider(m, n)}) < MaxChannels - 1}

Smallest(S) == CHOOSE a \in S : \A b \in S : a <= b
Largest(S) == CHOOSE a \in S : \A b \in S : a >= b

\* Doubled: just below the smallest size, the midpoints of the cuts, and above
\* every size.
EdgesOf(levels) ==
  {2 * Smallest(levels) - 1} \cup {n[1] + n[2] : n \in Cuts(Neighbours(levels))}
    \cup {2 * Largest(levels) + 1}

\* Mutant: bands that end where the sizes of a channel do, as in an earlier
\* version of split_into_channels.
BandsOfSizes(levels) ==
  LET cuts == Cuts(Neighbours(levels))
      lows == {2 * Smallest(levels) - 1} \cup {2 * n[2] : n \in cuts}
      highs == {n[1] + n[2] : n \in cuts} \cup {2 * Largest(levels) + 1}
  IN  {b \in lows \X highs :
         b[1] < b[2] /\ \A h \in highs : ~(b[1] < h /\ h < b[2])}

\* The boundaries are contiguous: a band ends where the next one starts.
BandsOf(levels) == Neighbours(EdgesOf(levels))

Bands == BandsOf(Levels)

InBand(size, band) == band[1] < 2 * size /\ 2 * size <= band[2]

\* channel_of: the band the size is in, or else the last.
ChannelOf(size, bands) ==
  IF \E b \in bands : InBand(size, b)
  THEN CHOOSE b \in bands : InBand(size, b)
  ELSE CHOOSE b \in bands : \A c \in bands : c[2] <= b[2]

----------------------------------------------------------------------------
(* The cadence rule *)

\* The sessions of a channel, in order of start, which is the order of the
\* stream: each with the one before it.
Intervals(members) == Neighbours(members)

Gap(p) == observations[p[2]].ts - observations[p[1]].ts

\* Mutant: the rate taken for a multiple.
ShouldAbstainRarely(early, gaps) ==
  /\ early > MinFirings
  /\ early > MaxFiringPercent * gaps

\* Mutant: no floor for small channels.
ShouldAbstainSmall(early, gaps) == 100 * early > MaxFiringPercent * gaps

\* The intervals of a channel that are shorter than EarlyPercent of its period.
EarlyIn(intervals) ==
  LET twicePeriod == TwiceMedian([p \in intervals |-> Gap(p)])
  IN  IF twicePeriod <= 0 THEN {}
      ELSE {p \in intervals : 200 * Gap(p) < EarlyPercent * twicePeriod}

ShouldAbstain(early, gaps) ==
  /\ early > MinFirings
  /\ 100 * early > MaxFiringPercent * gaps

EarlyOfChannel(members) ==
  IF Cardinality(members) < MinSessions THEN {}
  ELSE LET intervals == Intervals(members)
           early == EarlyIn(intervals)
       IN  IF ShouldAbstain(Cardinality(early), Cardinality(intervals)) THEN {} ELSE early

\* Mutant: the later end only.
IsExplainedLater(p, explained) == SessionId(p[2]) \in explained

\* The early intervals of the stream, over all its channels.
EarlyIntervals ==
  IF Len(observations) < MinSessions THEN {}
  ELSE LET bands == Bands
           channel == [i \in Positions |-> ChannelOf(Level(i), bands)]
       IN  UNION {EarlyOfChannel({i \in Positions : channel[i] = b}) : b \in bands}

IsExplained(p, explained) == \E e \in {p[1], p[2]} : SessionId(e) \in explained

UnderMaintenance(p, declared) ==
  \E e \in {p[1], p[2]} : InMaintenance(observations[e].ts, declared)

CadenceFindings(explained, declared) ==
  {[kind |-> "off_cycle_burst", at |-> p[2], from |-> p[1]] :
     p \in {q \in EarlyIntervals : /\ ~IsExplained(q, explained)
                                   /\ ~UnderMaintenance(q, declared)}}

Explained(found) == {SessionId(f.at) : f \in found}

----------------------------------------------------------------------------
(* evaluate *)

Init ==
  /\ observations = <<>>
  /\ windows \in Schedules
  /\ findings = {}
  /\ stage = "collecting"

LastStart == IF observations = <<>> THEN 0 ELSE observations[Len(observations)].ts

\* The collector's list, sorted by start time (tls_egress.py:168 and 196).
Observe(shape, pause) ==
  /\ stage = "collecting"
  /\ Len(observations) < MaxSessions
  /\ observations' = Append(observations,
       [ts |-> LastStart + pause, subject |-> shape.subject, asn |-> shape.asn,
        cc |-> shape.cc, size |-> shape.size])
  /\ UNCHANGED <<windows, findings, stage>>

CheckSessions ==
  /\ stage = "collecting"
  /\ findings' = SessionFindings(windows)
  /\ stage' = "sessions"
  /\ UNCHANGED <<observations, windows>>

CheckCadence ==
  /\ stage = "sessions"
  /\ findings' = findings \cup CadenceFindings(Explained(findings), windows)
  /\ stage' = "done"
  /\ UNCHANGED <<observations, windows>>

Next ==
  \/ \E shape \in Shape, pause \in Pause : Observe(shape, pause)
  \/ CheckSessions
  \/ CheckCadence

Spec == Init /\ [][Next]_vars

----------------------------------------------------------------------------
(* Properties *)

\* One session, one finding (rules.py:360-371 and 504-506): no two findings are about
\* the same session, and an interval is not off cycle when another rule owns
\* either end of it.
OneFindingPerSession ==
  \A f, g \in findings :
    /\ f.at = g.at => f = g
    /\ f.kind = "off_cycle_burst" /\ g.kind # "off_cycle_burst" =>
         g.at \notin {f.at, f.from}

\* What evaluate returns for the same sessions under another schedule.
FindingsUnder(declared) ==
  LET found == SessionFindings(declared)
  IN  found \cup CadenceFindings(Explained(found), declared)

\* A maintenance window explains timing and volume of what happens in it, and
\* nothing else (rules.py:472-475): without the schedule there would be no more
\* findings than with it, but for spikes and early intervals with an end in a
\* window.
MaintenanceExplainsOnlyItsOwn ==
  stage = "done" =>
    \A f \in FindingsUnder({}) \ findings :
      /\ f.kind \in {"volume_spike", "off_cycle_burst"}
      /\ \E e \in {f.at, f.from} : InMaintenance(observations[e].ts, windows)

\* No session falls into a hole between two channels, or into two of them
\* (rules.py:156-162 and 194-200).
OneBandEach ==
  LET bands == Bands
  IN  \A i \in Positions : \E b \in bands :
        /\ InBand(Level(i), b)
        /\ \A c \in bands : InBand(Level(i), c) => c = b

\* However badly the channels are split, the cadence rule reports a small share
\* of the sessions, or a few per channel that is large enough to have a period
\* (rules.py:336-357).
NeverFloods ==
  100 * Cardinality({f \in findings : f.kind = "off_cycle_burst"})
    <= MaxFiringPercent * Len(observations)
         + 100 * MinFirings * (Len(observations) \div MinSessions)

\* Spikes are measured against the stream they are in: no more sessions spike
\* than there are above the percentile (rules.py:31-36 and 131-138).
SpikesAreFew ==
  100 * Cardinality({f \in findings : f.kind = "volume_spike"})
    <= (100 - VolumePercent) * Len(observations)

=============================================================================
