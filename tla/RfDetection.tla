----------------------------- MODULE RfDetection -----------------------------
(***************************************************************************)
(* From one sweep of the band to the transmitters in it, and from those to *)
(* findings (collectors/rf.py).                                            *)
(*                                                                         *)
(* A sweep is a sequence of [freq, power], sorted.  Powers are integers in *)
(* units of 1/6 dB, so that the averages of the code are exact; the powers *)
(* of the bins are whole multiples of 10 dB.  Frequencies are in units of  *)
(* 1/Fine of a bin, and a measured frequency is rounded down to one.       *)
(***************************************************************************)
EXTENDS Integers, Sequences, FiniteSetsExt, SequencesExt

CONSTANTS
  Fine, \* frequency units in one bin
  Tol   \* the match tolerance (--tolerance-hz), in frequency units

ASSUME FrequencyAssumption == Fine \in Nat \ {0} /\ Tol \in Nat

Db == 6
Snr == 10 * Db
MinProminence == 3 * Db
SpreadMultiplier == 4
MinSpread == Db \div 2
MinimumBins == 5

Distance(f, g) == IF f < g THEN g - f ELSE f - g

Powers(sweep) == SubSeq([i \in DOMAIN sweep |-> sweep[i].power], 1, Len(sweep))

Total(f) == FoldFunction(+, 0, f)

\* The elements of S, in the order of R, a set of pairs: before the k-th there
\* are k - 1.
InOrder(S, R) ==
  [k \in 1..Cardinality(S) |-> CHOOSE x \in S : Cardinality({y \in S : <<y, x>> \in R}) = k - 1]

\* Of an even number of values, the mean of the two in the middle.
Median(values) ==
  LET ordered == SortSeq(values, LAMBDA x, y : x < y)
      middle == Len(ordered) \div 2
  IN  IF Len(ordered) % 2 = 1 THEN ordered[middle + 1]
      ELSE (ordered[middle] + ordered[middle + 1]) \div 2

\* The mean of each bin and its neighbours, of two bins at the edges.
Smooth(powers) ==
  LET near(i) == {i - 1, i, i + 1} \cap DOMAIN powers
      at(j) == IF j \in DOMAIN powers THEN powers[j] ELSE 0
      mean(i) == (at(i - 1) + at(i) + at(i + 1)) \div Cardinality(near(i))
  IN  SubSeq([i \in DOMAIN powers |-> mean(i)], 1, Len(powers))

\* How far a peak stands above the higher of the two dips next to it, each
\* the lowest bin before the band rises above the peak or ends.
Prominence(s, peak) ==
  LET left  == {i \in 1..peak : \A j \in i..peak : s[j] <= s[peak]}
      right == {i \in peak..Len(s) : \A j \in peak..i : s[j] <= s[peak]}
      dip(bins) == Min({s[i] : i \in bins})
  IN  s[peak] - Max({dip(left), dip(right)})

Threshold(powers) ==
  LET floor == Median(powers)
      measured == Median([i \in DOMAIN powers |-> Distance(powers[i], floor)])
      spread == IF measured = 0 THEN MinSpread ELSE measured
  IN  floor + Max({Snr, SpreadMultiplier * spread})

\* The bins of one carrier: downhill from its peak on both sides, until the
\* band climbs, stays level or falls into the noise.
Extent(s, peak, threshold) ==
  {i \in 1..peak :
     \A j \in i..(peak - 1) : s[j] < s[j + 1] /\ s[j] >= threshold}
  \cup
  {i \in peak..Len(s) :
     \A j \in (peak + 1)..i : s[j] < s[j - 1] /\ s[j] >= threshold}

\* 10 ^ (power / 10 dB)
Linear(power) == FoldSet(LAMBDA i, product : 10 * product, 1, 1..(power \div (10 * Db)))

WeightedCentre(sweep, bins) ==
  LET weight == [i \in bins |-> Linear(sweep[i].power)]
  IN  Total([i \in bins |-> sweep[i].freq * weight[i]]) \div Total(weight)

\* Louder than both neighbours (of a level top, the last bin), above the
\* threshold, and clear of the dip between it and a louder peak.
Peaks(s, threshold) ==
  {i \in 2..(Len(s) - 1) :
     /\ s[i] >= threshold
     /\ s[i] >= s[i - 1] /\ s[i] > s[i + 1]
     /\ Prominence(s, i) >= MinProminence}

\* The order of the carriers' frequencies, and of equal ones that of their peaks,
\* as the sort is stable.
Lower(carriers) ==
  {p \in carriers \X carriers :
     \/ p[1].freq < p[2].freq
     \/ p[1].freq = p[2].freq /\ p[1].peak < p[2].peak}

FindCarriers(sweep) ==
  IF Len(sweep) < MinimumBins THEN <<>>
  ELSE LET powers == Powers(sweep)
           s == Smooth(powers)
           threshold == Threshold(powers)
           carriers == {[peak |-> i, power |-> powers[i],
                         freq |-> WeightedCentre(sweep, Extent(s, i, threshold))] :
                          i \in Peaks(s, threshold)}
       IN  InOrder(carriers, Lower(carriers))

----------------------------------------------------------------------------
(* The baseline *)

\* A measurement joins the first group whose first member is near enough.
Join(groups, freq) ==
  LET near == {g \in DOMAIN groups : Distance(groups[g][1], freq) <= Tol}
  IN  IF near = {} THEN Append(groups, <<freq>>)
      ELSE [groups EXCEPT ![Min(near)] = Append(@, freq)]

Average(group) == Total(group) \div Len(group)

Gather(groups, sweep) ==
  LET c == FindCarriers(sweep)
  IN  FoldLeft(Join, groups, [i \in DOMAIN c |-> c[i].freq])

\* carriers_from_sweeps
Learn(sweeps) ==
  LET groups == FoldLeft(Gather, <<>>, sweeps)
  IN  [g \in DOMAIN groups |-> [freq |-> Average(groups[g]), tol |-> Tol]]

----------------------------------------------------------------------------
(* Findings *)

MatchesTwice(emitter, carrier) ==
  Distance(emitter.freq, carrier.freq) <= 2 * emitter.tol

Matches(emitter, carrier) == Distance(emitter.freq, carrier.freq) <= emitter.tol

Strangers(carriers, known) ==
  {i \in DOMAIN carriers : \A e \in ToSet(known) : ~Matches(e, carriers[i])}

Part(carriers, positions) ==
  LET order == InOrder(positions, {p \in positions \X positions : p[1] < p[2]})
  IN  [k \in DOMAIN order |-> carriers[order[k]]]

\* Mutant: only when there are too many.
UnaccountedByNumber(carriers, known) ==
  IF Len(carriers) <= Len(known) THEN <<>> ELSE Part(carriers, Strangers(carriers, known))

Unaccounted(carriers, known) == Part(carriers, Strangers(carriers, known))

FindingsByIdentification(carriers, known) ==
  LET unaccounted == Unaccounted(carriers, known)
      offset(c) == Min({Distance(e.freq, c.freq) : e \in ToSet(known)})
  IN  [i \in DOMAIN unaccounted |->
         [severity |-> "critical", freq |-> unaccounted[i].freq,
          offset |-> offset(unaccounted[i])]]

FindingsByCounting(carriers, expected) ==
  IF Len(carriers) <= expected THEN <<>>
  ELSE <<[severity |-> IF Len(carriers) - expected > 1 THEN "critical" ELSE "high",
          excess |-> Len(carriers) - expected]>>

\* analyse_sweep: identification if there is a baseline, else counting.
AnalyseSweep(sweep, known, expected) ==
  LET carriers == FindCarriers(sweep)
  IN  [carriers |-> carriers,
       findings |-> IF known # <<>> THEN FindingsByIdentification(carriers, known)
                    ELSE FindingsByCounting(carriers, expected)]

=============================================================================
