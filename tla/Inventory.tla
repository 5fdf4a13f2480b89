------------------------------ MODULE Inventory ------------------------------
(***************************************************************************)
(* correlate/inventory.py and the priority of a finding (core/events.py):  *)
(* the capacity behind a device weights the findings about it.  Capacities *)
(* are in watts, weights in tenths.                                        *)
(***************************************************************************)
EXTENDS Integers, Sequences, FiniteSets

UnknownDeviceWatts == 1000

\* Inventory.capacity_mw and the two cases of enrich: a record may lack a
\* capacity, here -1.
Capacity(records, subject) ==
  IF subject \notin DOMAIN records \/ records[subject] = -1 THEN UnknownDeviceWatts
                                                           ELSE records[subject]

Enrich(findings, records) ==
  [n \in DOMAIN findings |->
     [subject |-> findings[n].subject, severity |-> findings[n].severity,
      watts |-> Capacity(records, findings[n].subject)]]

Weight == [info |-> 1, low |-> 3, medium |-> 10, high |-> 30, critical |-> 100]

\* Mutant: the severity alone.
PriorityOfSeverity(finding) == Weight[finding.severity]

\* A capacity of zero counts as no capacity.
Priority(finding) ==
  Weight[finding.severity] * (IF finding.watts = 0 THEN UnknownDeviceWatts ELSE finding.watts)

\* sorted() is stable: a finding goes after those of a higher priority and after
\* the earlier ones of its own.
Rank(findings) ==
  LET all == 1 .. Len(findings)
      before(m, n) == \/ Priority(findings[m]) > Priority(findings[n])
                      \/ Priority(findings[m]) = Priority(findings[n]) /\ m < n
      place(n) == 1 + Cardinality({m \in all : before(m, n)})
  IN  [k \in all |-> findings[CHOOSE n \in all : place(n) = k]]

=============================================================================
