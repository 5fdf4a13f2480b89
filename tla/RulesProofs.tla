----------------------------- MODULE RulesProofs -----------------------------
(***************************************************************************)
(* What Rules promises for every stream of sessions, every schedule and    *)
(* every threshold, and what becomes of its findings (RulesOutcome).       *)
(***************************************************************************)
EXTENDS RulesOutcome, FiniteSetTheorems, FunctionTheorems, WellFoundedInduction, TLAPS

----------------------------------------------------------------------------
(* Least and greatest elements *)

LEMMA LeastOfNat ==
  ASSUME NEW T, T \subseteq Nat, T # {}
  PROVE  \E x \in T : \A y \in T : x <= y
<1>1. PICK x \in T : \A y \in T : ~(<<y, x>> \in OpToRel(<, Nat))
  BY WFMin, NatLessThanWellFounded, Zenon
<1>2. \A y \in T : ~(y < x)
  BY <1>1, Zenon DEF OpToRel
<1>3. \A y \in T : y \in Nat
  OBVIOUS
<1>4. QED
  BY <1>2, <1>3

LEMMA LeastOfInt ==
  ASSUME NEW T, T \subseteq Int, T # {}, NEW bound \in Int, \A y \in T : bound <= y
  PROVE  \E x \in T : \A y \in T : x <= y
<1>1. PICK U : U = {y - bound : y \in T}
  OBVIOUS
<1>2. U \subseteq Nat /\ U # {}
  <2>1. \A y \in T : y \in Int /\ y - bound \in Nat
    OBVIOUS
  <2>2. QED
    BY <1>1, <2>1
<1>3. PICK u \in U : \A v \in U : u <= v
  BY <1>2, LeastOfNat
<1>4. PICK x \in T : u = x - bound
  BY <1>1
<1>5. \A y \in T : x - bound <= y - bound
  BY <1>1, <1>3, <1>4
<1>6. QED
  BY <1>5

LEMMA GreatestOfInt ==
  ASSUME NEW T, T \subseteq Int, T # {}, NEW bound \in Int, \A y \in T : y <= bound
  PROVE  \E x \in T : \A y \in T : y <= x
<1>1. PICK U : U = {bound - y : y \in T}
  OBVIOUS
<1>2. U \subseteq Nat /\ U # {}
  <2>1. \A y \in T : y \in Int /\ bound - y \in Nat
    OBVIOUS
  <2>2. QED
    BY <1>1, <2>1
<1>3. PICK u \in U : \A v \in U : u <= v
  BY <1>2, LeastOfNat
<1>4. PICK x \in T : u = bound - x
  BY <1>1
<1>5. \A y \in T : bound - x <= bound - y
  BY <1>1, <1>3, <1>4
<1>6. QED
  BY <1>5

\* A function on a finite set takes a greatest value: where the fewest are above it.
LEMMA GreatestValue ==
  ASSUME NEW D, D # {}, IsFiniteSet(D), NEW f \in [D -> Int]
  PROVE  \E x \in D : \A y \in D : f[y] <= f[x]
<1>1. PICK above : above = [x \in D |-> {y \in D : f[y] > f[x]}]
  OBVIOUS
<1>2. \A x \in D : above[x] \in SUBSET D
  BY <1>1
<1>3. \A x \in D : IsFiniteSet(above[x]) /\ Cardinality(above[x]) \in Nat
  BY <1>2, FS_Subset, FS_CardinalityType
<1>4. PICK C : C = {Cardinality(above[x]) : x \in D}
  OBVIOUS
<1>5. C \subseteq Nat /\ C # {}
  BY <1>3, <1>4
<1>6. PICK c \in C : \A d \in C : c <= d
  BY <1>5, LeastOfNat
<1>7. PICK x \in D : c = Cardinality(above[x])
  BY <1>4, <1>6
<1>8. ASSUME NEW y \in D, ~(f[y] <= f[x])
      PROVE  FALSE
  <2>1. f[x] \in Int /\ f[y] \in Int /\ \A z \in D : f[z] \in Int
    OBVIOUS
  <2>2. above[y] \in SUBSET above[x] /\ y \in above[x] /\ y \notin above[y]
    BY <1>1, <1>8, <2>1
  <2>3. /\ Cardinality(above[y]) <= Cardinality(above[x])
        /\ Cardinality(above[y]) = Cardinality(above[x]) => above[y] = above[x]
    BY <1>3, <2>2, FS_Subset
  <2>4. Cardinality(above[x]) <= Cardinality(above[y])
    BY <1>4, <1>6, <1>7
  <2>5. Cardinality(above[x]) # Cardinality(above[y])
    BY <2>2, <2>3
  <2>6. QED
    BY <1>3, <2>3, <2>4, <2>5
<1>9. QED
  BY <1>8

\* A number between two of a set is between two neighbours of it, and no others.
LEMMA BetweenNeighbours ==
  ASSUME NEW S, S \subseteq Int, NEW x \in Int,
         \E e \in S : e < x, \E e \in S : x <= e
  PROVE  \E b \in Neighbours(S) :
           /\ b[1] < x /\ x <= b[2]
           /\ \A c \in Neighbours(S) : c[1] < x /\ x <= c[2] => c = b
<1>0. \A e \in S : e \in Int
  OBVIOUS
<1>1. PICK low \in S : low < x /\ \A e \in S : e < x => e <= low
  <2>1. PICK T : T = {f \in S : f < x}
    OBVIOUS
  <2>2. \A e \in T : e \in Int /\ e < x
    BY <1>0, <2>1
  <2>9. ASSUME NEW e \in T PROVE e <= x
    <3>1. e \in Int /\ e < x /\ x \in Int
      BY <2>2
    <3>2. QED
      BY <3>1
  <2>3. T # {} /\ T \subseteq Int
    BY <2>1
  <2>4. \E z \in T : \A e \in T : e <= z
    BY <2>9, <2>3, GreatestOfInt
  <2>5. QED
    BY <2>1, <2>4
<1>2. PICK high \in S : x <= high /\ \A e \in S : x <= e => high <= e
  <2>1. PICK T : T = {f \in S : x <= f}
    OBVIOUS
  <2>2. \A e \in T : x <= e
    BY <2>1
  <2>3. T # {} /\ T \subseteq Int
    BY <2>1
  <2>4. \E z \in T : \A e \in T : z <= e
    BY <2>2, <2>3, LeastOfInt
  <2>5. QED
    BY <2>1, <2>4
<1>3. low \in S /\ high \in S /\ low < x /\ x <= high /\ low \in Int /\ high \in Int
  BY <1>0, <1>1, <1>2
<1>4. ASSUME NEW e \in S, low < e, e < high
      PROVE  FALSE
  <2>1. e \in Int /\ x \in Int
    BY <1>0
  <2>2. CASE e < x
    <3>1. e <= low
      BY <1>1, <2>2
    <3>2. QED
      BY <1>3, <1>4, <2>1, <3>1
  <2>3. CASE x <= e
    <3>1. high <= e
      BY <1>2, <2>3
    <3>2. QED
      BY <1>3, <1>4, <2>1, <3>1
  <2>4. QED
    BY <2>1, <2>2, <2>3
<1>5. <<low, high>> \in Neighbours(S)
  BY <1>3, <1>4 DEF Neighbours
<1>6. ASSUME NEW c \in Neighbours(S), c[1] < x, x <= c[2]
      PROVE  c = <<low, high>>
  <2>1. /\ c[1] \in S /\ c[2] \in S /\ c = <<c[1], c[2]>>
        /\ \A e \in S : ~(c[1] < e /\ e < c[2])
    BY <1>6 DEF Neighbours
  <2>2. c[1] <= low /\ high <= c[2] /\ c[1] \in Int /\ c[2] \in Int
    BY <1>0, <1>1, <1>2, <1>6, <2>1
  <2>3. ~(c[1] < low /\ low < c[2]) /\ ~(c[1] < high /\ high < c[2])
    BY <1>3, <2>1
  <2>4. c[1] = low /\ c[2] = high
    BY <1>3, <1>6, <2>2, <2>3
  <2>5. QED
    BY <2>1, <2>4
<1>7. QED
  BY <1>3, <1>5, <1>6

----------------------------------------------------------------------------
(* Early intervals *)

USE ThresholdsAssumption, SchedulesAssumption, SessionsAssumption

\* The cadence rule picks intervals of a channel, and abstaining only drops them.
LEMMA EarlyAreIntervals ==
  ASSUME NEW members
  PROVE  EarlyOfChannel(members) \subseteq Intervals(members)
<1>1. EarlyIn(Intervals(members)) \subseteq Intervals(members)
  BY DEF EarlyIn
<1>2. QED
  BY <1>1 DEF EarlyOfChannel

\* An early interval runs between two sessions that follow each other in the
\* channel of the later one.
LEMMA EarlyInChannel ==
  \E channel :
    \A p \in EarlyIntervals :
      /\ p \in Positions \X Positions
      /\ p[1] < p[2]
      /\ channel[p[1]] = channel[p[2]]
      /\ \A m \in Positions : channel[m] = channel[p[2]] => ~(p[1] < m /\ m < p[2])
<1>1. PICK channel : channel = [i \in Positions |-> ChannelOf(Level(i), Bands)]
  OBVIOUS
<1>2. ASSUME NEW b
      PROVE  {i \in Positions : [j \in Positions |-> ChannelOf(Level(j), Bands)][i] = b}
               = {i \in Positions : channel[i] = b}
  BY <1>1
<1>3. ASSUME NEW p \in EarlyIntervals
      PROVE  \E b : p \in Intervals({i \in Positions : channel[i] = b})
  <2>1. PICK b : p \in EarlyOfChannel(
          {i \in Positions : [j \in Positions |-> ChannelOf(Level(j), Bands)][i] = b})
    BY DEF EarlyIntervals
  <2>2. p \in EarlyOfChannel({i \in Positions : channel[i] = b})
    BY <1>2, <2>1
  <2>3. QED
    BY <2>2, EarlyAreIntervals
<1>4. ASSUME NEW p \in EarlyIntervals
      PROVE  /\ p \in Positions \X Positions
             /\ p[1] < p[2]
             /\ channel[p[1]] = channel[p[2]]
             /\ \A m \in Positions : channel[m] = channel[p[2]] =>
                  ~(p[1] < m /\ m < p[2])
  BY <1>3 DEF Intervals, Neighbours
<1>5. QED
  BY <1>4

\* Each session ends one early interval at most.
LEMMA OneIntervalEach ==
  ASSUME TypeOK, NEW p \in EarlyIntervals, NEW q \in EarlyIntervals, p[2] = q[2]
  PROVE  p = q
<1>1. PICK channel :
        \A r \in EarlyIntervals :
          /\ r \in Positions \X Positions
          /\ r[1] < r[2]
          /\ channel[r[1]] = channel[r[2]]
          /\ \A m \in Positions : channel[m] = channel[r[2]] =>
               ~(r[1] < m /\ m < r[2])
  BY EarlyInChannel
<1>2. /\ p[1] \in Positions /\ q[1] \in Positions
      /\ p = <<p[1], p[2]>> /\ q = <<q[1], q[2]>>
  BY <1>1
<1>3. Positions \subseteq Nat
  BY DEF TypeOK, Positions
<1>4. ~(p[1] < q[1]) /\ ~(q[1] < p[1])
  BY <1>1, <1>2
<1>5. QED
  BY <1>2, <1>3, <1>4

----------------------------------------------------------------------------
(* Type correctness *)

\* What the per-session rules say of a session is of a known kind, and at most
\* one thing.
LEMMA KindsOfSession ==
  ASSUME NEW i, NEW normalLarge, NEW declared
  PROVE  /\ KindsOf(i, normalLarge, declared) \subseteq Kind \ {"off_cycle_burst"}
         /\ \A k, l \in KindsOf(i, normalLarge, declared) : k = l
BY DEF KindsOf, Kind

LEMMA SessionFindingsShape ==
  ASSUME NEW declared, NEW f \in SessionFindings(declared)
  PROVE  /\ f.at \in Positions /\ f.from = f.at
         /\ f.kind \in KindsOf(f.at, NormalLarge, declared)
         /\ f = [kind |-> f.kind, at |-> f.at, from |-> f.at]
BY DEF SessionFindings

LEMMA CadenceFindingsShape ==
  ASSUME NEW declared, NEW explained, NEW f \in CadenceFindings(explained, declared)
  PROVE  /\ f.kind = "off_cycle_burst"
         /\ <<f.from, f.at>> \in EarlyIntervals
         /\ f = [kind |-> "off_cycle_burst", at |-> f.at, from |-> f.from]
         /\ ~IsExplained(<<f.from, f.at>>, explained)
         /\ ~UnderMaintenance(<<f.from, f.at>>, declared)
<1>1. PICK p \in EarlyIntervals :
        /\ f = [kind |-> "off_cycle_burst", at |-> p[2], from |-> p[1]]
        /\ ~IsExplained(p, explained)
        /\ ~UnderMaintenance(p, declared)
  BY DEF CadenceFindings
<1>2. p = <<p[1], p[2]>>
  BY EarlyInChannel
<1>3. p = <<f.from, f.at>>
  BY <1>1, <1>2
<1>4. QED
  BY <1>1, <1>3

LEMMA FindingTypes ==
  ASSUME TypeOK, NEW declared
  PROVE  /\ SessionFindings(declared) \subseteq Finding
         /\ \A explained : CadenceFindings(explained, declared) \subseteq Finding
<1>1. Positions \subseteq Nat
  BY DEF TypeOK, Positions
<1>2. ASSUME NEW f \in SessionFindings(declared)
      PROVE  f \in Finding
  BY <1>1, <1>2, SessionFindingsShape, KindsOfSession DEF Finding
<1>3. ASSUME NEW explained, NEW f \in CadenceFindings(explained, declared)
      PROVE  f \in Finding
  <2>1. /\ f = [kind |-> "off_cycle_burst", at |-> f.at, from |-> f.from]
        /\ <<f.from, f.at>> \in EarlyIntervals
    BY <1>3, CadenceFindingsShape
  <2>2. <<f.from, f.at>> \in Positions \X Positions
    BY <2>1, EarlyInChannel
  <2>3. f.at \in Nat /\ f.from \in Nat
    BY <1>1, <2>2
  <2>4. QED
    BY <2>1, <2>3 DEF Finding, Kind
<1>4. QED
  BY <1>2, <1>3

LEMMA TypeStep ==
  ASSUME TypeOK, [Next]_vars
  PROVE  TypeOK'
<1>1. ASSUME NEW shape \in Shape, NEW pause \in Pause, Observe(shape, pause)
      PROVE  TypeOK'
  <2>1. LastStart \in Nat
    <3>1. CASE observations = <<>>
      BY <3>1 DEF LastStart
    <3>2. CASE observations # <<>>
      <4>1. observations[Len(observations)] \in Session
        BY <3>2 DEF TypeOK
      <4>2. QED
        BY <3>2, <4>1 DEF LastStart, Session
    <3>3. QED
      BY <3>1, <3>2
  <2>2. LastStart + pause \in Nat
    BY <2>1
  <2>3. [ts |-> LastStart + pause, subject |-> shape.subject, asn |-> shape.asn,
         cc |-> shape.cc, size |-> shape.size] \in Session
    BY <2>2 DEF Session
  <2>4. QED
    BY <1>1, <2>3 DEF Observe, TypeOK
<1>2. CASE CheckSessions
  BY <1>2, FindingTypes DEF CheckSessions, TypeOK
<1>3. CASE CheckCadence
  BY <1>3, FindingTypes DEF CheckCadence, TypeOK
<1>4. CASE UNCHANGED vars
  BY <1>4 DEF TypeOK, vars
<1>5. QED
  BY <1>1, <1>2, <1>3, <1>4 DEF Next

\* evaluate keeps its types: every finding is of a kind events.KINDS has
\* (events.py:62-66), whatever the sessions and the thresholds are.
THEOREM TypeCorrect == Spec => []TypeOK
<1>1. Init => TypeOK
  BY DEF Init, TypeOK
<1>2. TypeOK /\ [Next]_vars => TypeOK'
  BY TypeStep
<1>3. QED
  BY <1>1, <1>2, PTL DEF Spec

----------------------------------------------------------------------------
(* The rules are functions of the sessions *)

LEMMA SameSessions ==
  ASSUME observations' = observations, NEW CONSTANT declared
  PROVE  /\ SessionFindings(declared)' = SessionFindings(declared)
         /\ FindingsUnder(declared)' = FindingsUnder(declared)
<1>1. Positions' = Positions /\ Levels' = Levels
  BY DEF Positions, Levels, Level
<1>2. NormalLarge' = NormalLarge
  BY DEF NormalLarge, Positions, Level
<1>3. SessionFindings(declared)' = SessionFindings(declared)
  BY <1>1, <1>2 DEF SessionFindings, KindsOf, LeavesAllowlist, LeavesCountry, IsSpike, Level
<1>4. Bands' = Bands
  BY <1>1 DEF Bands
<1>5. EarlyIntervals' = EarlyIntervals
  BY <1>1, <1>4 DEF EarlyIntervals, EarlyOfChannel, EarlyIn, Gap, Level
<1>6. Explained(SessionFindings(declared))' = Explained(SessionFindings(declared))
  BY <1>3 DEF Explained, SessionId
<1>7. FindingsUnder(declared)' = FindingsUnder(declared)
  BY <1>3, <1>5, <1>6 DEF FindingsUnder, CadenceFindings, IsExplained, UnderMaintenance, SessionId
<1>8. QED
  BY <1>3, <1>7

\* The findings are, at each stage, what the rules say of the sessions.
Progress ==
  \A declared \in Schedules : declared = windows =>
    /\ stage = "collecting" => findings = {}
    /\ stage = "sessions" => findings = SessionFindings(declared)
    /\ stage = "done" => findings = FindingsUnder(declared)

RulesInv == TypeOK /\ Progress

LEMMA InitRulesInv == Init => RulesInv
BY DEF Init, RulesInv, TypeOK, Progress

LEMMA RulesStep == RulesInv /\ [Next]_vars => RulesInv'
<1> SUFFICES ASSUME RulesInv, [Next]_vars PROVE RulesInv'
  OBVIOUS
<1>0. TypeOK /\ TypeOK'
  BY TypeStep DEF RulesInv
<1>1. ASSUME NEW shape \in Shape, NEW pause \in Pause, Observe(shape, pause)
      PROVE  Progress'
  BY <1>1 DEF Observe, RulesInv, Progress
<1>2. CASE CheckSessions
  <2>1. ASSUME NEW CONSTANT declared \in Schedules, declared = windows'
        PROVE  findings' = SessionFindings(declared)'
    <3>1. declared = windows /\ observations' = observations
      BY <1>2, <2>1 DEF CheckSessions
    <3>2. findings' = SessionFindings(declared)
      BY <1>2, <3>1 DEF CheckSessions
    <3>3. QED
      BY <3>1, <3>2, SameSessions
  <2>2. stage' = "sessions"
    BY <1>2 DEF CheckSessions
  <2>3. QED
    BY <1>0, <2>1, <2>2 DEF RulesInv, Progress
<1>3. CASE CheckCadence
  <2>1. ASSUME NEW CONSTANT declared \in Schedules, declared = windows'
        PROVE  findings' = FindingsUnder(declared)'
    <3>1. declared = windows /\ observations' = observations
      BY <1>3, <2>1 DEF CheckCadence
    <3>2. findings = SessionFindings(declared)
      BY <1>3, <3>1 DEF CheckCadence, RulesInv, Progress
    <3>3. findings' = FindingsUnder(declared)
      BY <1>3, <3>1, <3>2 DEF CheckCadence, FindingsUnder
    <3>4. QED
      BY <3>1, <3>3, SameSessions
  <2>2. stage' = "done"
    BY <1>3 DEF CheckCadence
  <2>3. QED
    BY <1>0, <2>1, <2>2 DEF RulesInv, Progress
<1>4. CASE UNCHANGED vars
  <2>1. ASSUME NEW CONSTANT declared \in Schedules
        PROVE  /\ SessionFindings(declared)' = SessionFindings(declared)
               /\ FindingsUnder(declared)' = FindingsUnder(declared)
    BY <1>4, SameSessions DEF vars
  <2>2. QED
    BY <1>0, <1>4, <2>1 DEF vars, RulesInv, Progress
<1>5. QED
  BY <1>0, <1>1, <1>2, <1>3, <1>4 DEF Next, RulesInv

LEMMA RulesInvariance == Spec => []RulesInv
BY InitRulesInv, RulesStep, PTL DEF Spec

----------------------------------------------------------------------------
(* One session, one finding *)

LEMMA OneSessionFindingEach ==
  ASSUME NEW declared, NEW f \in SessionFindings(declared),
         NEW g \in SessionFindings(declared), f.at = g.at
  PROVE  f = g
BY SessionFindingsShape, KindsOfSession

\* Evaluate reports a session once, whichever rules it breaks, and a session
\* another rule owns makes no interval off cycle (rules.py:360-371).
THEOREM OneFinding == Spec => []OneFindingPerSession
<1>1. ASSUME RulesInv PROVE OneFindingPerSession
  <2>1. PICK declared \in Schedules : declared = windows
    BY <1>1 DEF RulesInv, TypeOK
  <2>2. PICK found : found = SessionFindings(declared)
    OBVIOUS
  <2>3. findings \subseteq found \cup CadenceFindings(Explained(found), declared)
    BY <1>1, <2>1, <2>2 DEF RulesInv, TypeOK, Progress, FindingsUnder
  <2>4. ASSUME NEW f \in CadenceFindings(Explained(found), declared), NEW g \in found
        PROVE  g.at \notin {f.at, f.from}
    <3>1. SessionId(g.at) \in Explained(found)
      BY <2>4 DEF Explained
    <3>2. ~IsExplained(<<f.from, f.at>>, Explained(found))
      BY <2>4, CadenceFindingsShape
    <3>3. SessionId(f.from) \notin Explained(found) /\ SessionId(f.at) \notin Explained(found)
      BY <3>2 DEF IsExplained
    <3>4. QED
      BY <3>1, <3>3
  <2>5. ASSUME NEW f \in CadenceFindings(Explained(found), declared),
               NEW g \in CadenceFindings(Explained(found), declared), f.at = g.at
        PROVE  f = g
    <3>1. /\ <<f.from, f.at>> \in EarlyIntervals /\ <<g.from, g.at>> \in EarlyIntervals
          /\ f = [kind |-> "off_cycle_burst", at |-> f.at, from |-> f.from]
          /\ g = [kind |-> "off_cycle_burst", at |-> g.at, from |-> g.from]
      BY <2>5, CadenceFindingsShape
    <3>2. <<f.from, f.at>> = <<g.from, g.at>>
      BY <1>1, <2>5, <3>1, OneIntervalEach DEF RulesInv
    <3>3. QED
      BY <3>1, <3>2
  <2>6. \A f, g \in findings : f.at = g.at => f = g
    BY <2>2, <2>3, <2>4, <2>5, OneSessionFindingEach
  <2>7. ASSUME NEW f \in findings, NEW g \in findings,
               f.kind = "off_cycle_burst", g.kind # "off_cycle_burst"
        PROVE  g.at \notin {f.at, f.from}
    <3>1. g \in found
      BY <2>3, <2>7, CadenceFindingsShape
    <3>2. f \notin found
      BY <2>2, <2>7, SessionFindingsShape, KindsOfSession
    <3>3. QED
      BY <2>3, <2>4, <3>1, <3>2
  <2>8. QED
    BY <2>6, <2>7 DEF OneFindingPerSession
<1>2. QED
  BY <1>1, RulesInvariance, PTL

----------------------------------------------------------------------------
(* Maintenance *)

\* A schedule changes nothing but spikes of sessions in its windows ...
LEMMA SessionsUnderSchedule ==
  ASSUME NEW declared, NEW f \in SessionFindings({}), f \notin SessionFindings(declared)
  PROVE  f.kind = "volume_spike" /\ InMaintenance(observations[f.at].ts, declared)
<1>1. /\ f.at \in Positions
      /\ f = [kind |-> f.kind, at |-> f.at, from |-> f.at]
      /\ f.kind \in KindsOf(f.at, NormalLarge, {})
  BY SessionFindingsShape
<1>2. f.kind \notin KindsOf(f.at, NormalLarge, declared)
  BY <1>1 DEF SessionFindings
<1>3. QED
  BY <1>1, <1>2 DEF KindsOf

\* ... and explains no more sessions to the cadence rule than there were.
LEMMA ExplainedUnderSchedule ==
  ASSUME NEW declared
  PROVE  Explained(SessionFindings(declared)) \subseteq Explained(SessionFindings({}))
<1>1. ASSUME NEW f \in SessionFindings(declared)
      PROVE  f \in SessionFindings({})
  <2>1. /\ f.at \in Positions
        /\ f = [kind |-> f.kind, at |-> f.at, from |-> f.at]
        /\ f.kind \in KindsOf(f.at, NormalLarge, declared)
    BY <1>1, SessionFindingsShape
  <2>2. ~InMaintenance(observations[f.at].ts, {})
    BY DEF InMaintenance
  <2>3. f.kind \in KindsOf(f.at, NormalLarge, {})
    BY <2>1, <2>2 DEF KindsOf
  <2>4. QED
    BY <2>1, <2>3 DEF SessionFindings
<1>2. QED
  BY <1>1 DEF Explained

\* A maintenance window explains spikes and odd timing of what happens in it,
\* never a new destination (rules.py:472-475, 495-496 and 406-410).
THEOREM MaintenanceIsPartial == Spec => []MaintenanceExplainsOnlyItsOwn
<1>1. ASSUME RulesInv PROVE MaintenanceExplainsOnlyItsOwn
  <2>1. PICK declared \in Schedules : declared = windows
    BY <1>1 DEF RulesInv, TypeOK
  <2>2. SUFFICES ASSUME stage = "done", NEW f \in FindingsUnder({}), f \notin findings
                 PROVE  /\ f.kind \in {"volume_spike", "off_cycle_burst"}
                        /\ \E e \in {f.at, f.from} :
                             InMaintenance(observations[e].ts, declared)
    BY <2>1 DEF MaintenanceExplainsOnlyItsOwn
  <2>3. findings = FindingsUnder(declared)
    BY <1>1, <2>1, <2>2 DEF RulesInv, Progress
  <2>4. CASE f \in SessionFindings({})
    BY <2>2, <2>3, <2>4, SessionsUnderSchedule DEF FindingsUnder
  <2>5. CASE f \in CadenceFindings(Explained(SessionFindings({})), {})
    <3>1. /\ f.kind = "off_cycle_burst"
          /\ <<f.from, f.at>> \in EarlyIntervals
          /\ f = [kind |-> "off_cycle_burst", at |-> f.at, from |-> f.from]
          /\ ~IsExplained(<<f.from, f.at>>, Explained(SessionFindings({})))
      BY <2>5, CadenceFindingsShape
    <3>2. ~IsExplained(<<f.from, f.at>>, Explained(SessionFindings(declared)))
      BY <3>1, ExplainedUnderSchedule DEF IsExplained
    <3>3. f \notin CadenceFindings(Explained(SessionFindings(declared)), declared)
      BY <2>2, <2>3 DEF FindingsUnder
    <3>4. UnderMaintenance(<<f.from, f.at>>, declared)
      BY <3>1, <3>2, <3>3 DEF CadenceFindings
    <3>5. QED
      BY <3>1, <3>4 DEF UnderMaintenance
  <2>6. QED
    BY <2>2, <2>4, <2>5 DEF FindingsUnder
<1>2. QED
  BY <1>1, RulesInvariance, PTL

----------------------------------------------------------------------------
(* Channels *)

LEMMA SessionLevels ==
  ASSUME TypeOK, observations # <<>>
  PROVE  /\ Levels \subseteq Nat
         /\ \E z \in Levels : \A b \in Levels : b <= z
<1>1. Positions = 1..Len(observations) /\ Len(observations) \in Nat \ {0}
  BY DEF TypeOK, Positions
<1>2. IsFiniteSet(Positions) /\ 1 \in Positions
  BY <1>1, FS_Interval
<1>3. \A i \in Positions : observations[i] \in Session
  BY <1>1 DEF TypeOK
<1>4. \A i \in Positions : Level(i) \in Nat
  BY <1>3 DEF Level, Session
<1>5. PICK f : f = [i \in Positions |-> Level(i)]
  OBVIOUS
<1>6. f \in [Positions -> Int]
  BY <1>4, <1>5
<1>7. PICK x \in Positions : \A y \in Positions : f[y] <= f[x]
  <2>1. Positions # {}
    BY <1>2
  <2>2. QED
    BY <1>2, <1>6, <2>1, GreatestValue
<1>8. \A y \in Positions : Level(y) <= Level(x)
  BY <1>5, <1>7
<1>9. QED
  BY <1>4, <1>8 DEF Levels

\* No session falls between two channels or into two (rules.py:156-162).
THEOREM ChannelsPartition == Spec => []OneBandEach
<1>1. ASSUME TypeOK PROVE OneBandEach
  <2>1. SUFFICES ASSUME NEW i \in Positions
                 PROVE  \E b \in Bands :
                          /\ InBand(Level(i), b)
                          /\ \A c \in Bands : InBand(Level(i), c) => c = b
    BY DEF OneBandEach
  <2>2. observations # <<>>
    BY <1>1 DEF Positions
  <2>3. Levels \subseteq Nat /\ Level(i) \in Levels
    BY <1>1, <2>2, SessionLevels DEF Levels
  <2>4. PICK a \in Levels : \A b \in Levels : a <= b
    BY <2>3, LeastOfNat
  <2>5. PICK z \in Levels : \A b \in Levels : b <= z
    BY <1>1, <2>2, SessionLevels
  <2>6. Smallest(Levels) \in Levels /\ \A b \in Levels : Smallest(Levels) <= b
    BY <2>4 DEF Smallest
  <2>7. Largest(Levels) \in Levels /\ \A b \in Levels : Largest(Levels) >= b
    <3>1. \A b \in Levels : z >= b
      BY <2>3, <2>5
    <3>2. QED
      BY <2>5, <3>1 DEF Largest
  <2>8. EdgesOf(Levels) \subseteq Int
    <3>0. \A l \in Levels : l \in Int
      BY <2>3
    <3>1. \A n \in Cuts(Neighbours(Levels)) : n[1] \in Int /\ n[2] \in Int
      <4>1. Cuts(Neighbours(Levels)) \subseteq Levels \X Levels
        BY DEF Cuts, Neighbours
      <4>2. QED
        BY <3>0, <4>1
    <3>2. Smallest(Levels) \in Int /\ Largest(Levels) \in Int
      BY <3>0, <2>6, <2>7
    <3>3. {n[1] + n[2] : n \in Cuts(Neighbours(Levels))} \subseteq Int
      BY <3>1
    <3>4. {2 * Smallest(Levels) - 1} \subseteq Int /\ {2 * Largest(Levels) + 1} \subseteq Int
      BY <3>2
    <3>5. QED
      BY <3>3, <3>4 DEF EdgesOf
  <2>9. /\ 2 * Smallest(Levels) - 1 \in EdgesOf(Levels)
        /\ 2 * Largest(Levels) + 1 \in EdgesOf(Levels)
    BY DEF EdgesOf
  <2>10. /\ 2 * Level(i) \in Int
         /\ 2 * Smallest(Levels) - 1 < 2 * Level(i)
         /\ 2 * Level(i) <= 2 * Largest(Levels) + 1
    <3>1. Smallest(Levels) \in Nat /\ Largest(Levels) \in Nat /\ Level(i) \in Nat
      BY <2>3, <2>6, <2>7
    <3>2. Smallest(Levels) <= Level(i) /\ Largest(Levels) >= Level(i)
      BY <2>3, <2>6, <2>7
    <3>3. QED
      BY <3>1, <3>2
  <2>11. PICK b \in Neighbours(EdgesOf(Levels)) :
           /\ b[1] < 2 * Level(i) /\ 2 * Level(i) <= b[2]
           /\ \A c \in Neighbours(EdgesOf(Levels)) :
                c[1] < 2 * Level(i) /\ 2 * Level(i) <= c[2] => c = b
    BY <2>8, <2>9, <2>10, BetweenNeighbours
  <2>12. QED
    BY <2>11 DEF Bands, BandsOf, InBand
<1>2. QED
  BY <1>1, TypeCorrect, PTL

----------------------------------------------------------------------------
(* The percentile *)

\* The k-th smallest value exists: fewer than k are below it, k or more are not
\* above it.
LEMMA KthIs ==
  ASSUME NEW D, IsFiniteSet(D), NEW f \in [D -> Int], NEW k \in 1..Cardinality(D)
  PROVE  /\ Kth(f, k) \in Int
         /\ Cardinality({x \in D : f[x] <= Kth(f, k)}) >= k
<1>1. /\ DOMAIN f = D /\ Range(f) \subseteq Int
      /\ \A x \in D : f[x] \in Range(f) /\ f[x] \in Int
  BY DEF Range
<1>2. Cardinality(D) \in Nat /\ k \in Nat \ {0} /\ k <= Cardinality(D)
  BY FS_CardinalityType
<1>3. D # {}
  BY <1>2, FS_EmptySet
<1>4. PICK top \in D : \A y \in D : f[y] <= f[top]
  BY <1>3, GreatestValue
<1>5. PICK low \in D : \A y \in D : f[low] <= f[y]
  <2>1. PICK g : g = [x \in D |-> 0 - f[x]]
    OBVIOUS
  <2>2. g \in [D -> Int]
    BY <1>1, <2>1
  <2>3. PICK x \in D : \A y \in D : g[y] <= g[x]
    BY <1>3, <2>2, GreatestValue
  <2>4. \A y \in D : f[x] <= f[y]
    BY <1>1, <2>1, <2>3
  <2>5. QED
    BY <2>4
<1>6. PICK V : V = {v \in Range(f) : Cardinality({x \in D : f[x] <= v}) >= k}
  OBVIOUS
<1>7. V # {} /\ V \subseteq Int /\ \A v \in V : f[low] <= v
  <2>1. {x \in D : f[x] <= f[top]} = D
    BY <1>4
  <2>2. f[top] \in V
    BY <1>1, <1>2, <1>6, <2>1
  <2>3. \A v \in V : \E x \in D : v = f[x]
    BY <1>1, <1>6 DEF Range
  <2>4. QED
    BY <1>1, <1>5, <2>2, <2>3
<1>8. PICK v \in V : \A w \in V : v <= w
  BY <1>1, <1>7, LeastOfInt
<1>9. v \in Range(f) /\ v \in Int /\ Cardinality({x \in D : f[x] <= v}) >= k
  BY <1>6, <1>7, <1>8
<1>10. Cardinality({x \in D : f[x] < v}) < k
  <2>1. PICK B : B = {x \in D : f[x] < v}
    OBVIOUS
  <2>2. IsFiniteSet(B) /\ Cardinality(B) \in Nat
    BY <2>1, FS_Subset, FS_CardinalityType
  <2>3. CASE B = {}
    <3>1. Cardinality(B) = 0
      BY <2>3, FS_EmptySet
    <3>2. QED
      BY <1>2, <2>1, <3>1
  <2>4. CASE B # {}
    <3>1. PICK g : g = [x \in B |-> f[x]]
      OBVIOUS
    <3>2. g \in [B -> Int]
      BY <1>1, <2>1, <3>1
    <3>3. PICK z \in B : \A y \in B : g[y] <= g[z]
      BY <2>2, <2>4, <3>2, GreatestValue
    <3>4. z \in D /\ f[z] < v /\ \A y \in B : f[y] <= f[z]
      BY <2>1, <3>1, <3>3
    <3>5. ASSUME NEW y \in D, f[y] <= f[z] PROVE y \in B
      <4>1. f[y] \in Int /\ f[z] \in Int
        BY <1>1, <3>4
      <4>2. f[y] < v
        BY <1>9, <3>4, <3>5, <4>1
      <4>3. QED
        BY <2>1, <4>2
    <3>6. B = {x \in D : f[x] <= f[z]}
      BY <2>1, <3>4, <3>5
    <3>7. f[z] \notin V
      <4>1. f[z] \in Int /\ ~(v <= f[z])
        BY <1>1, <1>9, <3>4
      <4>2. QED
        BY <1>8, <4>1
    <3>8. ~(Cardinality(B) >= k)
      BY <1>1, <1>6, <3>4, <3>6, <3>7
    <3>9. QED
      BY <1>2, <2>1, <2>2, <3>8
  <2>5. QED
    BY <2>3, <2>4
<1>11. /\ Kth(f, k) \in Range(f)
       /\ Cardinality({x \in D : f[x] <= Kth(f, k)}) >= k
  BY <1>1, <1>9, <1>10, Zenon DEF Kth
<1>12. QED
  BY <1>1, <1>11

LEMMA PercentileRoom ==
  ASSUME NEW n \in Nat \ {0}, NEW percent \in 0..99, NEW index, index = (percent * n) \div 100
  PROVE  /\ index \in Nat /\ index + 1 \in 1..n
         /\ 100 * (n - (index + 1)) <= (100 - percent) * n
<1>1. PICK m \in Nat : m = percent * n
  OBVIOUS
<1>2. percent * n <= 99 * n
  OBVIOUS
<1>3. (100 - percent) * n = 100 * n - percent * n
  OBVIOUS
<1>4. index \in Nat /\ 100 * index <= m /\ m < 100 * (index + 1)
  BY <1>1
<1>5. QED
  BY <1>1, <1>2, <1>3, <1>4

\* At most one finding for each session that is larger than the percentile.
LEMMA SpikesAreLarge ==
  ASSUME NEW declared, NEW f \in FindingsUnder(declared), f.kind = "volume_spike"
  PROVE  /\ f \in SessionFindings(declared)
         /\ f.at \in Positions /\ IsSpike(f.at, NormalLarge)
<1>1. f \in SessionFindings(declared)
  BY CadenceFindingsShape DEF FindingsUnder
<1>2. QED
  BY <1>1, SessionFindingsShape DEF KindsOf

\* Volume alerts cannot flood: a session must outgrow the percentile of its own
\* stream to spike (rules.py:131-138 and 272-297).
THEOREM SpikesBounded == Spec => []SpikesAreFew
<1>1. ASSUME RulesInv PROVE SpikesAreFew
  <2>1. PICK spikes : spikes = {f \in findings : f.kind = "volume_spike"}
    OBVIOUS
  <2>2. PICK n : n = Len(observations)
    OBVIOUS
  <2>3. n \in Nat /\ Positions = 1..n /\ \A i \in Positions : Level(i) \in Nat
    <3>1. n \in Nat /\ Positions = 1..n
      BY <1>1, <2>2 DEF RulesInv, TypeOK, Positions
    <3>2. \A i \in Positions : observations[i] \in Session
      BY <1>1, <2>2, <3>1 DEF RulesInv, TypeOK
    <3>3. QED
      BY <3>1, <3>2 DEF Level, Session
  <2>4. SUFFICES 100 * Cardinality(spikes) <= (100 - VolumePercent) * n
    BY <2>1, <2>2 DEF SpikesAreFew
  <2>5. ASSUME spikes = {} PROVE 100 * Cardinality(spikes) <= (100 - VolumePercent) * n
    <3>1. Cardinality(spikes) = 0
      BY <2>5, FS_EmptySet
    <3>2. 100 - VolumePercent \in Nat
      OBVIOUS
    <3>3. (100 - VolumePercent) * n >= 0
      BY <2>3, <3>2
    <3>4. QED
      BY <3>1, <3>3
  <2>6. ASSUME NEW some \in spikes PROVE 100 * Cardinality(spikes) <= (100 - VolumePercent) * n
    <3>1. spikes \subseteq FindingsUnder(windows) /\ windows \in Schedules
      <4>1. windows \in Schedules
        BY <1>1 DEF RulesInv, TypeOK
      <4>2. findings \subseteq FindingsUnder(windows)
        BY <1>1, <2>1, <2>6, <4>1 DEF RulesInv, TypeOK, Progress, FindingsUnder
      <4>3. QED
        BY <2>1, <4>1, <4>2
    <3>2. \A f \in spikes : /\ f \in SessionFindings(windows)
                            /\ f.at \in Positions /\ IsSpike(f.at, NormalLarge)
      BY <2>1, <3>1, SpikesAreLarge
    <3>3. n # 0
      BY <2>3, <2>6, <3>2
    <3>4. PICK index : index = (VolumePercent * n) \div 100
      OBVIOUS
    <3>5. /\ index \in Nat /\ index + 1 \in 1..n
          /\ 100 * (n - (index + 1)) <= (100 - VolumePercent) * n
      BY <2>3, <3>3, <3>4, PercentileRoom
    <3>6. PICK sizes : sizes = [i \in Positions |-> Level(i)]
      OBVIOUS
    <3>7. sizes \in [Positions -> Int]
      BY <2>3, <3>6
    <3>8. IsFiniteSet(Positions) /\ Cardinality(Positions) = n
      BY <2>3, <3>3, FS_Interval
    <3>9. NormalLarge = Kth(sizes, index + 1)
      BY <2>2, <3>4, <3>6 DEF NormalLarge
    <3>10. PICK usual : usual = {i \in Positions : sizes[i] <= NormalLarge}
      OBVIOUS
    <3>11. NormalLarge \in Int /\ Cardinality(usual) >= index + 1
      BY <3>5, <3>7, <3>8, <3>9, <3>10, KthIs
    <3>12. \A f \in spikes : f.at \in Positions \ usual
      <4>1. ASSUME NEW f \in spikes PROVE f.at \notin usual
        <5>1. Level(f.at) \in Nat /\ Level(f.at) > NormalLarge + VolumeSpikeLevels
          BY <2>3, <3>2 DEF IsSpike
        <5>2. ~(Level(f.at) <= NormalLarge)
          BY <3>11, <5>1
        <5>3. QED
          BY <3>2, <3>6, <3>10, <5>2
      <4>2. QED
        BY <3>2, <4>1
    <3>13. PICK where : where = [f \in spikes |-> f.at]
      OBVIOUS
    <3>14. where \in Injection(spikes, Positions \ usual)
      <4>1. where \in [spikes -> Positions \ usual]
        BY <3>12, <3>13
      <4>2. \A f, g \in spikes : where[f] = where[g] => f = g
        BY <3>2, <3>13, OneSessionFindingEach
      <4>3. QED
        BY <4>1, <4>2, Fun_IsInj
    <3>15. /\ IsFiniteSet(Positions \ usual)
           /\ Cardinality(Positions \ usual) = n - Cardinality(usual)
      <4>1. Positions \cap usual = usual
        BY <3>10
      <4>2. QED
        BY <3>8, <4>1, FS_Difference
    <3>16. IsFiniteSet(spikes) /\ Cardinality(spikes) <= Cardinality(Positions \ usual)
      BY <3>14, <3>15, FS_Injection
    <3>17. IsFiniteSet(usual) /\ Cardinality(usual) \in Nat /\ Cardinality(spikes) \in Nat
      BY <3>8, <3>10, <3>16, FS_Subset, FS_CardinalityType
    <3>18. Cardinality(spikes) <= n - (index + 1)
      BY <2>3, <3>5, <3>11, <3>15, <3>16, <3>17
    <3>19. 100 * Cardinality(spikes) <= 100 * (n - (index + 1))
      BY <2>3, <3>5, <3>17, <3>18
    <3>20. (100 - VolumePercent) * n \in Int
      BY <2>3
    <3>21. QED
      BY <2>3, <3>5, <3>17, <3>19, <3>20
  <2>7. QED
    BY <2>5, <2>6
<1>2. QED
  BY <1>1, RulesInvariance, PTL

----------------------------------------------------------------------------
(* The cadence rule *)

\* A set of at least m elements less leaves room for one more group of m.
LEMMA OneGroupLess ==
  ASSUME NEW n \in Nat, NEW k \in Nat, NEW m \in Nat \ {0}, m <= k, k <= n
  PROVE  /\ n \div m \in Nat /\ (n - k) \div m \in Nat
         /\ (n - k) \div m + 1 <= n \div m
<1>1. PICK q : q = (n - k) \div m
  OBVIOUS
<1>2. n - k \in Nat
  OBVIOUS
<1>3. q \in Nat /\ m * q <= n - k
  BY <1>1, <1>2
<1>4. PICK r : r = n \div m
  OBVIOUS
<1>5. r \in Nat /\ n < m * (r + 1)
  BY <1>4
<1>6. m * (q + 1) = m * q + m
  BY <1>3
<1>7. m * (q + 1) < m * (r + 1)
  BY <1>3, <1>5, <1>6
<1>8. q + 1 < r + 1
  <2>1. ASSUME r <= q PROVE FALSE
    <3>1. m * r <= m * q
      BY <1>3, <1>5, <2>1
    <3>2. m * (r + 1) = m * r + m
      BY <1>5
    <3> QED BY <1>3, <1>5, <1>6, <1>7, <3>1, <3>2
  <2> QED BY <1>3, <1>5, <2>1
<1> QED BY <1>1, <1>3, <1>4, <1>5, <1>8

\* The elements of E are spread over groups of S; each group that has any is
\* large, and they are few of it or a small share.
Spread(S, E, group, m, few, percent) ==
  \A b : LET members == {i \in S : group[i] = b}
             early == {i \in E : group[i] = b}
         IN  early = {} \/
               /\ Cardinality(members) >= m
               /\ \/ Cardinality(early) <= few
                  \/ 100 * Cardinality(early) <= percent * Cardinality(members)

Bounded(S, E, m, few, percent) ==
  100 * Cardinality(E) <= percent * Cardinality(S) + 100 * few * (Cardinality(S) \div m)

\* Taking one group away.
LEMMA OneGroupAway ==
  ASSUME NEW S, IsFiniteSet(S), NEW E, E \subseteq S, NEW group, NEW m \in Nat \ {0},
         NEW few \in Nat, NEW percent \in Nat, Spread(S, E, group, m, few, percent),
         NEW i \in E,
         NEW members, \A j : j \in members <=> j \in S /\ group[j] = group[i],
         NEW early, \A j : j \in early <=> j \in E /\ group[j] = group[i],
         Bounded(S \ members, E \ early, m, few, percent)
  PROVE  Bounded(S, E, m, few, percent)
<1>1. /\ members \subseteq S /\ early \subseteq E /\ early # {} /\ i \in early
      /\ S \cap members = members /\ E \cap early = early
  OBVIOUS
<1>2. IsFiniteSet(E) /\ IsFiniteSet(members) /\ IsFiniteSet(early)
  BY <1>1, FS_Subset
<1>3. /\ Cardinality(S) \in Nat /\ Cardinality(E) \in Nat
      /\ Cardinality(members) \in Nat /\ Cardinality(early) \in Nat
      /\ Cardinality(S \ members) = Cardinality(S) - Cardinality(members)
      /\ Cardinality(E \ early) = Cardinality(E) - Cardinality(early)
      /\ Cardinality(members) <= Cardinality(S)
  <2>1. /\ Cardinality(S) \in Nat /\ Cardinality(E) \in Nat
        /\ Cardinality(members) \in Nat /\ Cardinality(early) \in Nat
    BY <1>2, FS_CardinalityType
  <2>2. /\ Cardinality(S \ members) = Cardinality(S) - Cardinality(S \cap members)
        /\ Cardinality(E \ early) = Cardinality(E) - Cardinality(E \cap early)
    BY <1>2, FS_Difference
  <2>3. Cardinality(members) <= Cardinality(S)
    BY <1>1, FS_Subset
  <2> QED BY <1>1, <2>1, <2>2, <2>3
<1>4. /\ Cardinality(members) >= m
      /\ \/ Cardinality(early) <= few
         \/ 100 * Cardinality(early) <= percent * Cardinality(members)
  <2>1. members = {j \in S : group[j] = group[i]} /\ early = {j \in E : group[j] = group[i]}
    BY <1>1
  <2> QED BY <1>1, <2>1 DEF Spread
<1> DEFINE n == Cardinality(S)
           k == Cardinality(members)
           e == Cardinality(E)
           f == Cardinality(early)
<1>5. /\ n \in Nat /\ k \in Nat /\ e \in Nat /\ f \in Nat /\ m <= k /\ k <= n
      /\ f <= few \/ 100 * f <= percent * k
      /\ 100 * (e - f) <= percent * (n - k) + 100 * few * ((n - k) \div m)
  BY <1>3, <1>4 DEF Bounded
<1>6. SUFFICES 100 * e <= percent * n + 100 * few * (n \div m)
  BY DEF Bounded
<1> HIDE DEF n, k, e, f
<1>7. PICK q, r : q = (n - k) \div m /\ r = n \div m
  OBVIOUS
<1>8. q \in Nat /\ r \in Nat /\ q + 1 <= r
  BY <1>5, <1>7, OneGroupLess
<1>9. PICK F \in Nat : F = 100 * few
  OBVIOUS
<1>10. /\ percent * (n - k) = percent * n - percent * k
       /\ percent * n \in Nat /\ percent * k \in Nat
  BY <1>5
<1>11. F * (q + 1) <= F * r /\ F * (q + 1) = F * q + F /\ F * q \in Nat /\ F * r \in Nat
  BY <1>8
<1>12. 100 * (e - f) <= percent * n - percent * k + F * q
  BY <1>5, <1>7, <1>9, <1>10
<1>13. 100 * f <= F \/ 100 * f <= percent * k
  BY <1>5, <1>9
<1>14. 100 * (e - f) = 100 * e - 100 * f
  BY <1>5
<1>15. 100 * e <= percent * n + F * r
  BY <1>5, <1>10, <1>11, <1>12, <1>13, <1>14
<1> QED BY <1>7, <1>9, <1>15

\* By induction over the number of elements: a smallest set that is not so
\* bounded would have a group to take away.
LEMMA SpreadIsBounded ==
  ASSUME NEW S, IsFiniteSet(S), NEW E, E \subseteq S, NEW group, NEW m \in Nat \ {0},
         NEW few \in Nat, NEW percent \in Nat, Spread(S, E, group, m, few, percent)
  PROVE  Bounded(S, E, m, few, percent)
<1> DEFINE Bad(A, B) == /\ B \subseteq A /\ Spread(A, B, group, m, few, percent)
                        /\ ~Bounded(A, B, m, few, percent)
<1>1. SUFFICES ASSUME ~Bounded(S, E, m, few, percent) PROVE FALSE
  OBVIOUS
<1>2. PICK sizes : sizes = {n \in Nat : \E A \in SUBSET S : \E B \in SUBSET S :
                              Bad(A, B) /\ Cardinality(A) = n}
  OBVIOUS
<1>3. Cardinality(S) \in sizes
  BY <1>1, <1>2, FS_CardinalityType
<1>4. PICK n \in sizes : \A k \in sizes : n <= k
  <2>1. sizes \subseteq Nat /\ sizes # {}
    BY <1>2, <1>3
  <2> QED BY <2>1, LeastOfNat
<1>5. PICK A \in SUBSET S, B \in SUBSET S : Bad(A, B) /\ Cardinality(A) = n
  BY <1>2
<1>6. IsFiniteSet(A) /\ IsFiniteSet(B) /\ n \in Nat
  BY <1>2, FS_Subset
<1>7. PICK i : i \in B
  <2>1. ASSUME B = {} PROVE Bounded(A, B, m, few, percent)
    <3>1. Cardinality(B) = 0 /\ Cardinality(A) \in Nat
      BY <1>6, <2>1, FS_EmptySet, FS_CardinalityType
    <3>2. Cardinality(A) \div m \in Nat
      BY <3>1
    <3>3. percent * Cardinality(A) \in Nat /\ 100 * few * (Cardinality(A) \div m) \in Nat
      BY <3>1, <3>2
    <3> QED BY <3>1, <3>3 DEF Bounded
  <2> QED BY <1>5, <2>1
<1>8. PICK members, early :
        members = {j \in A : group[j] = group[i]} /\ early = {j \in B : group[j] = group[i]}
  OBVIOUS
<1>9. ~Bounded(A \ members, B \ early, m, few, percent)
  <2>1. B \subseteq A /\ Spread(A, B, group, m, few, percent) /\ ~Bounded(A, B, m, few, percent)
    BY <1>5
  <2>2. ASSUME Bounded(A \ members, B \ early, m, few, percent)
        PROVE  Bounded(A, B, m, few, percent)
    <3>1. /\ \A j : j \in members <=> j \in A /\ group[j] = group[i]
          /\ \A j : j \in early <=> j \in B /\ group[j] = group[i]
      BY <1>8
    <3> HIDE DEF Bad
    <3> QED BY <1>6, <1>7, <2>1, <2>2, <3>1, OneGroupAway, Zenon
  <2> QED BY <2>1, <2>2
<1>10. B \ early \subseteq A \ members
  BY <1>5, <1>8
<1>11. Spread(A \ members, B \ early, group, m, few, percent)
  <2>1. SUFFICES ASSUME NEW b, {j \in B \ early : group[j] = b} # {}
                 PROVE  LET others == {j \in A \ members : group[j] = b}
                            rest == {j \in B \ early : group[j] = b}
                        IN  /\ Cardinality(others) >= m
                            /\ \/ Cardinality(rest) <= few
                               \/ 100 * Cardinality(rest) <= percent * Cardinality(others)
    BY DEF Spread
  <2>2. b # group[i]
    BY <1>8, <2>1
  <2>3. /\ {j \in A \ members : group[j] = b} = {j \in A : group[j] = b}
        /\ {j \in B \ early : group[j] = b} = {j \in B : group[j] = b}
    BY <1>8, <2>2
  <2> QED BY <1>5, <2>1, <2>3 DEF Spread
<1>12. Cardinality(A \ members) \in Nat /\ Cardinality(A \ members) < n
  <2>1. IsFiniteSet(members) /\ A \cap members = members /\ i \in members
    BY <1>5, <1>6, <1>7, <1>8, FS_Subset
  <2>2. Cardinality(A \ members) = n - Cardinality(members)
    BY <1>5, <1>6, <2>1, FS_Difference
  <2>3. Cardinality(members) \in Nat /\ Cardinality(members) # 0
    BY <2>1, FS_CardinalityType, FS_EmptySet
  <2>4. Cardinality(A \ members) \in Nat
    BY <1>6, FS_Subset, FS_CardinalityType
  <2> QED BY <1>6, <2>2, <2>3, <2>4
<1>13. Cardinality(A \ members) \in sizes
  <2>1. A \ members \in SUBSET S /\ B \ early \in SUBSET S
    BY <1>5
  <2>2. Bad(A \ members, B \ early)
    BY <1>9, <1>10, <1>11
  <2> HIDE DEF Bad
  <2> QED BY <1>2, <1>12, <2>1, <2>2
<1> QED BY <1>4, <1>6, <1>12, <1>13

\* A set has no more neighbours than elements: each ends one pair at most.
LEMMA FewerNeighbours ==
  ASSUME NEW S, IsFiniteSet(S), S \subseteq Int
  PROVE  /\ IsFiniteSet(Neighbours(S)) /\ Cardinality(Neighbours(S)) \in Nat
         /\ Cardinality(Neighbours(S)) <= Cardinality(S)
<1>1. PICK end : end = [p \in Neighbours(S) |-> p[2]]
  OBVIOUS
<1>2. end \in [Neighbours(S) -> S]
  BY <1>1 DEF Neighbours
<1>3. ASSUME NEW p \in Neighbours(S), NEW q \in Neighbours(S), end[p] = end[q]
      PROVE  p = q
  <2>1. /\ p = <<p[1], p[2]>> /\ q = <<q[1], q[2]>> /\ p[2] = q[2]
        /\ p[1] \in S /\ q[1] \in S /\ p[1] < p[2] /\ q[1] < q[2]
        /\ \A c \in S : ~(p[1] < c /\ c < p[2]) /\ ~(q[1] < c /\ c < q[2])
    BY <1>1, <1>3 DEF Neighbours
  <2>2. ~(p[1] < q[1]) /\ ~(q[1] < p[1])
    BY <2>1
  <2>3. p[1] \in Int /\ q[1] \in Int
    BY <2>1
  <2>4. p[1] = q[1]
    BY <2>2, <2>3
  <2> QED BY <2>1, <2>4
<1>4. end \in Injection(Neighbours(S), S)
  BY <1>2, <1>3, Fun_IsInj
<1> QED BY <1>4, FS_Injection, FS_CardinalityType

\* What the cadence rule picks of one channel: nothing unless the channel is
\* large enough, and then few or a small share of its sessions.
LEMMA EarlyOfChannelIsBounded ==
  ASSUME NEW members, IsFiniteSet(members), members \subseteq Int,
         EarlyOfChannel(members) # {}
  PROVE  /\ IsFiniteSet(EarlyOfChannel(members)) /\ Cardinality(EarlyOfChannel(members)) \in Nat
         /\ Cardinality(members) >= MinSessions
         /\ \/ Cardinality(EarlyOfChannel(members)) <= MinFirings
            \/ 100 * Cardinality(EarlyOfChannel(members)) <= MaxFiringPercent * Cardinality(members)
<1> DEFINE intervals == Intervals(members)
           early == EarlyIn(intervals)
<1>1. /\ IsFiniteSet(intervals) /\ Cardinality(intervals) \in Nat
      /\ Cardinality(intervals) <= Cardinality(members)
  BY FewerNeighbours DEF Intervals
<1>2. Cardinality(members) \in Nat
  BY FS_CardinalityType
<1>3. /\ ~(Cardinality(members) < MinSessions)
      /\ ~ShouldAbstain(Cardinality(early), Cardinality(intervals))
      /\ EarlyOfChannel(members) = early
  BY DEF EarlyOfChannel
<1> HIDE DEF early, intervals
<1>4. IsFiniteSet(EarlyOfChannel(members))
  <2>1. EarlyOfChannel(members) \subseteq intervals
    BY EarlyAreIntervals DEF intervals
  <2> QED BY <1>1, <2>1, FS_Subset
<1>5. PICK e \in Nat : e = Cardinality(early)
  BY <1>3, <1>4, FS_CardinalityType
<1>6. ~(e > MinFirings) \/ ~(100 * e > MaxFiringPercent * Cardinality(intervals))
  BY <1>3, <1>5 DEF ShouldAbstain
<1>7. /\ MaxFiringPercent * Cardinality(intervals) <= MaxFiringPercent * Cardinality(members)
      /\ MaxFiringPercent * Cardinality(intervals) \in Nat
      /\ MaxFiringPercent * Cardinality(members) \in Nat
  BY <1>1, <1>2
<1>8. e <= MinFirings \/ 100 * e <= MaxFiringPercent * Cardinality(members)
  BY <1>2, <1>5, <1>6, <1>7
<1>9. Cardinality(members) >= MinSessions
  BY <1>2, <1>3
<1> QED BY <1>3, <1>4, <1>5, <1>8, <1>9

\* The sessions that end an early interval.
LateEnds == {p[2] : p \in EarlyIntervals}

\* They are spread over the channels, few or a small share of each.
LEMMA EarlySpread ==
  ASSUME TypeOK
  PROVE  /\ IsFiniteSet(Positions) /\ Cardinality(Positions) = Len(observations)
         /\ LateEnds \subseteq Positions
         /\ \E group : Spread(Positions, LateEnds, group, MinSessions, MinFirings, MaxFiringPercent)
<1>1. Positions = 1..Len(observations) /\ Len(observations) \in Nat
  BY DEF TypeOK, Positions
<1>2. IsFiniteSet(Positions) /\ Cardinality(Positions) = Len(observations) /\ Positions \subseteq Int
  <2>1. ASSUME NEW n \in Nat
        PROVE  IsFiniteSet(1..n) /\ Cardinality(1..n) = n
    <3>1. 1 \in Int /\ n \in Int
      OBVIOUS
    <3>2. IsFiniteSet(1..n) /\ Cardinality(1..n) = (IF 1 > n THEN 0 ELSE n - 1 + 1)
      BY <3>1, FS_Interval
    <3> QED BY <3>2
  <2>2. Positions \subseteq Int
    BY <1>1
  <2> QED BY <1>1, <2>1, <2>2
<1>3. LateEnds \subseteq Positions
  BY EarlyInChannel DEF LateEnds
<1>4. PICK channel : channel = [i \in Positions |-> ChannelOf(Level(i), Bands)]
  OBVIOUS
<1>5. ASSUME NEW b, NEW members, members = {i \in Positions : channel[i] = b},
             NEW early, early = {i \in LateEnds : channel[i] = b}, early # {}
      PROVE  /\ Cardinality(members) >= MinSessions
             /\ \/ Cardinality(early) <= MinFirings
                \/ 100 * Cardinality(early) <= MaxFiringPercent * Cardinality(members)
  <2>1. ASSUME NEW i \in early
        PROVE  \E p \in EarlyOfChannel(members) : i = p[2]
    <3>1. PICK p \in EarlyIntervals : i = p[2]
      BY <1>5 DEF LateEnds
    <3>2. PICK c : p \in EarlyOfChannel(
            {j \in Positions : [k \in Positions |-> ChannelOf(Level(k), Bands)][j] = c})
      BY DEF EarlyIntervals
    <3>3. {j \in Positions : [k \in Positions |-> ChannelOf(Level(k), Bands)][j] = c}
            = {j \in Positions : channel[j] = c}
      BY <1>4
    <3>4. p \in EarlyOfChannel({j \in Positions : channel[j] = c})
      BY <3>2, <3>3
    <3>5. p[2] \in {j \in Positions : channel[j] = c}
      BY <3>4, EarlyAreIntervals DEF Intervals, Neighbours
    <3>6. c = b
      BY <1>5, <3>1, <3>5
    <3> QED BY <1>5, <3>1, <3>4, <3>6
  <2>2. EarlyOfChannel(members) # {}
    BY <1>5, <2>1
  <2>3. IsFiniteSet(members) /\ members \subseteq Int
    BY <1>2, <1>5, FS_Subset
  <2>4. /\ IsFiniteSet(EarlyOfChannel(members)) /\ Cardinality(EarlyOfChannel(members)) \in Nat
        /\ Cardinality(members) >= MinSessions
        /\ \/ Cardinality(EarlyOfChannel(members)) <= MinFirings
           \/ 100 * Cardinality(EarlyOfChannel(members)) <= MaxFiringPercent * Cardinality(members)
    BY <2>2, <2>3, EarlyOfChannelIsBounded
  <2>5. /\ IsFiniteSet(early) /\ Cardinality(early) \in Nat
        /\ Cardinality(early) <= Cardinality(EarlyOfChannel(members))
    <3>1. PICK ends : ends = {p[2] : p \in EarlyOfChannel(members)}
      OBVIOUS
    <3>2. early \subseteq ends
      BY <2>1, <3>1
    <3>3. PICK end : end = [p \in EarlyOfChannel(members) |-> p[2]]
      OBVIOUS
    <3>4. end \in Surjection(EarlyOfChannel(members), ends)
      BY <3>1, <3>3 DEF Surjection
    <3>5. IsFiniteSet(ends) /\ Cardinality(ends) <= Cardinality(EarlyOfChannel(members))
      BY <2>4, <3>4, FS_Surjection
    <3>6. IsFiniteSet(early) /\ Cardinality(early) <= Cardinality(ends)
      BY <3>2, <3>5, FS_Subset
    <3>7. Cardinality(early) \in Nat /\ Cardinality(ends) \in Nat
      BY <3>5, <3>6, FS_CardinalityType
    <3> QED BY <2>4, <3>5, <3>6, <3>7
  <2>6. MaxFiringPercent * Cardinality(members) \in Nat
    BY <2>3, FS_CardinalityType
  <2> QED BY <2>4, <2>5, <2>6
<1>6. Spread(Positions, LateEnds, channel, MinSessions, MinFirings, MaxFiringPercent)
  BY <1>5 DEF Spread
<1> QED BY <1>2, <1>3, <1>6

\* However badly the channels are split, the off-cycle findings are a small
\* share of the sessions or a few per channel that is large enough to have a
\* period (rules.py:336-357).
THEOREM CadenceBounded == Spec => []NeverFloods
<1>1. ASSUME RulesInv PROVE NeverFloods
  <2>1. PICK bursts : bursts = {f \in findings : f.kind = "off_cycle_burst"}
    OBVIOUS
  <2>2. TypeOK /\ windows \in Schedules
    BY <1>1 DEF RulesInv, TypeOK
  <2>3. PICK group : Spread(Positions, LateEnds, group, MinSessions, MinFirings, MaxFiringPercent)
    BY <2>2, EarlySpread
  <2>4. IsFiniteSet(Positions) /\ Cardinality(Positions) = Len(observations) /\ LateEnds \subseteq Positions
    BY <2>2, EarlySpread
  <2>5. Bounded(Positions, LateEnds, MinSessions, MinFirings, MaxFiringPercent)
    <3>1. MinSessions \in Nat \ {0} /\ MinFirings \in Nat /\ MaxFiringPercent \in Nat
      OBVIOUS
    <3> QED BY <2>3, <2>4, <3>1, SpreadIsBounded
  <2>6. findings \subseteq FindingsUnder(windows)
    BY <1>1, <2>2 DEF RulesInv, TypeOK, Progress, FindingsUnder
  <2>7. ASSUME NEW f \in bursts
        PROVE  <<f.from, f.at>> \in EarlyIntervals
               /\ f = [kind |-> "off_cycle_burst", at |-> f.at, from |-> f.from]
    <3>1. f \in FindingsUnder(windows) /\ f.kind = "off_cycle_burst"
      BY <2>1, <2>6
    <3>2. f \notin SessionFindings(windows)
      BY <3>1, SessionFindingsShape, KindsOfSession
    <3>3. f \in CadenceFindings(Explained(SessionFindings(windows)), windows)
      BY <3>1, <3>2 DEF FindingsUnder
    <3> QED BY <3>3, CadenceFindingsShape
  <2>8. PICK where : where = [f \in bursts |-> f.at]
    OBVIOUS
  <2>9. where \in Injection(bursts, LateEnds)
    <3>1. where \in [bursts -> LateEnds]
      <4>1. ASSUME NEW f \in bursts PROVE f.at \in LateEnds
        <5>1. PICK p \in EarlyIntervals : p = <<f.from, f.at>>
          BY <2>7
        <5>2. f.at = p[2]
          BY <5>1
        <5> QED BY <5>2 DEF LateEnds
      <4> QED BY <2>8, <4>1
    <3>2. ASSUME NEW f \in bursts, NEW g \in bursts, where[f] = where[g]
          PROVE  f = g
      <4>1. f.at = g.at
        BY <2>8, <3>2
      <4>2. <<f.from, f.at>> = <<g.from, g.at>>
        BY <2>2, <2>7, <4>1, OneIntervalEach
      <4> QED BY <2>7, <4>1, <4>2
    <3> QED BY <3>1, <3>2, Fun_IsInj
  <2>10. /\ Cardinality(bursts) \in Nat /\ Cardinality(LateEnds) \in Nat
         /\ Cardinality(bursts) <= Cardinality(LateEnds)
    <3>1. IsFiniteSet(LateEnds)
      BY <2>4, FS_Subset
    <3> QED BY <2>9, <3>1, FS_Injection, FS_CardinalityType
  <2>11. Len(observations) \in Nat
    BY <2>2 DEF TypeOK
  <2>12. Len(observations) \div MinSessions \in Nat
    BY <2>11
  <2>13. /\ MaxFiringPercent * Len(observations) \in Nat
         /\ 100 * MinFirings * (Len(observations) \div MinSessions) \in Nat
    BY <2>11, <2>12
  <2>14. 100 * Cardinality(LateEnds) <=
           MaxFiringPercent * Len(observations) + 100 * MinFirings * (Len(observations) \div MinSessions)
    BY <2>4, <2>5 DEF Bounded
  <2>15. 100 * Cardinality(bursts) <=
           MaxFiringPercent * Len(observations) + 100 * MinFirings * (Len(observations) \div MinSessions)
    BY <2>10, <2>13, <2>14
  <2> QED BY <2>1, <2>15 DEF NeverFloods
<1> QED BY <1>1, RulesInvariance, PTL

----------------------------------------------------------------------------
(* A session injected into a regular stream *)

\* A session injected into a regular stream of one channel splits an interval.
\* Of its two parts the cadence rule reports those that are shorter than
\* EarlyPercent of the period, and nothing else (rules.py:374-427, 430-456).
InjectionSplits ==
  (stage = "done" /\ windows = {} /\ Len(observations) >= 6 /\ Len(observations) >= MinSessions
   /\ (\E band \in Bands : Bands = {band}) /\ SessionFindings({}) = {}) =>
    \A i \in 2..(Len(observations) - 1) :
      LET period == Gap(<<i - 1, i>>) + Gap(<<i, i + 1>>)
      IN  RegularWithout(i, period) /\ period > 0 =>
            findings = {[kind |-> "off_cycle_burst", at |-> p[2], from |-> p[1]] :
                          p \in {q \in {<<i - 1, i>>, <<i, i + 1>>} :
                                   100 * Gap(q) < EarlyPercent * period}}

\* A value with fewer than k below it and k or more not above it is the k-th.
LEMMA KthIsUnique ==
  ASSUME NEW D, IsFiniteSet(D), NEW f \in [D -> Int], NEW k \in Nat, NEW v \in Range(f),
         Cardinality({x \in D : f[x] < v}) < k, Cardinality({x \in D : f[x] = v}) >= k
  PROVE  Kth(f, k) = v
<1>1. DOMAIN f = D /\ Range(f) \subseteq Int /\ \A x \in D : f[x] \in Int
  BY DEF Range
<1>2. ASSUME NEW S, NEW T, S \subseteq T, T \subseteq D
      PROVE  Cardinality(S) <= Cardinality(T) /\ Cardinality(S) \in Nat /\ Cardinality(T) \in Nat
  <2>1. IsFiniteSet(T) /\ IsFiniteSet(S)
    BY <1>2, FS_Subset
  <2> QED BY <1>2, <2>1, FS_Subset, FS_CardinalityType
<1>3. PICK below, at : below = {x \in D : f[x] < v} /\ at = {x \in D : f[x] = v}
  OBVIOUS
<1>4. Cardinality(below) < k /\ Cardinality(at) >= k /\ below \subseteq D /\ at \subseteq D
  BY <1>3
<1>5. Cardinality({x \in D : f[x] <= v}) >= k
  <2>1. PICK S : S = {x \in D : f[x] <= v}
    OBVIOUS
  <2>2. at \subseteq S /\ S \subseteq D
    BY <1>1, <1>3, <2>1
  <2> QED BY <1>2, <1>4, <2>1, <2>2
<1>6. ASSUME NEW w \in Range(f), Cardinality({x \in D : f[x] < w}) < k,
             Cardinality({x \in D : f[x] <= w}) >= k
      PROVE  w = v
  <2>0. w \in Int /\ v \in Int
    BY <1>1
  <2>1. ASSUME w < v PROVE FALSE
    <3>1. PICK S : S = {x \in D : f[x] <= w}
      OBVIOUS
    <3>2. S \subseteq below /\ below \subseteq D
      BY <1>1, <1>3, <2>0, <2>1, <3>1
    <3> QED BY <1>2, <1>4, <1>6, <3>1, <3>2
  <2>2. ASSUME v < w PROVE FALSE
    <3>1. PICK S : S = {x \in D : f[x] < w}
      OBVIOUS
    <3>2. at \subseteq S /\ S \subseteq D
      BY <1>1, <1>3, <2>0, <2>2, <3>1
    <3> QED BY <1>2, <1>4, <1>6, <3>1, <3>2
  <2> QED BY <2>0, <2>1, <2>2
<1>7. \E w \in Range(f) : Cardinality({x \in D : f[x] < w}) < k /\ Cardinality({x \in D : f[x] <= w}) >= k
  BY <1>5
<1> DEFINE Right(w) == Cardinality({x \in D : f[x] < w}) < k /\ Cardinality({x \in D : f[x] <= w}) >= k
<1>8. Kth(f, k) = CHOOSE w \in Range(f) : Right(w)
  BY <1>1 DEF Kth
<1>9. \A w \in Range(f) : Right(w) => w = v
  BY <1>6
<1>10. \E w \in Range(f) : Right(w)
  BY <1>7
<1> HIDE DEF Right
<1> QED BY <1>8, <1>9, <1>10

\* The intervals of a channel that is the whole stream.
LEMMA AllIntervals ==
  ASSUME NEW n \in Nat \ {0}
  PROVE  /\ Intervals(1..n) = {<<j, j + 1>> : j \in 1..(n - 1)}
         /\ IsFiniteSet(Intervals(1..n)) /\ Cardinality(Intervals(1..n)) = n - 1
<1>1. ASSUME NEW p \in Intervals(1..n) PROVE p \in {<<j, j + 1>> : j \in 1..(n - 1)}
  <2>1. /\ p = <<p[1], p[2]>> /\ p[1] \in 1..n /\ p[2] \in 1..n /\ p[1] < p[2]
        /\ \A c \in 1..n : ~(p[1] < c /\ c < p[2])
    BY DEF Intervals, Neighbours
  <2>2. p[2] = p[1] + 1
    <3>1. p[1] + 1 \in 1..n
      BY <2>1
    <3> QED BY <2>1, <3>1
  <2>3. p[1] \in 1..(n - 1)
    BY <2>1, <2>2
  <2> QED BY <2>1, <2>2, <2>3
<1>2. ASSUME NEW j \in 1..(n - 1) PROVE <<j, j + 1>> \in Intervals(1..n)
  BY DEF Intervals, Neighbours
<1>3. Intervals(1..n) = {<<j, j + 1>> : j \in 1..(n - 1)}
  BY <1>1, <1>2
<1>4. PICK f : f = [j \in 1..(n - 1) |-> <<j, j + 1>>]
  OBVIOUS
<1>5. f \in Bijection(1..(n - 1), Intervals(1..n))
  <2>1. f \in [1..(n - 1) -> Intervals(1..n)]
    BY <1>2, <1>4
  <2>2. \A i, j \in 1..(n - 1) : f[i] = f[j] => i = j
    BY <1>4
  <2>3. \A p \in Intervals(1..n) : \E j \in 1..(n - 1) : f[j] = p
    BY <1>3, <1>4
  <2> QED BY <2>1, <2>2, <2>3, Fun_IsBij
<1>6. IsFiniteSet(1..(n - 1)) /\ Cardinality(1..(n - 1)) = n - 1
  <2>1. 1 \in Int /\ n - 1 \in Int
    OBVIOUS
  <2>2. IsFiniteSet(1..(n - 1)) /\ Cardinality(1..(n - 1)) = (IF 1 > n - 1 THEN 0 ELSE n - 1 - 1 + 1)
    BY <2>1, FS_Interval
  <2> QED BY <2>2
<1>7. IsFiniteSet(Intervals(1..n)) /\ Cardinality(Intervals(1..n)) = Cardinality(1..(n - 1))
  <2>1. ExistsBijection(1..(n - 1), Intervals(1..n))
    BY <1>5 DEF ExistsBijection
  <2> QED BY <1>6, <2>1, FS_Bijection
<1> QED BY <1>3, <1>6, <1>7

\* The period of a regular stream of n - 1 intervals, two of them split ones,
\* is still its median.
LEMMA PeriodStands ==
  ASSUME NEW D, IsFiniteSet(D), NEW n \in Nat, n >= 5, Cardinality(D) = n,
         NEW f \in [D -> Int], NEW P \in Int,
         NEW a \in D, NEW b \in D, \A p \in D : p = a \/ p = b \/ f[p] = P
  PROVE  TwiceMedian(f) = 2 * P
<1>1. /\ DOMAIN f = D
      /\ n \div 2 \in Nat /\ (n + 1) \div 2 \in Nat
      /\ (n + 1) \div 2 >= 3 /\ (n + 1) \div 2 <= n - 2
      /\ n \div 2 + 1 >= 3 /\ n \div 2 + 1 <= n - 2
  OBVIOUS
<1>2. PICK below, at : below = {x \in D : f[x] < P} /\ at = {x \in D : f[x] = P}
  OBVIOUS
<1>3. /\ IsFiniteSet({a, b}) /\ Cardinality({a, b}) <= 2 /\ Cardinality({a, b}) \in Nat
  <2>1. IsFiniteSet({a}) /\ Cardinality({a}) = 1
    BY FS_Singleton
  <2>2. PICK S : S = {a} \cup {b}
    OBVIOUS
  <2>3. IsFiniteSet(S) /\ Cardinality(S) = IF b \in {a} THEN Cardinality({a}) ELSE Cardinality({a}) + 1
    BY <2>1, <2>2, FS_AddElement
  <2>4. S = {a, b}
    BY <2>2
  <2>5. Cardinality(S) = 1 \/ Cardinality(S) = 2
    BY <2>1, <2>3
  <2> QED BY <2>3, <2>4, <2>5
<1>4. below \subseteq {a, b} /\ D \ {a, b} \subseteq at /\ at \subseteq D
  BY <1>2
<1>5. Cardinality(below) <= 2 /\ Cardinality(below) \in Nat
  <2>1. IsFiniteSet(below) /\ Cardinality(below) <= Cardinality({a, b})
    BY <1>3, <1>4, FS_Subset
  <2>2. Cardinality(below) \in Nat
    BY <2>1, FS_CardinalityType
  <2> QED BY <1>3, <2>1, <2>2
<1>6. Cardinality(at) >= n - 2 /\ Cardinality(at) \in Nat
  <2>1. D \cap {a, b} = {a, b}
    OBVIOUS
  <2>2. IsFiniteSet(D \ {a, b}) /\ Cardinality(D \ {a, b}) = n - Cardinality({a, b})
    BY <2>1, FS_Difference
  <2>3. IsFiniteSet(at)
    BY <1>4, FS_Subset
  <2>4. Cardinality(D \ {a, b}) <= Cardinality(at) /\ Cardinality(at) \in Nat
    BY <1>4, <2>3, FS_Subset, FS_CardinalityType
  <2> QED BY <1>3, <2>2, <2>4
<1>7. P \in Range(f)
  <2>1. at # {}
    <3>1. Cardinality(at) # 0
      BY <1>6
    <3> QED BY <3>1, FS_EmptySet
  <2> QED BY <1>1, <1>2, <2>1 DEF Range
<1>8. ASSUME NEW k \in Nat, k >= 3, k <= n - 2 PROVE Kth(f, k) = P
  <2>1. Cardinality(below) < k /\ Cardinality(at) >= k
    BY <1>5, <1>6, <1>8
  <2> QED BY <1>2, <1>7, <2>1, KthIsUnique
<1>9. Kth(f, (n + 1) \div 2) = P /\ Kth(f, n \div 2 + 1) = P
  BY <1>1, <1>8
<1> QED BY <1>1, <1>9 DEF TwiceMedian

\* In a stream of one channel all sessions are in it.
LEMMA OneChannel ==
  ASSUME TypeOK, OneBandEach, NEW b, Bands = {b},
         Len(observations) >= MinSessions
  PROVE  EarlyIntervals = EarlyOfChannel(Positions)
<1>1. Bands = {b}
  OBVIOUS
<1>2. ASSUME NEW i \in Positions PROVE ChannelOf(Level(i), {b}) = b
  <2>1. \E c \in {b} : InBand(Level(i), c)
    BY <1>1 DEF OneBandEach
  <2> QED BY <2>1 DEF ChannelOf
<1>3. PICK channel : channel = [i \in Positions |-> ChannelOf(Level(i), Bands)]
  OBVIOUS
<1>4. {i \in Positions : channel[i] = b} = Positions
  BY <1>1, <1>2, <1>3
<1>5. Len(observations) \in Nat
  BY DEF TypeOK
<1>6. EarlyIntervals = UNION {EarlyOfChannel({i \in Positions : channel[i] = c}) : c \in {b}}
  BY <1>1, <1>3, <1>5 DEF EarlyIntervals
<1>7. UNION {EarlyOfChannel({i \in Positions : channel[i] = c}) : c \in {b}}
        = EarlyOfChannel({i \in Positions : channel[i] = b})
  OBVIOUS
<1> QED BY <1>4, <1>6, <1>7

\* A session injected into the regular heartbeat of one channel is reported, and
\* nothing else is, whatever the heartbeat's period and length and wherever in it
\* the session falls: the median does not move, and the one early interval is too
\* few to abstain (rules.py:374-456).  The code's early fraction is not above a
\* half and its floor of firings not below one.
THEOREM InjectionFound ==
  ASSUME EarlyPercent <= 50, MinFirings >= 1
  PROVE  Spec => []InjectionSplits
<1>1. ASSUME RulesInv, OneBandEach,
             stage = "done", windows = {}, Len(observations) >= 6,
             Len(observations) >= MinSessions,
             NEW band, Bands = {band}, SessionFindings({}) = {},
             NEW i \in 2..(Len(observations) - 1),
             NEW period, period = Gap(<<i - 1, i>>) + Gap(<<i, i + 1>>),
             RegularWithout(i, period), period > 0
      PROVE  findings = {[kind |-> "off_cycle_burst", at |-> p[2], from |-> p[1]] :
                           p \in {q \in {<<i - 1, i>>, <<i, i + 1>>} :
                                    100 * Gap(q) < EarlyPercent * period}}
  <2>1. PICK n : n = Len(observations)
    OBVIOUS
  <2>2. PICK all : all = Intervals(Positions)
    OBVIOUS
  <2>3. TypeOK
    BY <1>1 DEF RulesInv
  <2>4. n \in Nat \ {0} /\ n >= 6 /\ Positions = 1..n /\ i \in 2..(n - 1) /\ n >= MinSessions
    BY <1>1, <2>1, <2>3 DEF TypeOK, Positions
  <2>5. all = {<<j, j + 1>> : j \in 1..(n - 1)} /\ IsFiniteSet(all) /\ Cardinality(all) = n - 1
    BY <2>2, <2>4, AllIntervals
  <2>6. PICK a, b : a = <<i - 1, i>> /\ b = <<i, i + 1>>
    OBVIOUS
  <2>7. a \in all /\ b \in all /\ a # b
    BY <2>4, <2>5, <2>6
  <2>8. ASSUME NEW p \in all PROVE Gap(p) \in Int /\ p[1] \in Positions /\ p[2] \in Positions
    <3>1. p[1] \in 1..n /\ p[2] \in 1..n
      BY <2>4, <2>5
    <3>2. observations[p[1]].ts \in Int /\ observations[p[2]].ts \in Int
      <4>1. observations \in Seq(Session) /\ DOMAIN observations = 1..n
        BY <2>3, <2>4 DEF TypeOK, Positions
      <4>2. ASSUME NEW k \in DOMAIN observations PROVE observations[k] \in Session
        <5>1. observations \in [1..Len(observations) -> Session] /\ DOMAIN observations = 1..Len(observations)
          BY <4>1
        <5> QED BY <5>1
      <4>3. ASSUME NEW k \in 1..n PROVE observations[k].ts \in Int
        <5>1. observations[k] \in Session
          BY <4>1, <4>2
        <5> QED BY <5>1 DEF Session
      <4> QED BY <3>1, <4>3
    <3> QED BY <2>4, <3>1, <3>2 DEF Gap
  <2>9. period \in Int /\ period = Gap(a) + Gap(b)
    BY <1>1, <2>6, <2>7, <2>8
  \* Every other interval is one of the stream without session i.
  <2>10. ASSUME NEW p \in all, p # a, p # b PROVE Gap(p) = period
    <3>1. PICK j \in 1..(n - 1) : p = <<j, j + 1>>
      BY <2>5
    <3>2. j # i - 1 /\ j # i
      BY <2>6, <2>10, <3>1, <2>4
    <3>3. j \in Positions \ {i} /\ j + 1 \in Positions \ {i}
      BY <2>4, <3>1, <3>2
    <3>4. \A c \in Positions \ {i} : ~(j < c /\ c < j + 1)
      BY <2>4
    <3>5. p \in Intervals(Positions \ {i})
      <4>1. p[1] = j /\ p[2] = j + 1 /\ j < j + 1
        BY <3>1
      <4> QED BY <3>1, <3>3, <3>4, <4>1 DEF Intervals, Neighbours
    <3> QED BY <1>1, <3>5 DEF RegularWithout
  <2>11. PICK f : f = [p \in all |-> Gap(p)]
    OBVIOUS
  <2>12. TwiceMedian(f) = 2 * period
    <3>1. f \in [all -> Int] /\ \A p \in all : p = a \/ p = b \/ f[p] = period
      BY <2>8, <2>10, <2>11
    <3>2. PICK m : m = n - 1
      OBVIOUS
    <3>3. m \in Nat /\ m >= 5 /\ Cardinality(all) = m
      BY <2>4, <2>5, <3>2
    <3>4. /\ IsFiniteSet(all) /\ m \in Nat /\ m >= 5 /\ Cardinality(all) = m
          /\ f \in [all -> Int] /\ period \in Int /\ a \in all /\ b \in all
      BY <2>5, <2>7, <2>9, <3>1, <3>3
    <3>5. \A p \in all : p = a \/ p = b \/ f[p] = period
      BY <3>1
    <3>6. \A D : IsFiniteSet(D) => \A k \in Nat : k >= 5 => (Cardinality(D) = k =>
            \A g \in [D -> Int] : \A P \in Int : \A c \in D : \A d \in D :
              ((\A p \in D : p = c \/ p = d \/ g[p] = P) => TwiceMedian(g) = 2 * P))
      BY PeriodStands, Zenon
    <3>7. \A k \in Nat : k >= 5 => (Cardinality(all) = k =>
            \A g \in [all -> Int] : \A P \in Int : \A c \in all : \A d \in all :
              ((\A p \in all : p = c \/ p = d \/ g[p] = P) => TwiceMedian(g) = 2 * P))
      <4>1. IsFiniteSet(all)
        BY <3>4
      <4> QED BY <3>6, <4>1, Zenon
    <3>8. \A g \in [all -> Int] : \A P \in Int : \A c \in all : \A d \in all :
            ((\A p \in all : p = c \/ p = d \/ g[p] = P) => TwiceMedian(g) = 2 * P)
      BY <3>4, <3>7, Zenon
    <3> QED BY <3>4, <3>5, <3>8, Zenon
  <2>13. PICK early : early = EarlyIn(all)
    OBVIOUS
  <2>14. EarlyPercent \in 0..50 /\ EarlyPercent \in Int
    BY <1>1
  <2>15. early = {p \in all : 200 * Gap(p) < EarlyPercent * (2 * period)}
    <3>1. TwiceMedian([p \in all |-> Gap(p)]) = 2 * period
      BY <2>11, <2>12
    <3>2. ~(2 * period <= 0)
      BY <1>1, <2>9
    <3> QED BY <2>13, <3>1, <3>2 DEF EarlyIn
  <2>16. EarlyPercent * period \in Int /\ EarlyPercent * period <= 50 * period
         /\ EarlyPercent * (2 * period) = 2 * (EarlyPercent * period)
    <3>1. \A e \in 0..50, g \in Int : g > 0 => (e * g \in Int /\ e * g <= 50 * g /\ e * (2 * g) = 2 * (e * g))
      OBVIOUS
    <3> QED BY <1>1, <2>9, <2>14, <3>1
  <2>17. early = {q \in {<<i - 1, i>>, <<i, i + 1>>} : 100 * Gap(q) < EarlyPercent * period}
    <3>1. ASSUME NEW p \in all
          PROVE  200 * Gap(p) < EarlyPercent * (2 * period) <=> 100 * Gap(p) < EarlyPercent * period
      BY <2>8, <2>16
    <3>2. ASSUME NEW p \in all, p # a, p # b PROVE ~(100 * Gap(p) < EarlyPercent * period)
      <4>1. PICK share : share = EarlyPercent * period
        OBVIOUS
      <4>2. share \in Int /\ share <= 50 * period /\ period > 0 /\ period \in Int /\ Gap(p) = period
        BY <1>1, <2>9, <2>10, <2>16, <3>2, <4>1
      <4>3. ~(100 * period < share)
        BY <4>2
      <4> QED BY <4>1, <4>2, <4>3
    <3>3. ASSUME NEW p PROVE p \in early <=> (p \in {a, b} /\ 100 * Gap(p) < EarlyPercent * period)
      BY <2>7, <2>15, <3>1, <3>2
    <3> QED BY <2>6, <3>3
  <2>18. ~(a \in early /\ b \in early)
    <3>1. ASSUME a \in early, b \in early PROVE FALSE
      <4>1. 100 * Gap(a) < EarlyPercent * period /\ 100 * Gap(b) < EarlyPercent * period
        BY <2>6, <2>17, <3>1
      <4>2. PICK share : share = EarlyPercent * period
        OBVIOUS
      <4>3. share \in Int /\ share <= 50 * period /\ period \in Int
        BY <2>9, <2>16, <4>2
      <4>4. Gap(a) \in Int /\ Gap(b) \in Int /\ period = Gap(a) + Gap(b)
        BY <2>7, <2>8, <2>9
      <4>5. 100 * Gap(a) < share /\ 100 * Gap(b) < share
        BY <4>1, <4>2
      <4> QED BY <4>3, <4>4, <4>5
    <3> QED BY <3>1
  <2>19. Cardinality(early) <= 1 /\ Cardinality(early) \in Nat
    <3>1. early = {} \/ early = {a} \/ early = {b}
      <4>1. early \subseteq {a, b}
        BY <2>6, <2>17
      <4> QED BY <2>18, <4>1
    <3>2. CASE early = {}
      <4>1. Cardinality(early) = 0
        BY <3>2, FS_EmptySet, Zenon
      <4> QED BY <4>1
    <3>3. CASE early = {a}
      <4>1. Cardinality(early) = 1
        BY <3>3, FS_Singleton, Zenon
      <4> QED BY <4>1
    <3>4. CASE early = {b}
      <4>1. Cardinality(early) = 1
        BY <3>4, FS_Singleton, Zenon
      <4> QED BY <4>1
    <3> QED BY <3>1, <3>2, <3>3, <3>4
  <2>20. EarlyOfChannel(Positions) = early
    <3>1. ~ShouldAbstain(Cardinality(early), Cardinality(all))
      BY <1>1, <2>19 DEF ShouldAbstain
    <3>2. ~(Cardinality(Positions) < MinSessions)
      <4>1. Cardinality(Positions) = n
        <5>1. 1 \in Int /\ n \in Int
          BY <2>4
        <5>2. Cardinality(1..n) = IF 1 > n THEN 0 ELSE n - 1 + 1
          BY <5>1, FS_Interval
        <5> QED BY <2>4, <5>2
      <4> QED BY <2>4, <4>1
    <3> QED BY <2>2, <2>13, <3>1, <3>2 DEF EarlyOfChannel
  <2>21. EarlyIntervals = early
    BY <1>1, <2>3, <2>20, OneChannel
  <2>22. Explained({}) = {}
    BY DEF Explained
  <2>23. CadenceFindings({}, {}) = {[kind |-> "off_cycle_burst", at |-> p[2], from |-> p[1]] : p \in early}
    <3>1. \A q \in early : ~IsExplained(q, {}) /\ ~UnderMaintenance(q, {})
      BY DEF IsExplained, UnderMaintenance, InMaintenance
    <3> QED BY <2>21, <3>1 DEF CadenceFindings
  <2>24. findings = FindingsUnder(windows)
    BY <1>1, <2>3 DEF RulesInv, Progress, TypeOK
  <2>25. findings = CadenceFindings({}, {})
    BY <1>1, <2>22, <2>24 DEF FindingsUnder
  <2> QED BY <2>17, <2>23, <2>25
<1>2. RulesInv /\ OneBandEach => InjectionSplits
  BY <1>1 DEF InjectionSplits
<1> QED BY <1>2, RulesInvariance, ChannelsPartition, PTL

----------------------------------------------------------------------------
(* The ranking of the findings *)

\* The cardinality the instances speak of.
LEMMA SameCardinality ==
  ASSUME NEW S
  PROVE  Scoring!Cardinality(S) = Cardinality(S) /\ Ranking!Cardinality(S) = Cardinality(S)
<1>1. Scoring!Cardinality(S) = Cardinality(S)
  BY Zenon DEF Cardinality, Scoring!Cardinality
<1>2. Ranking!Cardinality(S) = Cardinality(S)
  BY Zenon DEF Cardinality, Ranking!Cardinality
<1> QED BY <1>1, <1>2

\* A finite set has a listing, in which each of its elements is once.
LEMMA SetListed ==
  ASSUME NEW S, IsFiniteSet(S), NEW l, l = Scoring!SetToSeq(S)
  PROVE  /\ Cardinality(S) \in Nat
         /\ l \in [1..Cardinality(S) -> S] /\ Len(l) = Cardinality(S)
         /\ \A a, b \in 1..Cardinality(S) : l[a] = l[b] => a = b
<1>1. Cardinality(S) \in Nat /\ ExistsBijection(1..Cardinality(S), S)
  BY FS_CardinalityType
<1>2. \E f \in [1..Cardinality(S) -> S] : Scoring!IsInjective(f)
  <2>1. PICK f : f \in Bijection(1..Cardinality(S), S)
    BY <1>1 DEF ExistsBijection
  <2>2. f \in [1..Cardinality(S) -> S] /\ DOMAIN f = 1..Cardinality(S)
        /\ \A a, b \in 1..Cardinality(S) : f[a] = f[b] => a = b
    BY <2>1 DEF Bijection, Injection, IsInjective
  <2> QED BY <2>2 DEF Scoring!IsInjective
<1>3. l \in [1..Cardinality(S) -> S] /\ Scoring!IsInjective(l)
  BY <1>2, SameCardinality DEF Scoring!SetToSeq
<1>4. DOMAIN l = 1..Cardinality(S)
  BY <1>3
<1>5. \A a, b \in 1..Cardinality(S) : l[a] = l[b] => a = b
  BY <1>3, <1>4 DEF Scoring!IsInjective
<1>6. PICK n \in Nat : n = Cardinality(S)
  BY <1>1
<1>7. l \in Seq(S) /\ Len(l) = n
  BY <1>3, <1>6
<1> QED BY <1>1, <1>3, <1>5, <1>6, <1>7

\* The place of each element in a stable sort by falling values.
StablePlaces(n, v) ==
  [m \in 1..n |-> 1 + Cardinality({k \in 1..n : v[k] > v[m] \/ (v[k] = v[m] /\ k < m)})]

\* Each element has a place of its own, and one with a smaller place has no
\* smaller value.
FallingOrder(n, v, place) ==
  /\ \A k \in 1..n : \E m \in 1..n : place[m] = k
  /\ \A a, b \in 1..n : place[a] = place[b] => a = b
  /\ \A a, b \in 1..n : place[a] \in 1..n /\ (place[a] < place[b] => v[a] >= v[b])

LEMMA PlacesInOrder ==
  ASSUME NEW n \in Nat, NEW v \in [1..n -> Int]
  PROVE  FallingOrder(n, v, StablePlaces(n, v))
<1> DEFINE place == StablePlaces(n, v)
<1>1. PICK before : before = [m \in 1..n |-> {k \in 1..n : v[k] > v[m] \/ (v[k] = v[m] /\ k < m)}]
  OBVIOUS
<1>0. place = [m \in 1..n |-> 1 + Cardinality(before[m])]
  BY <1>1 DEF StablePlaces
<1> HIDE DEF place
<1>2. \A k, m \in 1..n : k \in before[m] <=> (v[k] > v[m] \/ (v[k] = v[m] /\ k < m))
  BY <1>1
<1>3. \A m \in 1..n : before[m] \subseteq (1..n) \ {m}
  BY <1>1
<1>4. IsFiniteSet(1..n) /\ Cardinality(1..n) = n
  <2>1. 1 \in Int /\ n \in Int
    OBVIOUS
  <2>2. IsFiniteSet(1..n) /\ Cardinality(1..n) = (IF 1 > n THEN 0 ELSE n - 1 + 1)
    BY <2>1, FS_Interval
  <2> QED BY <2>2
<1>5. ASSUME NEW m \in 1..n
      PROVE  /\ IsFiniteSet(before[m]) /\ Cardinality(before[m]) \in Nat
             /\ Cardinality(before[m]) < n
  <2>1. IsFiniteSet((1..n) \ {m}) /\ Cardinality((1..n) \ {m}) = n - 1
    <3>1. PICK S : S = 1..n
      OBVIOUS
    <3>2. IsFiniteSet(S) /\ Cardinality(S) = n /\ m \in S
      BY <1>4, <3>1
    <3>3. IsFiniteSet(S \ {m}) /\ Cardinality(S \ {m}) = Cardinality(S) - 1
      BY <3>2, FS_RemoveElement
    <3> QED BY <3>1, <3>2, <3>3
  <2>2. IsFiniteSet(before[m]) /\ Cardinality(before[m]) <= n - 1
    <3>1. before[m] \in SUBSET ((1..n) \ {m})
      BY <1>3
    <3> QED BY <2>1, <3>1, FS_Subset
  <2>3. Cardinality(before[m]) \in Nat
    BY <2>2, FS_CardinalityType
  <2> QED BY <2>2, <2>3
<1>6. \A m \in 1..n : place[m] = 1 + Cardinality(before[m]) /\ place[m] \in 1..n
  <2>1. \A m \in 1..n : place[m] = 1 + Cardinality(before[m])
    BY <1>0
  <2>2. ASSUME NEW m \in 1..n PROVE place[m] \in 1..n
    <3>1. PICK c : c = Cardinality(before[m])
      OBVIOUS
    <3>2. c \in Nat /\ c < n /\ place[m] = 1 + c
      BY <1>5, <2>1, <3>1
    <3> QED BY <3>2
  <2> QED BY <2>1, <2>2
<1>7. ASSUME NEW a \in 1..n, NEW b \in 1..n, a \in before[b]
      PROVE  place[a] < place[b]
  <2>1. before[a] \subseteq before[b]
    <3>1. ASSUME NEW k \in before[a] PROVE k \in before[b]
      <4>1. k \in 1..n /\ v[k] \in Int /\ v[a] \in Int /\ v[b] \in Int
        BY <1>1
      <4> QED BY <1>2, <1>7, <4>1
    <3> QED BY <3>1
  <2>2. before[a] # before[b]
    BY <1>3, <1>7
  <2>3. Cardinality(before[a]) < Cardinality(before[b])
    <3>1. IsFiniteSet(before[b]) /\ before[a] \in SUBSET before[b]
      BY <1>5, <2>1
    <3>2. /\ Cardinality(before[a]) <= Cardinality(before[b])
          /\ Cardinality(before[b]) = Cardinality(before[a]) => before[b] = before[a]
      BY <3>1, FS_Subset
    <3> QED BY <1>5, <2>2, <3>2
  <2>4. PICK c, d : c = Cardinality(before[a]) /\ d = Cardinality(before[b])
    OBVIOUS
  <2>5. c \in Nat /\ d \in Nat /\ c < d
    BY <1>5, <2>3, <2>4
  <2>6. place[a] = 1 + c /\ place[b] = 1 + d
    BY <1>6, <2>4
  <2> QED BY <2>5, <2>6
<1>8. ASSUME NEW a \in 1..n, NEW b \in 1..n, a # b
      PROVE  a \in before[b] \/ b \in before[a]
  <2>1. v[a] \in Int /\ v[b] \in Int
    OBVIOUS
  <2> QED BY <1>2, <1>8, <2>1
<1>9. \A a, b \in 1..n : place[a] = place[b] => a = b
  <2>1. \A m \in 1..n : place[m] \in Int
    BY <1>6
  <2>2. ASSUME NEW a \in 1..n, NEW b \in 1..n, a # b PROVE place[a] # place[b]
    <3>1. place[a] < place[b] \/ place[b] < place[a]
      BY <1>7, <1>8, <2>2
    <3> QED BY <2>1, <3>1
  <2> QED BY <2>2
<1>10. \A a, b \in 1..n : place[a] < place[b] => v[a] >= v[b]
  <2>1. ASSUME NEW a \in 1..n, NEW b \in 1..n, place[a] < place[b]
        PROVE  v[a] >= v[b]
    <3>1. place[a] \in Int /\ place[b] \in Int /\ v[a] \in Int /\ v[b] \in Int
      BY <1>6
    <3>2. b \notin before[a]
      <4>1. ASSUME b \in before[a] PROVE FALSE
        <5>1. place[b] < place[a]
          BY <1>7, <4>1
        <5> QED BY <2>1, <3>1, <5>1
      <4> QED BY <4>1
    <3> QED BY <1>2, <3>1, <3>2
  <2> QED BY <2>1
<1>11. \A k \in 1..n : \E m \in 1..n : place[m] = k
  <2>1. place \in [1..n -> 1..n]
    BY <1>0, <1>6
  <2>2. place \in Injection(1..n, 1..n)
    BY <1>9, <2>1, Fun_IsInj
  <2>3. place \in Surjection(1..n, 1..n)
    BY <1>4, <2>2, FS_Injection
  <2> QED BY <2>3 DEF Surjection
<1>12. FallingOrder(n, v, place)
  BY <1>6, <1>9, <1>10, <1>11 DEF FallingOrder
<1> QED BY <1>12 DEF place

\* Ranking loses nothing and puts no finding before one of a higher priority.
InPriority(n, fs, ranked) ==
  /\ Len(ranked) = n /\ DOMAIN ranked = 1..n
  /\ \A k, l \in 1..n : k < l =>
       \E a, b \in 1..n :
         /\ ranked[k] = fs[a] /\ ranked[l] = fs[b]
         /\ Ranking!Priority(fs[a]) >= Ranking!Priority(fs[b])

LEMMA RankedInOrder ==
  ASSUME NEW fs, NEW n \in Nat, Len(fs) = n,
         \A k \in 1..n : Ranking!Priority(fs[k]) \in Int
  PROVE  InPriority(n, fs, Ranking!Rank(fs))
<1>1. PICK v : v = [k \in 1..n |-> Ranking!Priority(fs[k])]
  OBVIOUS
<1>2. v \in [1..n -> Int] /\ \A k \in 1..n : v[k] = Ranking!Priority(fs[k])
  BY <1>1
<1>3. PICK place : place = StablePlaces(n, v)
  OBVIOUS
<1>4. /\ \A k \in 1..n : \E m \in 1..n : place[m] = k
      /\ \A a, b \in 1..n : place[a] = place[b] => a = b
      /\ \A a, b \in 1..n : place[a] \in 1..n /\ (place[a] < place[b] => v[a] >= v[b])
  <2>1. v \in [1..n -> Int]
    BY <1>2
  <2>2. FallingOrder(n, v, place)
    BY <1>3, <2>1, PlacesInOrder, Zenon
  <2> QED BY <2>2 DEF FallingOrder
<1>5. ASSUME NEW m \in 1..n
      PROVE  1 + Ranking!Cardinality({k \in 1..Len(fs) :
               \/ Ranking!Priority(fs[k]) > Ranking!Priority(fs[m])
               \/ Ranking!Priority(fs[k]) = Ranking!Priority(fs[m]) /\ k < m}) = place[m]
  <2>1. PICK S : S = {k \in 1..Len(fs) :
               \/ Ranking!Priority(fs[k]) > Ranking!Priority(fs[m])
               \/ Ranking!Priority(fs[k]) = Ranking!Priority(fs[m]) /\ k < m}
    OBVIOUS
  <2>2. S = {k \in 1..n : v[k] > v[m] \/ (v[k] = v[m] /\ k < m)}
    BY <1>2, <2>1
  <2>3. place[m] = 1 + Cardinality(S)
    BY <1>3, <2>2 DEF StablePlaces
  <2>4. Ranking!Cardinality(S) = Cardinality(S)
    BY SameCardinality
  <2> QED BY <2>1, <2>3, <2>4
<1>6. PICK at : at = [k \in 1..n |-> CHOOSE m \in 1..n : place[m] = k]
  OBVIOUS
<1>7. \A k \in 1..n : at[k] \in 1..n /\ place[at[k]] = k
  BY <1>4, <1>6
<1>8. ASSUME NEW k \in 1..n
      PROVE  (CHOOSE m \in 1..Len(fs) :
                1 + Ranking!Cardinality({j \in 1..Len(fs) :
                      \/ Ranking!Priority(fs[j]) > Ranking!Priority(fs[m])
                      \/ Ranking!Priority(fs[j]) = Ranking!Priority(fs[m]) /\ j < m}) = k) = at[k]
  <2> DEFINE pl(m) == 1 + Ranking!Cardinality({j \in 1..Len(fs) :
                      \/ Ranking!Priority(fs[j]) > Ranking!Priority(fs[m])
                      \/ Ranking!Priority(fs[j]) = Ranking!Priority(fs[m]) /\ j < m})
  <2>1. \A m \in 1..n : pl(m) = place[m]
    BY <1>5
  <2> HIDE DEF pl
  <2>2. \A m \in 1..n : pl(m) = k <=> m = at[k]
    <3>1. ASSUME NEW m \in 1..n, pl(m) = k PROVE m = at[k]
      <4>1. place[m] = place[at[k]] /\ at[k] \in 1..n
        BY <1>7, <2>1, <3>1
      <4> QED BY <1>4, <4>1
    <3>2. pl(at[k]) = k
      BY <1>7, <2>1
    <3> QED BY <3>1, <3>2
  <2>3. (CHOOSE m \in 1..n : pl(m) = k) = at[k]
    BY <1>7, <2>2
  <2> QED BY <2>3 DEF pl
<1>9. Ranking!Rank(fs) = [k \in 1..n |-> fs[at[k]]]
  <2>1. Ranking!Rank(fs) = [k \in 1..Len(fs) |-> fs[CHOOSE m \in 1..Len(fs) :
                1 + Ranking!Cardinality({j \in 1..Len(fs) :
                      \/ Ranking!Priority(fs[j]) > Ranking!Priority(fs[m])
                      \/ Ranking!Priority(fs[j]) = Ranking!Priority(fs[m]) /\ j < m}) = k]]
    BY Zenon DEF Ranking!Rank
  <2> QED BY <1>8, <2>1, Zenon
<1>10. PICK r : r = Ranking!Rank(fs)
  OBVIOUS
<1>11. DOMAIN r = 1..n /\ \A k \in 1..n : r[k] = fs[at[k]]
  BY <1>9, <1>10
<1>12. Len(r) = n
  <2>1. PICK S : S = {fs[m] : m \in 1..n}
    OBVIOUS
  <2>2. r \in [1..n -> S]
    BY <1>7, <1>9, <1>10, <2>1
  <2>3. r \in Seq(S)
    BY <2>2
  <2> QED BY <2>2, <2>3
<1>13. ASSUME NEW k \in 1..n, NEW l \in 1..n, k < l
       PROVE  v[at[k]] >= v[at[l]]
  <2>1. PICK a, b : a = at[k] /\ b = at[l]
    OBVIOUS
  <2>2. a \in 1..n /\ b \in 1..n /\ place[a] = k /\ place[b] = l
    BY <1>7, <2>1
  <2>3. v[a] >= v[b]
    BY <1>4, <1>13, <2>2
  <2> QED BY <2>1, <2>3
<1>14. ASSUME NEW k \in 1..n, NEW l \in 1..n, k < l
       PROVE  \E a, b \in 1..n : /\ r[k] = fs[a] /\ r[l] = fs[b]
                /\ Ranking!Priority(fs[a]) >= Ranking!Priority(fs[b])
  <2>1. at[k] \in 1..n /\ at[l] \in 1..n /\ r[k] = fs[at[k]] /\ r[l] = fs[at[l]]
    BY <1>7, <1>11
  <2>2. v[at[k]] >= v[at[l]]
    BY <1>13, <1>14
  <2>3. Ranking!Priority(fs[at[k]]) >= Ranking!Priority(fs[at[l]])
    BY <1>2, <2>1, <2>2
  <2> QED BY <2>1, <2>3
<1>15. \A k, l \in 1..n : k < l =>
         \E a, b \in 1..n : /\ r[k] = fs[a] /\ r[l] = fs[b]
                            /\ Ranking!Priority(fs[a]) >= Ranking!Priority(fs[b])
  BY <1>14
<1>16. InPriority(n, fs, r)
  BY <1>11, <1>12, <1>15, Zenon DEF InPriority
<1> QED BY <1>10, <1>16

\* The rules report finitely many findings, of known sessions.
LEMMA FindingsFinite ==
  ASSUME RulesInv, OneFindingPerSession
  PROVE  IsFiniteSet(findings)
         /\ \A f \in findings : f.at \in Positions /\ f.from \in Positions /\ f.kind \in Kind
<1>1. TypeOK /\ windows \in Schedules /\ Positions = 1..Len(observations) /\ Len(observations) \in Nat
  BY DEF RulesInv, TypeOK, Positions
<1>2. findings \subseteq FindingsUnder(windows)
  BY <1>1 DEF RulesInv, TypeOK, Progress, FindingsUnder
<1>3. ASSUME NEW f \in findings PROVE f.at \in Positions /\ f.from \in Positions
  <2>1. f \in SessionFindings(windows) \/ f \in CadenceFindings(Explained(SessionFindings(windows)), windows)
    BY <1>2 DEF FindingsUnder
  <2>2. CASE f \in SessionFindings(windows)
    BY <2>2, SessionFindingsShape
  <2>3. CASE f \in CadenceFindings(Explained(SessionFindings(windows)), windows)
    <3>1. <<f.from, f.at>> \in EarlyIntervals
      BY <2>3, CadenceFindingsShape
    <3>2. <<f.from, f.at>> \in Positions \X Positions
      BY <3>1, EarlyInChannel
    <3> QED BY <3>2
  <2> QED BY <2>1, <2>2, <2>3
<1>4. \A f \in findings : f.kind \in Kind
  BY <1>1 DEF TypeOK, Finding
<1>5. PICK where : where = [f \in findings |-> f.at]
  OBVIOUS
<1>6. where \in Injection(findings, Positions)
  <2>1. where \in [findings -> Positions]
    BY <1>3, <1>5
  <2>2. \A f, g \in findings : where[f] = where[g] => f = g
    BY <1>5 DEF OneFindingPerSession
  <2> QED BY <2>1, <2>2, Fun_IsInj
<1>7. IsFiniteSet(Positions)
  <2>1. PICK n : n = Len(observations)
    OBVIOUS
  <2>2. 1 \in Int /\ n \in Int
    BY <1>1, <2>1
  <2> QED BY <1>1, <2>1, <2>2, FS_Interval
<1> QED BY <1>3, <1>4, <1>6, <1>7, FS_Injection

\* What the network monitor sends: every finding once, those about the unlisted
\* device behind the others, for any capacity the listed one may have that is more
\* than three times the nominal kilowatt, and for one up to that unless they are of
\* a worse kind; one of a kilowatt or less, or without a capacity, is promised
\* nothing (inventory.py:25-27, 52-61, 70-111).
THEOREM UnknownIsLast == Spec => []UnknownComesLast
<1>1. ASSUME RulesInv, OneFindingPerSession, NEW watts \in ListedWatts,
             NEW sent, sent = Sent(watts)
      PROVE  /\ Len(sent) = Cardinality(findings)
             /\ \A m, n \in DOMAIN sent :
                  sent[m].subject # "inverter" /\ sent[n].subject = "inverter" /\ m < n =>
                    \/ watts <= 1000
                    \/ watts <= 3000 /\ sent[m].severity = "high" /\ sent[n].severity = "medium"
  <2>1. IsFiniteSet(findings) /\ \A f \in findings : f.kind \in Kind
    BY <1>1, FindingsFinite
  <2>2. PICK l : l = Scoring!SetToSeq(findings)
    OBVIOUS
  <2>3. PICK n : n = Cardinality(findings)
    OBVIOUS
  <2>4. n \in Nat /\ l \in [1..n -> findings]
    BY <2>1, <2>2, <2>3, SetListed
  <2>5. PICK kw : kw = IF watts = -1 THEN 1000 ELSE watts
    OBVIOUS
  <2>5a. kw \in Nat /\ watts \in Int
    BY <2>5, ListedAssumption
  <2>5b. PICK weight : weight = IF kw = 0 THEN 1000 ELSE kw
    OBVIOUS
  <2>5c. weight \in Nat /\ (watts > 1000 => weight = watts)
    BY <2>5, <2>5a, <2>5b
  <2> DEFINE bare == [k \in 1..n |-> [subject |-> observations[l[k].at].subject,
                                      severity |-> SeverityOf[l[k].kind]]]
             fs == Ranking!Enrich(bare, [inverter |-> watts])
  <2>6. sent = Ranking!Rank(fs)
    <3>1. DOMAIN l = 1..n
      BY <2>4
    <3> QED BY <1>1, <2>2, <3>1 DEF Sent
  <2>7. ASSUME NEW k \in 1..n
        PROVE  /\ bare[k].severity \in {"high", "medium"}
               /\ fs[k] = [subject |-> bare[k].subject, severity |-> bare[k].severity,
                           watts |-> IF bare[k].subject = "inverter" THEN kw ELSE 1000]
    <3>1. l[k].kind \in Kind
      BY <2>1, <2>4
    <3>2. bare[k].severity \in {"high", "medium"}
      BY <3>1 DEF SeverityOf
    <3> DEFINE b == bare[k]
    <3>3. DOMAIN bare = 1..n
      OBVIOUS
    <3> HIDE DEF bare
    <3>4. fs[k] = [subject |-> b.subject, severity |-> b.severity,
                   watts |-> Ranking!Capacity([inverter |-> watts], b.subject)]
      BY <3>3 DEF Ranking!Enrich
    <3>5. Ranking!Capacity([inverter |-> watts], b.subject) = IF b.subject = "inverter" THEN kw ELSE 1000
      <4>1. DOMAIN [inverter |-> watts] = {"inverter"} /\ [inverter |-> watts].inverter = watts
        OBVIOUS
      <4>2. CASE b.subject = "inverter"
        BY <2>5, <4>1, <4>2 DEF Ranking!Capacity, Ranking!UnknownDeviceWatts
      <4>3. CASE b.subject # "inverter"
        BY <4>1, <4>3 DEF Ranking!Capacity, Ranking!UnknownDeviceWatts
      <4> QED BY <4>2, <4>3
    <3> QED BY <3>2, <3>4, <3>5
  <2>8. Len(fs) = n
    <3>1. PICK S : S = {fs[k] : k \in 1..n}
      OBVIOUS
    <3>2. DOMAIN bare = 1..n
      OBVIOUS
    <3> HIDE DEF bare
    <3>3. PICK g : g = fs
      OBVIOUS
    <3>4. g \in [1..n -> S]
      BY <3>1, <3>2, <3>3 DEF Ranking!Enrich
    <3>5. g \in Seq(S) /\ Len(g) = n
      BY <2>4, <3>4
    <3> QED BY <3>3, <3>5
  <2> HIDE DEF fs
  <2>9. ASSUME NEW k \in 1..n
        PROVE  /\ fs[k].subject = "inverter" \/ fs[k].subject # "inverter"
               /\ fs[k].severity \in {"high", "medium"}
               /\ Ranking!Priority(fs[k]) =
                    (IF fs[k].severity = "high" THEN 30 ELSE 10)
                      * (IF fs[k].subject = "inverter" THEN weight ELSE 1000)
    <3>1. PICK s, c, d : s = bare[k].subject /\ c = bare[k].severity
                         /\ d = IF s = "inverter" THEN kw ELSE 1000
      OBVIOUS
    <3>2. c \in {"high", "medium"} /\ fs[k] = [subject |-> s, severity |-> c, watts |-> d]
      BY <2>7, <3>1
    <3>3. fs[k].watts = d /\ fs[k].severity = c /\ fs[k].subject = s
      BY <3>1, <3>2
    <3>3a. PICK w : w = IF d = 0 THEN 1000 ELSE d
      OBVIOUS
    <3>3b. w = IF s = "inverter" THEN weight ELSE 1000
      <4>1. CASE s = "inverter"
        <5>1. d = kw
          BY <3>1, <4>1
        <5> QED BY <2>5b, <3>3a, <4>1, <5>1
      <4>2. CASE s # "inverter"
        <5>1. d = 1000 /\ 1000 # 0
          BY <3>1, <4>2
        <5> QED BY <3>3a, <4>2, <5>1
      <4> QED BY <4>1, <4>2
    <3>4. Ranking!Weight[c] = IF c = "high" THEN 30 ELSE 10
      BY <3>2 DEF Ranking!Weight
    <3>5. Ranking!Priority(fs[k]) = Ranking!Weight[c] * w
      BY <3>3, <3>3a DEF Ranking!Priority, Ranking!UnknownDeviceWatts
    <3> QED BY <3>1, <3>2, <3>3, <3>3b, <3>4, <3>5
  <2>10. \A k \in 1..n : Ranking!Priority(fs[k]) \in Int
    BY <2>5c, <2>9
  <2>11. InPriority(n, fs, sent)
    BY <2>4, <2>6, <2>8, <2>10, RankedInOrder
  <2>12. ASSUME NEW i \in 1..n, NEW j \in 1..n, i < j,
                sent[i].subject # "inverter", sent[j].subject = "inverter"
         PROVE  \/ watts <= 1000
                \/ watts <= 3000 /\ sent[i].severity = "high" /\ sent[j].severity = "medium"
    <3>1. PICK a \in 1..n, b \in 1..n :
            /\ sent[i] = fs[a] /\ sent[j] = fs[b]
            /\ Ranking!Priority(fs[a]) >= Ranking!Priority(fs[b])
      <4>1. \A k, m \in 1..n : k < m =>
              \E a, b \in 1..n : /\ sent[k] = fs[a] /\ sent[m] = fs[b]
                                 /\ Ranking!Priority(fs[a]) >= Ranking!Priority(fs[b])
        BY <2>11, Zenon DEF InPriority
      <4> QED BY <2>12, <4>1
    <3>2. /\ Ranking!Priority(fs[a]) = (IF fs[a].severity = "high" THEN 30 ELSE 10) * 1000
          /\ Ranking!Priority(fs[b]) = (IF fs[b].severity = "high" THEN 30 ELSE 10) * weight
          /\ fs[a].severity \in {"high", "medium"} /\ fs[b].severity \in {"high", "medium"}
      BY <2>9, <2>12, <3>1
    <3> QED BY <2>5a, <2>5c, <3>1, <3>2
  <2>13. Len(sent) = n /\ DOMAIN sent = 1..n
    BY <2>11 DEF InPriority
  <2> QED BY <2>3, <2>12, <2>13
<1>2. RulesInv /\ OneFindingPerSession => UnknownComesLast
  BY <1>1 DEF UnknownComesLast, Ranking!UnknownDeviceWatts
<1> QED BY <1>2, RulesInvariance, OneFinding, PTL

----------------------------------------------------------------------------
(* The injected session and the scorer *)

\* A manifest of one anomaly is one turn of the loop.
LEMMA OneTurn ==
  ASSUME NEW anomaly, NEW listed, NEW window
  PROVE  Scoring!ScoreOne(<<anomaly>>, listed, window)
           = Scoring!Claim([unclaimed |-> listed, hits |-> 0, missed |-> <<>>], anomaly, window)
<1> DEFINE base == [unclaimed |-> listed, hits |-> 0, missed |-> <<>>]
           turn(score) == Scoring!Claim(score, anomaly, window)
           next(g) == [s \in SUBSET DOMAIN <<anomaly>> |->
                         IF s = {} THEN base
                         ELSE Scoring!Claim(g[s \ {Scoring!Max(s)}], <<anomaly>>[Scoring!Max(s)], window)]
<1>1. Scoring!ScoreOne(<<anomaly>>, listed, window) = (CHOOSE g : g = next(g))[DOMAIN <<anomaly>>]
  BY Zenon DEF Scoring!ScoreOne, Scoring!FoldLeft, Scoring!MapThenFoldSet
<1>2. DOMAIN <<anomaly>> = {1} /\ <<anomaly>>[1] = anomaly
  OBVIOUS
<1>3. Scoring!Max({1}) = 1
  BY DEF Scoring!Max
<1>4. \A g : next(g) = [s \in SUBSET {1} |-> IF s = {} THEN base ELSE turn(g[{}])]
  <2>1. ASSUME NEW g, NEW s \in SUBSET {1}, s # {}
        PROVE  Scoring!Claim(g[s \ {Scoring!Max(s)}], <<anomaly>>[Scoring!Max(s)], window) = turn(g[{}])
    <3>1. s = {1}
      BY <2>1
    <3>2. s \ {Scoring!Max(s)} = {} /\ <<anomaly>>[Scoring!Max(s)] = anomaly
      BY <1>2, <1>3, <3>1
    <3> QED BY <3>2
  <2> HIDE DEF turn, base
  <2> QED BY <1>2, <2>1
<1> HIDE DEF turn, base, next
<1>5. \E g : g = next(g)
  <2>1. PICK g : g = [s \in SUBSET {1} |-> IF s = {} THEN base ELSE turn(base)]
    OBVIOUS
  <2>2. g[{}] = base
    BY <2>1
  <2>3. g = next(g)
    BY <1>4, <2>1, <2>2
  <2> QED BY <2>3
<1>6. PICK h : h = (CHOOSE g : g = next(g))
  OBVIOUS
<1>7. h = next(h)
  BY <1>5, <1>6
<1>8. h = [s \in SUBSET {1} |-> IF s = {} THEN base ELSE turn(h[{}])]
  BY <1>4, <1>7
<1>9. h[{}] = base
  <2>1. {} \in SUBSET {1}
    OBVIOUS
  <2> QED BY <1>8, <2>1
<1>10. h[{1}] = turn(base)
  <2>1. {1} \in SUBSET {1} /\ {1} # {}
    OBVIOUS
  <2>2. h[{1}] = turn(h[{}])
    BY <1>8, <2>1
  <2> QED BY <1>9, <2>2
<1> QED BY <1>1, <1>2, <1>6, <1>10 DEF turn, base

\* Of one anomaly and one finding that matches it nothing is left.
LEMMA OneForOne ==
  ASSUME NEW anomaly, NEW S, NEW finding \in S, NEW listed \in [1..1 -> {finding}], NEW window,
         Scoring!MatchesAnomaly(finding, anomaly, window)
  PROVE  Scoring!Perfect(Scoring!ScoreOne(<<anomaly>>, listed, window))
<1>1. DOMAIN listed = {1} /\ listed[1] = finding /\ listed \in Seq({finding}) /\ Len(listed) = 1
  <2>1. DOMAIN listed = 1..1 /\ listed[1] = finding
    OBVIOUS
  <2>2. 1..1 = {1}
    OBVIOUS
  <2>3. PICK n \in Nat : n = 1
    OBVIOUS
  <2>4. listed \in [1..n -> {finding}]
    BY <2>3
  <2>5. listed \in Seq({finding}) /\ Len(listed) = n
    BY <2>4
  <2> QED BY <2>1, <2>2, <2>3, <2>5
<1> DEFINE base == [unclaimed |-> listed, hits |-> 0, missed |-> <<>>]
           fits == {n \in DOMAIN base.unclaimed :
                      Scoring!MatchesAnomaly(base.unclaimed[n], anomaly, window)}
<1>2. fits = {1}
  BY <1>1
<1>3. (CHOOSE n \in fits : \A k \in fits : n <= k) = 1
  BY <1>2
<1>4. Scoring!RemoveAt(listed, 1) = <<>>
  <2>1. SubSeq(listed, 1, 0) = <<>> /\ SubSeq(listed, 2, 1) = <<>>
    BY <1>1
  <2> QED BY <1>1, <2>1 DEF Scoring!RemoveAt
<1>5. Scoring!Claim(base, anomaly, window)
        = IF fits = {} THEN [base EXCEPT !.missed = Append(@, anomaly)]
          ELSE [base EXCEPT !.hits = @ + 1,
                  !.unclaimed = Scoring!RemoveAt(@, CHOOSE n \in fits : \A k \in fits : n <= k)]
  BY DEF Scoring!Claim
<1>6. PICK c : c = Scoring!Claim(base, anomaly, window)
  OBVIOUS
<1> HIDE DEF fits
<1>7. c = [base EXCEPT !.hits = @ + 1, !.unclaimed = Scoring!RemoveAt(@, 1)]
  BY <1>2, <1>3, <1>5, <1>6
<1>8. c.unclaimed = Scoring!RemoveAt(listed, 1) /\ c.missed = <<>>
  BY <1>7
<1> QED BY <1>4, <1>6, <1>8, OneTurn DEF Scoring!Perfect

\* The sessions are in order of start.
InOrder ==
  \A i \in 1..(Len(observations) - 1) : observations[i].ts <= observations[i + 1].ts

LEMMA OrderStep == TypeOK /\ InOrder /\ [Next]_vars => InOrder'
<1> SUFFICES ASSUME TypeOK, InOrder, [Next]_vars PROVE InOrder'
  OBVIOUS
<1>1. observations \in Seq(Session)
  BY DEF TypeOK
<1>2. ASSUME NEW shape \in Shape, NEW pause \in Pause, Observe(shape, pause) PROVE InOrder'
  <2>1. PICK n, s : n = Len(observations) /\
          s = [ts |-> LastStart + pause, subject |-> shape.subject, asn |-> shape.asn,
               cc |-> shape.cc, size |-> shape.size]
    OBVIOUS
  <2>2. observations' = Append(observations, s) /\ s.ts = LastStart + pause
    BY <1>2, <2>1 DEF Observe
  <2>3. n \in Nat /\ Len(observations') = n + 1 /\ observations'[n + 1] = s
        /\ \A j \in 1..n : observations'[j] = observations[j]
    BY <1>1, <2>1, <2>2
  <2>4. pause \in Nat
    OBVIOUS
  <2>5. ASSUME NEW j \in 1..n PROVE observations'[j].ts <= observations'[j + 1].ts
    <3>1. CASE j < n
      <4>1. j \in 1..(n - 1) /\ j + 1 \in 1..n
        BY <2>3, <3>1
      <4> QED BY <2>1, <2>3, <4>1 DEF InOrder
    <3>2. CASE j = n
      <4>1. observations # <<>> /\ observations[n] \in Session
        BY <1>1, <2>1, <2>3, <2>5, <3>2
      <4>2. LastStart = observations[n].ts
        BY <2>1, <4>1 DEF LastStart
      <4>3. observations[n].ts \in Nat
        BY <4>1 DEF Session
      <4>4. observations[n].ts <= s.ts
        BY <2>2, <2>4, <4>2, <4>3
      <4> QED BY <2>3, <3>2, <4>4
    <3> QED BY <2>3, <3>1, <3>2
  <2> QED BY <2>3, <2>5 DEF InOrder
<1>3. CASE UNCHANGED observations
  BY <1>3 DEF InOrder
<1>4. ASSUME CheckSessions \/ CheckCadence \/ UNCHANGED vars PROVE UNCHANGED observations
  BY <1>4 DEF CheckSessions, CheckCadence, vars
<1> QED BY <1>2, <1>3, <1>4 DEF Next

LEMMA SessionsInOrder == Spec => []InOrder
<1>1. Init => InOrder
  <2>1. ASSUME Init PROVE Len(observations) = 0
    BY <2>1 DEF Init
  <2> QED BY <2>1 DEF InOrder
<1> QED BY <1>1, OrderStep, TypeCorrect, PTL DEF Spec

\* A finding about an interval that session i ends or begins is the anomaly that
\* was injected as session i.
LEMMA IntervalMatches ==
  ASSUME TypeOK, InOrder, NEW i \in 2..(Len(observations) - 1),
         NEW j \in {i - 1, i}
  PROVE  Scoring!MatchesAnomaly(
           [kind |-> "off_cycle_burst", start |-> observations[j].ts, ts |-> observations[j + 1].ts],
           [kind |-> "off_cycle_burst", t |-> observations[i].ts], 0)
<1>1. PICK n : n = Len(observations) /\ n \in Nat
  BY DEF TypeOK
<1>2. ASSUME NEW k \in 1..n PROVE observations[k].ts \in Int
  <2>1. observations \in [1..n -> Session]
    <3>1. observations \in Seq(Session)
      BY DEF TypeOK
    <3> QED BY <1>1, <3>1
  <2> QED BY <2>1 DEF Session
<1>3. observations[i - 1].ts <= observations[i].ts /\ observations[i].ts <= observations[i + 1].ts
  <2>1. i - 1 \in 1..(n - 1) /\ i \in 1..(n - 1) /\ i - 1 + 1 = i
    BY <1>1
  <2> QED BY <1>1, <2>1 DEF InOrder
<1>4. i - 1 \in 1..n /\ i \in 1..n /\ i + 1 \in 1..n
  BY <1>1
<1>5. PICK x, y, z : x = observations[i - 1].ts /\ y = observations[i].ts /\ z = observations[i + 1].ts
  OBVIOUS
<1>6. x \in Int /\ y \in Int /\ z \in Int /\ x <= y /\ y <= z
  BY <1>2, <1>3, <1>4, <1>5
<1>7. x - 0 <= y /\ y <= z + 0 /\ y - 0 <= y /\ y <= y + 0
  BY <1>6
<1>8. CASE j = i
  BY <1>5, <1>7, <1>8 DEF Scoring!MatchesAnomaly
<1>9. CASE j = i - 1
  <2>1. j + 1 = i
    BY <1>9
  <2> QED BY <1>5, <1>7, <1>9, <2>1 DEF Scoring!MatchesAnomaly
<1> QED BY <1>8, <1>9

\* The scorer finds a session injected into the regular heartbeat of one channel,
\* with no tolerance in time, and no false positive: exactly one part of the
\* split interval is below half the period, unless the session lands on its
\* middle, and both parts have the session at one end (rules.py:374-456,
\* sim/score.py:41-112).  The early fraction, the floor of firings and the least
\* number of sessions are the code's 0.5, 3 and 6, the latter two as bounds.
THEOREM InjectedIsFound ==
  ASSUME EarlyPercent = 50, MinFirings >= 1, MinSessions <= 6
  PROVE  Spec => []InjectedSessionIsFound
<1>1. ASSUME TypeOK, InOrder, InjectionSplits,
             stage = "done", windows = {}, Len(observations) >= 6,
             \E band \in Bands : Bands = {band}, SessionFindings({}) = {},
             NEW i \in 2..(Len(observations) - 1),
             NEW before, before = Gap(<<i - 1, i>>),
             NEW period, period = before + Gap(<<i, i + 1>>),
             RegularWithout(i, period), period > 0, 2 * before # period
      PROVE  Scoring!Perfect(Scoring!ScoreOne(
               <<[kind |-> "off_cycle_burst", t |-> observations[i].ts]>>, Found, 0))
  <2>1. PICK n : n = Len(observations) /\ n \in Nat
    BY DEF TypeOK
  <2>2. Len(observations) >= MinSessions
    <3>1. n >= 6 /\ MinSessions \in Nat /\ MinSessions <= 6
      BY <1>1, <2>1
    <3> QED BY <2>1, <3>1
  <2>3. PICK a, b : a = <<i - 1, i>> /\ b = <<i, i + 1>>
    OBVIOUS
  <2>4. Gap(a) \in Int /\ Gap(b) \in Int
    <3>1. ASSUME NEW k \in 1..n PROVE observations[k].ts \in Int
      <4>1. observations \in [1..n -> Session]
        <5>1. observations \in Seq(Session)
          BY <1>1 DEF TypeOK
        <5> QED BY <2>1, <5>1
      <4> QED BY <4>1 DEF Session
    <3>2. i - 1 \in 1..n /\ i \in 1..n /\ i + 1 \in 1..n
      BY <1>1, <2>1
    <3>3. a[1] = i - 1 /\ a[2] = i /\ b[1] = i /\ b[2] = i + 1
      BY <2>3
    <3>4. observations[i - 1].ts \in Int /\ observations[i].ts \in Int /\ observations[i + 1].ts \in Int
      BY <3>1, <3>2
    <3> QED BY <3>3, <3>4 DEF Gap
  <2>5. before = Gap(a) /\ period = Gap(a) + Gap(b)
    BY <1>1, <2>3
  <2>6. findings = {[kind |-> "off_cycle_burst", at |-> p[2], from |-> p[1]] :
                      p \in {q \in {<<i - 1, i>>, <<i, i + 1>>} : 100 * Gap(q) < EarlyPercent * period}}
    <3>1. period = Gap(<<i - 1, i>>) + Gap(<<i, i + 1>>)
      BY <2>3, <2>5
    <3> QED BY <1>1, <2>2, <3>1 DEF InjectionSplits
  <2>7. PICK short : short = {q \in {a, b} : 100 * Gap(q) < EarlyPercent * period}
    OBVIOUS
  <2>8. findings = {[kind |-> "off_cycle_burst", at |-> p[2], from |-> p[1]] : p \in short}
    BY <2>3, <2>6, <2>7
  <2>9. short = {a} \/ short = {b}
    <3>1. a # b
      <4>1. a[1] = i - 1 /\ b[1] = i /\ i \in Int
        BY <2>3
      <4> QED BY <4>1
    <3>2. ASSUME NEW g \in Int PROVE 100 * g < EarlyPercent * period <=> 2 * g < period
      <4>1. period \in Int /\ EarlyPercent = 50
        BY <1>1, <2>4, <2>5
      <4> QED BY <4>1
    <3>3. a \in short <=> 2 * Gap(a) < period
      BY <2>4, <2>7, <3>2
    <3>4. b \in short <=> 2 * Gap(b) < period
      BY <2>4, <2>7, <3>2
    <3>5. 2 * Gap(a) < period <=> ~(2 * Gap(b) < period)
      <4>1. 2 * Gap(a) # period
        BY <1>1, <2>5
      <4>2. PICK x, y : x = Gap(a) /\ y = Gap(b) /\ x \in Int /\ y \in Int
        BY <2>4
      <4> QED BY <2>5, <4>1, <4>2
    <3>6. short \subseteq {a, b}
      BY <2>7
    <3> QED BY <3>1, <3>3, <3>4, <3>5, <3>6
  <2>10. PICK j \in {i - 1, i} : short = {<<j, j + 1>>}
    <3>1. i - 1 + 1 = i
      OBVIOUS
    <3>2. a = <<i - 1, i - 1 + 1>>
      BY <2>3, <3>1
    <3> QED BY <2>3, <2>9, <3>2
  <2>11. PICK f : f = [kind |-> "off_cycle_burst", at |-> j + 1, from |-> j] /\ findings = {f}
    <3>1. findings = {[kind |-> "off_cycle_burst", at |-> p[2], from |-> p[1]] : p \in {<<j, j + 1>>}}
      BY <2>8, <2>10
    <3>2. <<j, j + 1>>[1] = j /\ <<j, j + 1>>[2] = j + 1
      OBVIOUS
    <3>3. PICK p : p = <<j, j + 1>>
      OBVIOUS
    <3>4. findings = {[kind |-> "off_cycle_burst", at |-> p[2], from |-> p[1]]}
      BY <3>1, <3>3
    <3> QED BY <3>2, <3>3, <3>4
  <2>12. PICK found : found = [kind |-> "off_cycle_burst", start |-> observations[j].ts,
                               ts |-> observations[j + 1].ts]
    OBVIOUS
  <2>13. Found \in [1..1 -> {found}]
    <3>1. IsFiniteSet({f}) /\ Cardinality({f}) = 1
      BY FS_Singleton
    <3>2. PICK listed : listed = Scoring!SetToSeq(findings)
      OBVIOUS
    <3>3. listed \in [1..Cardinality({f}) -> {f}]
      <4>1. listed = Scoring!SetToSeq({f})
        BY <2>11, <3>2
      <4> QED BY <3>1, <4>1, SetListed, Zenon
    <3>4. DOMAIN listed = 1..1 /\ \A m \in 1..1 : listed[m] = f
      BY <3>1, <3>3
    <3>5. Found = [m \in DOMAIN listed |->
                     [kind |-> listed[m].kind, start |-> observations[listed[m].from].ts,
                      ts |-> observations[listed[m].at].ts]]
      BY <3>2 DEF Found
    <3>6. ASSUME NEW m \in 1..1
          PROVE  [kind |-> listed[m].kind, start |-> observations[listed[m].from].ts,
                  ts |-> observations[listed[m].at].ts] = found
      BY <2>11, <2>12, <3>4
    <3> QED BY <3>4, <3>5, <3>6
  <2>14. PICK anomaly : anomaly = [kind |-> "off_cycle_burst", t |-> observations[i].ts]
    OBVIOUS
  <2>15. Scoring!MatchesAnomaly(found, anomaly, 0)
    BY <1>1, <2>10, <2>12, <2>14, IntervalMatches
  <2>16. Scoring!Perfect(Scoring!ScoreOne(<<anomaly>>, Found, 0))
    <3>1. found \in {found}
      OBVIOUS
    <3> QED BY <2>13, <2>15, <3>1, OneForOne, Zenon
  <2> QED BY <2>14, <2>16
<1>2. TypeOK /\ InOrder /\ InjectionSplits => InjectedSessionIsFound
  BY <1>1, Zenon DEF InjectedSessionIsFound
<1>3. Spec => []InjectionSplits
  <2>1. EarlyPercent <= 50
    OBVIOUS
  <2> QED BY <2>1, InjectionFound
<1> QED BY <1>2, <1>3, TypeCorrect, SessionsInOrder, PTL

----------------------------------------------------------------------------
(* The scorer, of any findings and any manifest *)

\* What holds of 0, and of the next number with each, holds of all.
LEMMA UpFromZero ==
  ASSUME NEW T, T \subseteq Nat, 0 \in T, \A n \in T : n + 1 \in T
  PROVE  T = Nat
<1> SUFFICES ASSUME Nat \ T # {} PROVE FALSE
  OBVIOUS
<1>1. PICK n \in Nat \ T : \A m \in Nat \ T : n <= m
  <2>1. PICK U : U = Nat \ T
    OBVIOUS
  <2>2. \E n \in U : \A m \in U : n <= m
    BY <2>1, LeastOfNat
  <2> QED BY <2>1, <2>2
<1>2. n # 0 /\ n - 1 \in Nat
  OBVIOUS
<1>3. n - 1 \in T
  BY <1>1, <1>2
<1> QED BY <1>3

\* What holds of the empty set, and of a set when it holds without some element
\* of it, holds of all subsets.
LEMMA UpFromEmpty ==
  ASSUME NEW S, IsFiniteSet(S), NEW G, {} \in G,
         \A s \in SUBSET S : s # {} => \E x \in s : (s \ {x} \in G => s \in G)
  PROVE  \A s \in SUBSET S : s \in G
<1>0. \A s : s \notin G => s # {}
  OBVIOUS
<1> SUFFICES ASSUME NEW r \in SUBSET S, r \notin G PROVE FALSE
  OBVIOUS
<1>1. \A s \in SUBSET S : IsFiniteSet(s) /\ Cardinality(s) \in Nat
  BY FS_Subset, FS_CardinalityType
<1>2. PICK C : C = {Cardinality(s) : s \in (SUBSET S) \ G}
  OBVIOUS
<1>3. C \subseteq Nat /\ C # {}
  BY <1>1, <1>2
<1>4. PICK c \in C : \A d \in C : c <= d
  BY <1>3, LeastOfNat
<1>5. PICK s \in (SUBSET S) \ G : c = Cardinality(s)
  BY <1>2, <1>4
<1>6. PICK x \in s : s \ {x} \in G => s \in G
  <2>0. s \in SUBSET S /\ s \notin G
    BY <1>5
  <2>1. s \in SUBSET S /\ s # {}
    BY <1>0, <2>0, Zenon
  <2> QED BY <2>1, Zenon
<1>7. s \ {x} \notin G /\ s \ {x} \in SUBSET S
  BY <1>5, <1>6
<1>8. c <= Cardinality(s \ {x})
  BY <1>2, <1>4, <1>7
<1>9. Cardinality(s \ {x}) = Cardinality(s) - 1
  BY <1>1, <1>5, FS_RemoveElement
<1> QED BY <1>1, <1>5, <1>8, <1>9

\* A fold is defined, and stays within a set its steps do not leave.
Folds(S, base, st, pick, g) ==
  \A s \in SUBSET S : g[s] = IF s = {} THEN base ELSE st[<<g[s \ {pick[s]}], pick[s]>>]

LEMMA FoldExists ==
  ASSUME NEW S, IsFiniteSet(S), NEW V, NEW base \in V, NEW st \in [V \X S -> V],
         NEW pick, \A s \in SUBSET S : s # {} => pick[s] \in s
  PROVE  \E g \in [SUBSET S -> V] : Folds(S, base, st, pick, g)
<1> DEFINE eqn(g, s) == g[s] = IF s = {} THEN base ELSE st[<<g[s \ {pick[s]}], pick[s]>>]
           upto(g, k) == \A s \in SUBSET S : Cardinality(s) <= k => eqn(g, s)
<1>0. \A s \in SUBSET S : IsFiniteSet(s) /\ Cardinality(s) \in Nat
  BY FS_Subset, FS_CardinalityType
<1>1. PICK T : T = {k \in Nat : \E g \in [SUBSET S -> V] : upto(g, k)}
  OBVIOUS
<1>2. 0 \in T
  <2>1. PICK g : g = [s \in SUBSET S |-> base]
    OBVIOUS
  <2>2. g \in [SUBSET S -> V]
    BY <2>1
  <2>3. ASSUME NEW s \in SUBSET S, Cardinality(s) <= 0 PROVE eqn(g, s)
    <3>1. s = {}
      BY <1>0, <2>3, FS_EmptySet
    <3> QED BY <2>1, <3>1
  <2> HIDE DEF eqn
  <2> QED BY <1>1, <2>2, <2>3
<1>3. ASSUME NEW k \in T PROVE k + 1 \in T
  <2>0. k \in Nat
    BY <1>1
  <2>1. PICK g \in [SUBSET S -> V] : upto(g, k)
    BY <1>1
  <2>2. PICK h : h = [s \in SUBSET S |-> IF s = {} THEN base ELSE st[<<g[s \ {pick[s]}], pick[s]>>]]
    OBVIOUS
  <2>3. h \in [SUBSET S -> V]
    <3>1. ASSUME NEW s \in SUBSET S, s # {}
          PROVE  st[<<g[s \ {pick[s]}], pick[s]>>] \in V
      <4>1. pick[s] \in S /\ s \ {pick[s]} \in SUBSET S
        BY <3>1
      <4>2. g[s \ {pick[s]}] \in V
        BY <4>1
      <4>3. <<g[s \ {pick[s]}], pick[s]>> \in V \X S
        BY <4>1, <4>2
      <4> QED BY <4>3
    <3> QED BY <2>2, <3>1
  <2>4. ASSUME NEW s \in SUBSET S, Cardinality(s) <= k + 1 PROVE eqn(h, s)
    <3>1. CASE s = {}
      BY <2>2, <3>1
    <3>2. CASE s # {}
      <4>1. PICK t : t = s \ {pick[s]}
        OBVIOUS
      <4>2. t \in SUBSET S /\ pick[s] \in s
        BY <3>2, <4>1
      <4>3. Cardinality(t) = Cardinality(s) - 1
        BY <1>0, <4>1, <4>2, FS_RemoveElement
      <4>4. PICK c, d : c = Cardinality(s) /\ d = Cardinality(t)
        OBVIOUS
      <4>5. c \in Nat /\ c <= k + 1 /\ d = c - 1
        BY <1>0, <2>4, <4>3, <4>4
      <4>6. Cardinality(t) <= k
        BY <2>0, <4>4, <4>5
      <4>7. eqn(g, t)
        BY <2>1, <4>2, <4>6
      <4>8. h[t] = g[t]
        BY <2>2, <4>2, <4>7
      <4> QED BY <2>2, <3>2, <4>1, <4>8
    <3> QED BY <3>1, <3>2
  <2> HIDE DEF eqn
  <2> QED BY <1>1, <2>0, <2>3, <2>4
<1>4. T = Nat
  <2> HIDE DEF upto
  <2>1. T \subseteq Nat
    BY <1>1
  <2> QED BY <1>2, <1>3, <2>1, UpFromZero
<1>5. PICK n \in Nat : n = Cardinality(S)
  BY FS_CardinalityType
<1>6. PICK g \in [SUBSET S -> V] : upto(g, n)
  BY <1>1, <1>4
<1>7. ASSUME NEW s \in SUBSET S PROVE eqn(g, s)
  <2>1. Cardinality(s) <= n
    BY <1>5, FS_Subset
  <2> QED BY <1>6, <2>1
<1> QED BY <1>7 DEF Folds

\* Some findings, some anomalies missed, and the number of those hit.
Tally(F, A) == [unclaimed : Seq(F), hits : Nat, missed : Seq(A)]

\* After k anomalies, of m findings: each anomaly is hit or missed, each finding is
\* claimed once or unclaimed, and nothing that is left could have been a hit.
Sound(score, k, m, window) ==
  /\ score.hits + Len(score.missed) = k
  /\ score.hits + Len(score.unclaimed) = m
  /\ \A a \in DOMAIN score.missed, f \in DOMAIN score.unclaimed :
       ~Scoring!MatchesAnomaly(score.unclaimed[f], score.missed[a], window)

LEMMA RemovedOne ==
  ASSUME NEW F, NEW s \in Seq(F), NEW i \in DOMAIN s
  PROVE  /\ Scoring!RemoveAt(s, i) \in Seq(F)
         /\ Len(Scoring!RemoveAt(s, i)) = Len(s) - 1
         /\ \A j \in DOMAIN Scoring!RemoveAt(s, i) :
              \E k \in DOMAIN s : Scoring!RemoveAt(s, i)[j] = s[k]
<1>1. PICK n \in Nat : n = Len(s) /\ DOMAIN s = 1..n
  OBVIOUS
<1>2. i \in 1..n
  BY <1>1
<1>3. PICK l, r : l = SubSeq(s, 1, i - 1) /\ r = SubSeq(s, i + 1, n)
  OBVIOUS
<1>4. /\ l \in Seq(F) /\ Len(l) = i - 1
      /\ \A j \in 1..(i - 1) : l[j] = s[j]
  BY <1>1, <1>2, <1>3
<1>5. /\ r \in Seq(F) /\ Len(r) = n - i
      /\ \A j \in 1..(n - i) : r[j] = s[i + j]
  BY <1>1, <1>2, <1>3
<1>6. PICK t : t = l \o r
  OBVIOUS
<1>7. /\ t \in Seq(F) /\ Len(t) = n - 1
      /\ \A j \in 1..(n - 1) : t[j] = IF j <= i - 1 THEN l[j] ELSE r[j - (i - 1)]
  <2>1. PICK a, b : a = Len(l) /\ b = Len(r)
    OBVIOUS
  <2>2. /\ t \in Seq(F) /\ Len(t) = a + b
        /\ \A j \in 1..(a + b) : t[j] = IF j <= a THEN l[j] ELSE r[j - a]
    <3>1. l \in Seq(F) /\ r \in Seq(F)
      BY <1>4, <1>5
    <3> QED BY <1>6, <2>1, <3>1
  <2>3. a = i - 1 /\ b = n - i /\ a + b = n - 1
    <3>1. a = i - 1
      BY <1>4, <2>1
    <3>2. b = n - i
      BY <1>5, <2>1
    <3> QED BY <1>1, <1>2, <3>1, <3>2
  <2> QED BY <2>2, <2>3
<1>8. ASSUME NEW j \in 1..(n - 1) PROVE \E k \in 1..n : t[j] = s[k]
  <2>1. CASE j <= i - 1
    <3>1. j \in 1..(i - 1) /\ j \in 1..n
      BY <1>1, <1>2, <2>1
    <3>2. t[j] = s[j]
      BY <1>4, <1>7, <2>1, <3>1
    <3> QED BY <3>1, <3>2
  <2>2. CASE j > i - 1
    <3>1. j - (i - 1) \in 1..(n - i) /\ i + (j - (i - 1)) = j + 1
      BY <1>2, <2>2
    <3>2. t[j] = s[j + 1]
      BY <1>5, <1>7, <2>2, <3>1
    <3> QED BY <3>2
  <2> QED BY <1>2, <2>1, <2>2
<1>9. Scoring!RemoveAt(s, i) = t
  BY <1>1, <1>3, <1>6 DEF Scoring!RemoveAt
<1>10. DOMAIN t = 1..(n - 1)
  BY <1>7
<1> QED BY <1>1, <1>7, <1>8, <1>9, <1>10

\* One turn of the loop keeps the books.
LEMMA ClaimKeeps ==
  ASSUME NEW F, NEW A, NEW score \in Tally(F, A), NEW anomaly \in A, NEW window,
         NEW k \in Nat, NEW m \in Nat, Sound(score, k, m, window)
  PROVE  /\ Scoring!Claim(score, anomaly, window) \in Tally(F, A)
         /\ Sound(Scoring!Claim(score, anomaly, window), k + 1, m, window)
<1>1. PICK u, h, d : u = score.unclaimed /\ h = score.hits /\ d = score.missed
  OBVIOUS
<1>2. /\ u \in Seq(F) /\ h \in Nat /\ d \in Seq(A)
      /\ score = [unclaimed |-> u, hits |-> h, missed |-> d]
  BY <1>1 DEF Tally
<1>3. /\ h + Len(d) = k /\ h + Len(u) = m
      /\ \A a \in DOMAIN d, f \in DOMAIN u : ~Scoring!MatchesAnomaly(u[f], d[a], window)
  BY <1>1 DEF Sound
<1>4. PICK fits : fits = {n \in DOMAIN u : Scoring!MatchesAnomaly(u[n], anomaly, window)}
  OBVIOUS
<1>5. PICK c : c = Scoring!Claim(score, anomaly, window)
  OBVIOUS
<1>6. c = IF fits = {} THEN [score EXCEPT !.missed = Append(@, anomaly)]
          ELSE [score EXCEPT !.hits = @ + 1,
                  !.unclaimed = Scoring!RemoveAt(@, CHOOSE n \in fits : \A j \in fits : n <= j)]
  BY <1>1, <1>4, <1>5 DEF Scoring!Claim
<1>7. CASE fits = {}
  <2>1. PICK e : e = Append(d, anomaly)
    OBVIOUS
  <2>2. c = [unclaimed |-> u, hits |-> h, missed |-> e]
    BY <1>2, <1>6, <1>7, <2>1
  <2>3. PICK n \in Nat : n = Len(d)
    BY <1>2
  <2>4. e \in Seq(A) /\ Len(e) = n + 1 /\ \A a \in 1..(n + 1) : (a \in 1..n /\ e[a] = d[a]) \/ e[a] = anomaly
    BY <1>2, <2>1, <2>3
  <2>5. DOMAIN e = 1..(n + 1) /\ DOMAIN d = 1..n
    BY <1>2, <2>3, <2>4
  <2>6. ASSUME NEW a \in DOMAIN e, NEW f \in DOMAIN u
        PROVE  ~Scoring!MatchesAnomaly(u[f], e[a], window)
    <3>1. CASE a \in 1..n /\ e[a] = d[a]
      BY <1>3, <2>5, <3>1, Zenon
    <3>2. CASE e[a] = anomaly
      <4>1. f \notin fits
        BY <1>7
      <4>2. ~Scoring!MatchesAnomaly(u[f], anomaly, window)
        BY <1>4, <4>1, Zenon
      <4> QED BY <3>2, <4>2, Zenon
    <3> QED BY <2>4, <2>5, <3>1, <3>2
  <2>7. c \in Tally(F, A)
    BY <1>2, <2>2, <2>4 DEF Tally
  <2>8. c.unclaimed = u /\ c.hits = h /\ c.missed = e
    BY <2>2
  <2>9. h + Len(e) = k + 1 /\ h + Len(u) = m
    <3>1. h + n = k /\ h + Len(u) = m /\ Len(e) = n + 1 /\ h \in Nat
      BY <1>2, <1>3, <2>3, <2>4
    <3> QED BY <3>1
  <2>10. Sound(c, k + 1, m, window)
    BY <2>6, <2>8, <2>9, Zenon DEF Sound
  <2> QED BY <1>5, <2>7, <2>10
<1>8. CASE fits # {}
  <2>1. PICK i \in fits : i = CHOOSE n \in fits : \A j \in fits : n <= j
    <3>1. fits \subseteq Nat
      BY <1>2, <1>4
    <3>2. \E n \in fits : \A j \in fits : n <= j
      BY <1>8, <3>1, LeastOfNat
    <3> QED BY <3>2
  <2>2. i \in DOMAIN u
    BY <1>4
  <2>3. PICK v : v = Scoring!RemoveAt(u, i)
    OBVIOUS
  <2>4. c = [unclaimed |-> v, hits |-> h + 1, missed |-> d]
    BY <1>2, <1>6, <1>8, <2>1, <2>3
  <2>5. v \in Seq(F) /\ Len(v) = Len(u) - 1 /\ \A j \in DOMAIN v : \E n \in DOMAIN u : v[j] = u[n]
    BY <1>2, <2>2, <2>3, RemovedOne
  <2>6. ASSUME NEW a \in DOMAIN d, NEW f \in DOMAIN v
        PROVE  ~Scoring!MatchesAnomaly(v[f], d[a], window)
    <3>1. PICK n \in DOMAIN u : v[f] = u[n]
      BY <2>5
    <3> QED BY <1>3, <3>1, Zenon
  <2>7. c \in Tally(F, A)
    BY <1>2, <2>4, <2>5 DEF Tally
  <2>8. c.unclaimed = v /\ c.hits = h + 1 /\ c.missed = d
    BY <2>4
  <2>9. (h + 1) + Len(d) = k + 1 /\ (h + 1) + Len(v) = m
    <3>1. PICK x, y, z : x = Len(d) /\ y = Len(u) /\ z = Len(v)
      OBVIOUS
    <3>2. x \in Nat /\ y \in Nat
      BY <1>2, <3>1
    <3>3. h + x = k /\ h + y = m /\ z = y - 1
      BY <1>3, <2>5, <3>1
    <3>4. (h + 1) + x = k + 1 /\ (h + 1) + z = m
      BY <1>2, <3>2, <3>3
    <3> QED BY <3>1, <3>4
  <2>10. Sound(c, k + 1, m, window)
    BY <2>6, <2>8, <2>9, Zenon DEF Sound
  <2> QED BY <1>5, <2>7, <2>10
<1> QED BY <1>7, <1>8

\* Whatever was injected and whatever was found, hits, misses and false positives
\* add up to both lists, no finding is credited twice, and a miss and a false
\* positive that are left never belong together (sim/score.py:63-81).  The matching
\* is greedy, so it may have fewer hits than another would; it is not one that could
\* be extended.
THEOREM ScoreAddsUp ==
  ASSUME NEW A, NEW F, NEW anomalies \in Seq(A), NEW listed \in Seq(F), NEW window
  PROVE  Sound(Scoring!ScoreOne(anomalies, listed, window), Len(anomalies), Len(listed), window)
<1>1. PICK n \in Nat : n = Len(anomalies) /\ DOMAIN anomalies = 1..n
  OBVIOUS
<1>2. PICK S : S = 1..n
  OBVIOUS
<1>3. PICK base : base = [unclaimed |-> listed, hits |-> 0, missed |-> <<>>]
  OBVIOUS
<1> DEFINE next(g) == [s \in SUBSET S |->
                         IF s = {} THEN base
                         ELSE Scoring!Claim(g[s \ {Scoring!Max(s)}], anomalies[Scoring!Max(s)], window)]
<1>4. Scoring!ScoreOne(anomalies, listed, window) = (CHOOSE g : g = next(g))[S]
  BY <1>1, <1>2, <1>3, Zenon DEF Scoring!ScoreOne, Scoring!FoldLeft, Scoring!MapThenFoldSet
<1>5. IsFiniteSet(S) /\ Cardinality(S) = n
  <2>1. 1 \in Int /\ n \in Int
    OBVIOUS
  <2> QED BY <1>2, <2>1, FS_Interval
<1>6. \A s \in SUBSET S : s # {} => Scoring!Max(s) \in s
  <2>1. ASSUME NEW s \in SUBSET S, s # {} PROVE Scoring!Max(s) \in s
    <3>1. s \subseteq Int /\ \A y \in s : y <= n
      BY <1>2
    <3>2. \E x \in s : \A y \in s : y <= x
      <4>1. n \in Int
        OBVIOUS
      <4> QED BY <2>1, <3>1, <4>1, GreatestOfInt, Zenon
    <3>3. \E x \in s : \A y \in s : x >= y
      BY <3>1, <3>2
    <3> QED BY <3>3 DEF Scoring!Max
  <2> QED BY <2>1
<1>7. \A s \in SUBSET S : IsFiniteSet(s) /\ Cardinality(s) \in Nat
  BY <1>5, FS_Subset, FS_CardinalityType
<1>8. PICK m \in Nat : m = Len(listed)
  OBVIOUS
<1>9. PICK V : V = {score \in Tally(F, A) : \E k \in Nat : Sound(score, k, m, window)}
  OBVIOUS
<1>10. base \in V /\ Sound(base, 0, m, window)
  <2>1. base \in Tally(F, A)
    BY <1>3 DEF Tally
  <2>2. Sound(base, 0, m, window)
    BY <1>3, <1>8 DEF Sound
  <2> QED BY <1>9, <2>1, <2>2
<1>11. \E g : g = next(g)
  <2>1. PICK st : st = [p \in V \X S |-> Scoring!Claim(p[1], anomalies[p[2]], window)]
    OBVIOUS
  <2>2. st \in [V \X S -> V]
    <3>1. ASSUME NEW score \in V, NEW i \in S
          PROVE  Scoring!Claim(score, anomalies[i], window) \in V
      <4>1. anomalies[i] \in A
        BY <1>1, <1>2
      <4>2. PICK k \in Nat : Sound(score, k, m, window)
        BY <1>9
      <4>3. PICK c : c = Scoring!Claim(score, anomalies[i], window)
        OBVIOUS
      <4>4. c \in Tally(F, A) /\ Sound(c, k + 1, m, window)
        BY <1>9, <4>1, <4>2, <4>3, ClaimKeeps
      <4>5. k + 1 \in Nat
        OBVIOUS
      <4> QED BY <1>9, <4>3, <4>4, <4>5, Zenon
    <3> QED BY <2>1, <3>1
  <2>3. PICK pick : pick = [s \in SUBSET S |-> Scoring!Max(s)]
    OBVIOUS
  <2>4. \A s \in SUBSET S : s # {} => pick[s] \in s
    BY <1>6, <2>3
  <2>5. PICK g \in [SUBSET S -> V] : Folds(S, base, st, pick, g)
    BY <1>5, <1>10, <2>2, <2>4, FoldExists
  <2>6. ASSUME NEW s \in SUBSET S
        PROVE  g[s] = IF s = {} THEN base
                      ELSE Scoring!Claim(g[s \ {Scoring!Max(s)}], anomalies[Scoring!Max(s)], window)
    <3>1. CASE s = {}
      BY <2>5, <3>1 DEF Folds
    <3>2. CASE s # {}
      <4>1. pick[s] \in s /\ pick[s] = Scoring!Max(s)
        BY <2>3, <2>4, <3>2
      <4>2. <<g[s \ {pick[s]}], pick[s]>> \in V \X S
        BY <4>1
      <4>3. g[s] = st[<<g[s \ {pick[s]}], pick[s]>>]
        BY <2>5, <3>2 DEF Folds
      <4>4. g[s] = Scoring!Claim(g[s \ {pick[s]}], anomalies[pick[s]], window)
        BY <2>1, <4>2, <4>3
      <4> QED BY <3>2, <4>1, <4>4
    <3> QED BY <3>1, <3>2
  <2>7. g = next(g)
    BY <2>6
  <2> HIDE DEF next
  <2> QED BY <2>7
<1>12. PICK h : h = (CHOOSE g : g = next(g))
  OBVIOUS
<1>13. h = next(h)
  <2> HIDE DEF next
  <2> QED BY <1>11, <1>12
<1>14. PICK G : G = {s \in SUBSET S : h[s] \in V /\ Sound(h[s], Cardinality(s), m, window)}
  OBVIOUS
<1>15. {} \in G
  <2>1. h[{}] = base
    BY <1>13
  <2>2. Cardinality({}) = 0
    BY FS_EmptySet
  <2> QED BY <1>10, <1>14, <2>1, <2>2
<1>16. ASSUME NEW s \in SUBSET S, s # {} PROVE \E x \in s : (s \ {x} \in G => s \in G)
  <2>1. PICK x \in s : x = Scoring!Max(s)
    BY <1>6, <1>16
  <2>2. h[s] = Scoring!Claim(h[s \ {x}], anomalies[x], window)
    BY <1>13, <1>16, <2>1
  <2>3. ASSUME s \ {x} \in G PROVE s \in G
    <3>1. PICK old, k : old = h[s \ {x}] /\ k = Cardinality(s \ {x})
      OBVIOUS
    <3>2. old \in V /\ Sound(old, k, m, window)
      BY <1>14, <2>3, <3>1
    <3>3. k \in Nat /\ Cardinality(s) = k + 1
      <4>1. k = Cardinality(s) - 1 /\ Cardinality(s) \in Nat /\ k \in Nat
        BY <1>7, <3>1, FS_RemoveElement
      <4> QED BY <4>1
    <3>4. anomalies[x] \in A
      BY <1>1, <1>2
    <3>5. PICK new : new = Scoring!Claim(old, anomalies[x], window)
      OBVIOUS
    <3>6. new \in Tally(F, A) /\ Sound(new, k + 1, m, window)
      BY <1>9, <3>2, <3>3, <3>4, <3>5, ClaimKeeps
    <3>7. h[s] = new
      BY <2>2, <3>1, <3>5
    <3>8. new \in V
      BY <1>9, <3>3, <3>6
    <3> QED BY <1>14, <3>3, <3>6, <3>7, <3>8
  <2> QED BY <2>3
<1>17. S \in G
  <2>1. S \in SUBSET S
    OBVIOUS
  <2> QED BY <1>5, <1>15, <1>16, <2>1, UpFromEmpty, Zenon
<1>18. PICK all : all = Scoring!ScoreOne(anomalies, listed, window)
  OBVIOUS
<1>19. all = h[S]
  <2> HIDE DEF next
  <2> QED BY <1>4, <1>12, <1>18
<1>20. Sound(all, n, m, window)
  BY <1>5, <1>14, <1>17, <1>19
<1> QED BY <1>1, <1>8, <1>18, <1>20

=============================================================================
