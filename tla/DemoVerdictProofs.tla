------------------------- MODULE DemoVerdictProofs -------------------------
(***************************************************************************)
(* Proofs about the verdicts of the program that drives the demo: a step   *)
(* passes only over what happened in it, and one that should alert fails   *)
(* only over an alert that is held back, a radio that was learned as       *)
(* authorised, or a call that no capture could see.                        *)
(***************************************************************************)
EXTENDS DemoRunProofs

----------------------------------------------------------------------------
(* The alerts since they were counted *)

\* The lines where the alerts are counted.
CountPlace(k) == k \in {5, 9, 14} \/ IF mode.replay THEN k \in {21, 25} ELSE k \in {23, 27}

\* The lines from a count to the verdict over it.
CountedPlace(k) ==
  \/ k \in 6 .. 7 \/ k \in 10 .. 12 \/ k \in 15 .. 17
  \/ IF mode.replay THEN k \in 22 .. 23 \/ k \in 26 .. 30 ELSE k \in 24 .. 25 \/ k \in 28 .. 30

\* What is known of the alerts since they were counted.
CountOK ==
  /\ ~since.stored => runner.before < 0 \/ dash.alerts <= runner.before
  /\ ~since.troubled =>
       /\ dash.up
       /\ runner.before \in 0 .. dash.alerts
       /\ since.stored /\ runner.before < Retained => runner.before < dash.alerts

\* It is known on the lines from a count to the verdict.
CountInv == mode.scripted /\ Running /\ CountedPlace(Place) => CountOK

\* Only "count" is on the lines where the alerts are counted.
LEMMA NotCounting ==
  ASSUME NEW k \in -3 .. 32, NEW op, OpAt(op, k),
         op \in {"try", "preflight", "ask", "baseline", "start_rf", "sleep", "dwell", "judge",
                 "switch", "traffic", "start_tls", "call", "stop", "done"}
  PROVE  ~CountPlace(k)
<1>1. CASE op = "try"
  BY <1>1 DEF OpAt, CountPlace
<1>2. CASE op = "preflight"
  BY <1>2 DEF OpAt, CountPlace
<1>3. CASE op = "ask"
  BY <1>3 DEF OpAt, CountPlace
<1>4. CASE op = "baseline"
  BY <1>4 DEF OpAt, CountPlace
<1>5. CASE op = "start_rf"
  BY <1>5 DEF OpAt, CountPlace
<1>6. CASE op = "sleep"
  BY <1>6 DEF OpAt, CountPlace
<1>7. CASE op = "dwell"
  BY <1>7 DEF OpAt, CountPlace
<1>8. CASE op = "judge"
  BY <1>8 DEF OpAt, CountPlace
<1>9. CASE op = "switch"
  BY <1>9 DEF OpAt, CountPlace
<1>10. CASE op = "traffic"
  BY <1>10 DEF OpAt, CountPlace
<1>11. CASE op = "start_tls"
  BY <1>11 DEF OpAt, CountPlace
<1>12. CASE op = "call"
  BY <1>12 DEF OpAt, CountPlace
<1>13. CASE op = "stop"
  BY <1>13 DEF OpAt, CountPlace
<1>14. CASE op = "done"
  BY <1>14 DEF OpAt, CountPlace
<1> QED
  BY <1>1, <1>2, <1>3, <1>4, <1>5, <1>6, <1>7, <1>8, <1>9, <1>10, <1>11, <1>12, <1>13, <1>14

\* A step that neither counts nor judges nor touches the alerts.
Still ==
  /\ since'.stored = since.stored /\ since'.troubled = since.troubled
  /\ dash' = dash /\ mode' = mode
  /\ Running' =>
       /\ Running /\ runner'.before = runner.before
       /\ \/ runner'.pc = runner.pc
          \/ runner'.pc = runner.pc + 1 /\ (mode.scripted => ~CountPlace(Place))

\* Going on by one line that does not count.
LEMMA StillMove ==
  ASSUME DemoTypes, Running, NEW op, Instruction.op = op, op = "ask" => mode.scripted,
         op \in {"try", "preflight", "ask", "baseline", "start_rf", "sleep", "dwell",
                 "switch", "traffic", "start_tls", "call", "stop"},
         since'.stored = since.stored, since'.troubled = since.troubled,
         dash' = dash, mode' = mode, NEW wait \in Nat,
         \/ runner' = Onwards(wait)
         \/ \E held : runner' = [Onwards(wait) EXCEPT !.held = held]
  PROVE  Still
<1>1. /\ Onwards(wait) \in RunnerType(Len(procs)) /\ Onwards(wait).pc = runner.pc + 1
      /\ Onwards(wait).before = runner.before
  BY Advance
<1>2. runner'.pc = runner.pc + 1 /\ runner'.before = runner.before
  BY <1>1 DEF RunnerType
<1>3. ASSUME mode.scripted
      PROVE  ~CountPlace(Place)
  <2>1. OpAt(op, Place) /\ Place \in -3 .. 32
    BY <1>3, Where DEF DemoTypes
  <2> QED BY <2>1, NotCounting
<1> QED BY <1>2, <1>3 DEF Still

\* The end of the program.
LEMMA ExitStill ==
  ASSUME NEW outcome \in {"done", "failed", "interrupted", "crashed"}, Exit(outcome), DemoTypes,
         since'.stored = since.stored, since'.troubled = since.troubled,
         dash' = dash, mode' = mode
  PROVE  Still
<1>1. ~Running'
  BY ExitTypes DEF Running
<1> QED BY <1>1 DEF Still

\* The steps, by what they do to the alerts and to what is known of them.
LEMMA CountSteps ==
  ASSUME DemoTypes, [Next]_vars
  PROVE  \/ Still \/ Count \/ Judge \/ Dashboard \/ Crash \/ StartDashboard
         \/ \E lost \in BOOLEAN : RfSweep(lost)
         \/ \E captured, lost \in BOOLEAN : TlsWindow(captured, lost)
<1> USE TypesParts
<1>1. CASE Execute
  <2>1. CASE EnterTry \/ Return \/ Baseline \/ StartTraffic
    <3>1. /\ Running /\ Instruction.op \in {"try", "ask", "baseline", "traffic"}
          /\ Instruction.op = "ask" => mode.scripted
          /\ since' = since /\ dash' = dash /\ mode' = mode
          /\ \E wait \in {0, BaselineTime} : runner' = Onwards(wait)
      BY <2>1 DEF EnterTry, Return, Baseline, StartTraffic, At, aside, monitorVars, Takes
    <3>2. \E wait \in Nat : runner' = Onwards(wait)
      BY <3>1, TypesOfConstants
    <3> QED BY <3>1, <3>2, StillMove
  <2>2. CASE Sleep
    <3>1. Running /\ mode.scripted /\ Instruction.op \in {"sleep", "dwell"}
      BY <2>2, ByHandOps DEF Sleep, At
    <3>2. Instruction.arg \in Nat
      BY <3>1, ArgTypes DEF ArgAt
    <3> QED BY <2>2, <3>1, <3>2, StillMove DEF Sleep, aside
  <2>3. CASE StartRf
    <3>1. /\ Running /\ Instruction.op = "start_rf" /\ since' = since /\ dash' = dash
          /\ mode' = mode /\ runner' = [Onwards(0) EXCEPT !.held = Len(procs) + 1]
      BY <2>3, Zenon DEF StartRf, At, aside
    <3> QED BY <3>1, StillMove
  <2>4. CASE StartTls
    <3>1. /\ Running /\ Instruction.op = "start_tls" /\ since' = since /\ dash' = dash
          /\ mode' = mode /\ runner' = [Onwards(0) EXCEPT !.held = Len(procs) + 1]
      BY <2>4, Zenon DEF StartTls, At, aside
    <3> QED BY <3>1, StillMove
  <2>5. CASE SwitchTo
    <3>1. /\ Running /\ Instruction.op = "switch" /\ since' = since /\ dash' = dash
          /\ mode' = mode
          /\ \/ runner' = [Onwards(Settle) EXCEPT !.held = Len(procs) + 1]
             \/ runner' = Onwards(0)
      BY <2>5 DEF SwitchTo, At, aside
    <3>2. Settle \in Nat
      BY TypesOfConstants
    <3> QED BY <3>1, <3>2, StillMove
  <2>6. CASE Preflight
    <3>1. /\ Running /\ Instruction.op = "preflight" /\ since' = since /\ dash' = dash
          /\ mode' = mode /\ (runner' = Onwards(0) \/ Exit("failed"))
      BY <2>6 DEF Preflight, At, aside
    <3> QED BY <3>1, StillMove, ExitStill
  <2>7. CASE Call
    <3>1. /\ Running /\ Instruction.op = "call" /\ dash' = dash
          /\ mode' = mode /\ (runner' = Onwards(0) \/ Exit("crashed"))
          /\ since' = since \/ since' = [since EXCEPT !.between = ~Capturing]
      BY <2>7 DEF Call, At
    <3>2. since'.stored = since.stored /\ since'.troubled = since.troubled
      BY <3>1 DEF SinceType
    <3> QED BY <3>1, <3>2, StillMove, ExitStill
  <2>8. CASE StopMonitor
    <3>1. /\ Running /\ Instruction.op = "stop" /\ since' = since /\ dash' = dash
          /\ mode' = mode
          /\ runner' = [Onwards(0) EXCEPT !.held = 0] \/ Exit("crashed")
      BY <2>8 DEF StopMonitor, At, aside
    <3> QED BY <3>1, StillMove, ExitStill
  <2>9. CASE Done
    BY <2>9, ExitStill DEF Done, aside
  <2> QED BY <1>1, <2>1, <2>2, <2>3, <2>4, <2>5, <2>6, <2>7, <2>8, <2>9 DEF Execute
<1>2. CASE Operate \/ Unscripted \/ UNCHANGED vars
  BY <1>2 DEF Operate, Unscripted, vars, monitorVars, Still, Running
<1>3. CASE Interrupt
  BY <1>3, ExitStill DEF Interrupt, aside
<1>4. CASE Tick
  <2>1. /\ since' = since /\ dash' = dash /\ mode' = mode /\ Running
        /\ runner' = [runner EXCEPT !.wait = IF @ > 0 THEN @ - 1 ELSE 0]
    BY <1>4 DEF Tick, TlsTick
  <2>2. runner'.pc = runner.pc /\ runner'.before = runner.before
    BY <2>1 DEF RunnerType
  <2> QED BY <2>1, <2>2 DEF Still
<1>5. CASE Faulty
  BY <1>5 DEF Faulty
<1> QED BY <1>1, <1>2, <1>3, <1>4, <1>5 DEF Next

\* A step that touches neither keeps the invariant.
LEMMA StillCount ==
  ASSUME DemoTypes, CountInv, Still
  PROVE  CountInv'
<1>1. CASE mode.scripted /\ Running' /\ CountedPlace(Place)'
  <2>1. mode' = mode /\ Running /\ runner'.before = runner.before /\ dash' = dash
        /\ since'.stored = since.stored /\ since'.troubled = since.troubled
    BY <1>1 DEF Still
  <2>2. CountedPlace(Place') /\ Place \in Int
    BY <1>1, <2>1, Places DEF CountedPlace
  <2>3. Place' = Place \/ (Place' = Place + 1 /\ ~CountPlace(Place))
    BY <1>1, <2>1, PlaceNext DEF Still
  <2>4. CountedPlace(Place)
    <3>1. CASE Place' = Place
      BY <2>2, <3>1
    <3>2. CASE Place' = Place + 1 /\ ~CountPlace(Place)
      BY <2>2, <3>2 DEF CountedPlace, CountPlace
    <3> QED BY <2>3, <3>1, <3>2
  <2> QED BY <1>1, <2>1, <2>4 DEF CountInv, CountOK
<1> QED BY <1>1 DEF CountInv, Still

\* A sweep keeps it.
LEMMA SweepCount ==
  ASSUME DemoTypes, CountInv, NEW lost \in BOOLEAN, RfSweep(lost)
  PROVE  CountInv'
<1> DEFINE view    == IF rf.reads # None THEN rf.reads ELSE air
           sending == {radio \in view \ file : ~IsSuppressed(rf.sentAge[radio], RfSuppress)}
           stored  == sending # {} /\ dash.up /\ ~lost
<1>1. /\ dash' = IF stored THEN Stored(Cardinality(sending)) ELSE dash
      /\ since' = [since EXCEPT !.stored = @ \/ stored, !.troubled = @ \/ lost]
      /\ mode' = mode /\ runner' = runner /\ rf # None
  BY DEF RfSweep
<1>2. /\ since \in SinceType
      /\ dash \in [up : BOOLEAN, alerts : 0 .. Retained]
      /\ Retained \in Nat /\ runner.before \in -1 .. Retained
  BY TypesParts, TypesOfConstants DEF TlsTypeOK, RunnerType
<1>3. since'.stored = (since.stored \/ stored) /\ since'.troubled = (since.troubled \/ lost)
  BY <1>1, <1>2 DEF SinceType
<1>7. Cardinality(sending) \in Nat /\ (sending # {} => Cardinality(sending) > 0)
  <2>1. sending \subseteq Radios
    BY <1>1, TypesParts DEF RfState
  <2> QED BY <2>1, SmallSets
<1>8. PICK n \in Nat : n = Cardinality(sending)
  BY <1>7
<1>4. /\ dash'.up = dash.up
      /\ dash'.alerts = IF stored THEN Least(dash.alerts + n, Retained) ELSE dash.alerts
      /\ stored => n > 0
  BY <1>1, <1>2, <1>7, <1>8 DEF Stored
<1> HIDE DEF stored, sending
<1>5. CountOK => CountOK'
  BY <1>1, <1>2, <1>3, <1>4, <1>8 DEF CountOK, Least, SinceType
<1>6. Place' = Place
  BY <1>1, PlaceNext
<1> QED BY <1>1, <1>5, <1>6 DEF CountInv, CountedPlace, Running

\* A window keeps it.
LEMMA WindowCount ==
  ASSUME DemoTypes, CountInv, NEW captured \in BOOLEAN, NEW lost \in BOOLEAN,
         TlsWindow(captured, lost)
  PROVE  CountInv'
<1>0. PICK late \in 0 .. Gap : WindowDone(captured, lost, late)
  BY DEF TlsWindow
<1> DEFINE seen     == NextWindow(captured)
           again    == [tls EXCEPT !.left = Window + late, !.seen = {}]
           findings == Findings(seen)
           sessions == RecentSessions(tls.history, Sessions(seen), Flagged(findings))
           sending  == {i \in findings : Sent[i]}
           heard    == dash.up /\ ~lost
           stored   == dash.up /\ ~lost /\ tls'.sentAge # tls.sentAge
<1>1. /\ since' = [since EXCEPT !.stored = @ \/ stored, !.troubled = @ \/ lost \/ ~captured]
      /\ mode' = mode /\ runner' = runner /\ WindowDone(captured, lost, late)
  BY <1>0 DEF TlsWindow
<1>2. /\ since \in SinceType
      /\ dash \in [up : BOOLEAN, alerts : 0 .. Retained]
      /\ Retained \in Nat /\ runner.before \in -1 .. Retained
      /\ tls \in TlsState /\ Suppress \in Nat /\ Suppress > 0
  BY <1>1, TypesParts, TypesOfConstants, Monitors DEF TlsTypeOK, RunnerType, WindowDone
<1>3. since'.stored = (since.stored \/ stored) /\ since'.troubled = (since.troubled \/ lost \/ ~captured)
  BY <1>1, <1>2 DEF SinceType
<1>4. \/ dash' = dash /\ ~stored
      \/ stored /\ \E n \in Nat : n > 0 /\ dash' = Stored(n)
      \/ dash' = Stored(0) /\ ~stored
  <2>1. CASE /\ seen = None
             /\ tls' = again
             /\ UNCHANGED <<dash, screen, called>>
    <3>1. tls'.sentAge = tls.sentAge
      BY <1>2, <2>1 DEF TlsState
    <3> QED BY <2>1, <3>1
  <2>2. CASE /\ seen # None
             /\ dash' = IF heard THEN Stored(Cardinality(sending)) ELSE dash
             /\ tls' = [again EXCEPT !.history = sessions,
                           !.sentAge = [i \in Identity |-> IF i \in sending THEN 0 ELSE @[i]]]
    <3>1. tls'.sentAge = [i \in Identity |-> IF i \in sending THEN 0 ELSE tls.sentAge[i]]
      BY <1>2, <2>2 DEF TlsState
    <3>2. sending \subseteq Identity /\ \A i \in sending : tls.sentAge[i] >= Suppress
      <4>1. ASSUME NEW i \in sending
            PROVE  i \in Identity /\ tls.sentAge[i] >= Suppress
        <5>1. i \in Identity /\ Sent[i]
          BY Zenon DEF Findings
        <5>2. ~IsSuppressed(tls.sentAge[i], Suppress)
          BY <5>1, Zenon DEF Sent
        <5>3. tls.sentAge[i] \in 0 .. Suppress
          BY <1>2, <5>1 DEF TlsState
        <5> QED BY <1>2, <5>1, <5>2, <5>3 DEF IsSuppressed
      <4> QED BY <4>1
    <3>3. Cardinality(sending) \in Nat /\ (sending # {} => Cardinality(sending) > 0)
      BY <3>2, SmallSets
    <3> HIDE DEF sending
    <3>4. CASE sending = {}
      <4>1. tls'.sentAge = tls.sentAge
        BY <1>2, <3>1, <3>4 DEF TlsState
      <4>2. Cardinality(sending) = 0
        BY <3>4, FS_EmptySet
      <4> QED BY <2>2, <4>1, <4>2
    <3>5. CASE sending # {}
      <4>1. PICK i \in sending : TRUE
        BY <3>5
      <4>2. tls'.sentAge[i] = 0 /\ tls.sentAge[i] > 0
        BY <1>2, <3>1, <3>2, <4>1 DEF TlsState
      <4>3. tls'.sentAge # tls.sentAge
        BY <4>2
      <4> QED BY <1>2, <2>2, <3>3, <3>5, <4>3
    <3> QED BY <3>4, <3>5
  <2> QED BY <1>1, <2>1, <2>2, Zenon DEF WindowDone
<1> HIDE DEF stored
<1>5. dash'.up = dash.up /\ dash'.alerts \in 0 .. Retained
      /\ (stored => dash'.alerts >= dash.alerts /\ (dash.alerts < Retained => dash'.alerts > dash.alerts))
      /\ (~stored => dash'.alerts = dash.alerts)
  BY <1>2, <1>4 DEF Stored, Least
<1>6. CountOK => CountOK'
  BY <1>1, <1>2, <1>3, <1>5 DEF CountOK, SinceType
<1>7. Place' = Place
  BY <1>1, PlaceNext
<1> QED BY <1>1, <1>6, <1>7 DEF CountInv, CountedPlace, Running

\* Every step keeps it.
LEMMA StepCount ==
  ASSUME DemoTypes, CountInv, [Next]_vars
  PROVE  CountInv'
<1> USE TypesParts
<1>1. CASE Count
  <2>1. /\ runner' = [Onwards(0) EXCEPT !.before = AlertCount]
        /\ since' = [Untroubled EXCEPT !.heldBack = HeldBack, !.troubled = ~dash.up]
        /\ dash' = dash /\ Instruction.op = "count"
    BY <1>1 DEF Count, At, monitorVars
  <2>2. runner'.before = AlertCount
    BY <2>1, Advance DEF RunnerType
  <2>3. ~since'.stored /\ (since'.troubled <=> ~dash.up)
    BY <2>1 DEF Untroubled
  <2>4. dash.alerts \in 0 .. Retained /\ Retained \in Nat
    BY TypesOfConstants DEF TlsTypeOK
  <2>5. runner'.before = IF dash.up THEN dash.alerts ELSE -1
    BY <2>2 DEF AlertCount
  <2>6. CountOK'
    <3>1. CASE dash.up
      BY <2>1, <2>3, <2>4, <2>5, <3>1 DEF CountOK
    <3>2. CASE ~dash.up
      BY <2>1, <2>3, <2>4, <2>5, <3>2 DEF CountOK
    <3> QED BY <3>1, <3>2
  <2> QED BY <2>6 DEF CountInv
<1>2. CASE Judge \/ StartDashboard
  <2>1. /\ Instruction.op \in {"judge", "dashboard"} /\ mode' = mode
        /\ runner' = [Onwards(0) EXCEPT !.before = 0] \/ runner' = Onwards(0)
    BY <1>2 DEF Judge, StartDashboard, At
  <2>2. Place' = Place + 1
    <3>1. /\ Onwards(0) \in RunnerType(Len(procs)) /\ Onwards(0).pc = runner.pc + 1
      BY <2>1, Advance
    <3>2. runner'.pc = runner.pc + 1
      BY <2>1, <3>1 DEF RunnerType
    <3> QED BY <2>1, <3>2, PlaceNext
  <2>3. CASE mode.scripted
    <3>1. OpAt(Instruction.op, Place) /\ Place \in -3 .. 32 /\ Lead \in 1 .. 4
      BY <2>3, Where DEF DemoTypes
    <3>2. ASSUME NEW k \in -3 .. 32, OpAt("judge", k)
          PROVE  ~CountedPlace(k + 1)
      BY <3>2 DEF OpAt, CountedPlace
    <3>3. ASSUME NEW k \in -3 .. 32, OpAt("dashboard", k)
          PROVE  ~CountedPlace(k + 1)
      <4>1. k <= 0
        <5>1. k = 1 - Lead
          BY <3>3, Zenon DEF OpAt
        <5> QED BY <3>1, <5>1
      <4> QED BY <4>1 DEF CountedPlace
    <3>4. ~CountedPlace(Place + 1)
      BY <2>1, <3>1, <3>2, <3>3
    <3> QED BY <2>1, <2>2, <3>4 DEF CountInv, CountedPlace
  <2>4. CASE ~mode.scripted
    BY <2>1, <2>4 DEF CountInv
  <2> QED BY <2>3, <2>4
<1>3. CASE Dashboard \/ Crash
  <2>1. /\ mode' = mode /\ runner' = runner /\ since' = [since EXCEPT !.troubled = TRUE]
        /\ dash'.alerts = dash.alerts \/ dash'.alerts = 0
    BY <1>3 DEF Dashboard, Crash, Trouble, TlsTypeOK
  <2>2. since'.stored = since.stored /\ since'.troubled = TRUE
    BY <2>1 DEF SinceType
  <2>3. Place' = Place /\ runner.before \in -1 .. Retained /\ dash.alerts \in 0 .. Retained
        /\ Retained \in Nat
    BY <2>1, PlaceNext, TypesOfConstants DEF RunnerType, TlsTypeOK
  <2>4. CountOK => CountOK'
    BY <2>1, <2>2, <2>3 DEF CountOK
  <2> QED BY <2>1, <2>3, <2>4 DEF CountInv, CountedPlace, Running
<1> QED BY <1>1, <1>2, <1>3, CountSteps, StillCount, SweepCount, WindowCount

\* The line of a verdict is one where the alerts have been counted.
LEMMA JudgeVerdict ==
  ASSUME DemoTypes, CountInv, Judge
  PROVE  VerdictsAreRight'
<1>1. mode.scripted /\ Running /\ Instruction.op = "judge"
  BY ByHandOps DEF Judge, At
<1>2. /\ OpAt("judge", Place) /\ Place \in -3 .. 32
  BY <1>1, Where DEF DemoTypes
<1>3. CountedPlace(Place)
  <2>1. ASSUME NEW k \in -3 .. 32, OpAt("judge", k)
        PROVE  CountedPlace(k)
    BY <2>1 DEF OpAt, CountedPlace
  <2> QED BY <1>2, <2>1
<1>4. CountOK
  BY <1>1, <1>3 DEF CountInv
<1>5. /\ verdict'.passed = CheckStep(IF HeldRuns THEN 0 ELSE 1, runner.before, AlertCount, Instruction.arg)
      /\ verdict'.expect = Instruction.arg /\ verdict'.ran = HeldRuns
      /\ verdict'.full = (runner.before = Retained) /\ verdict'.stored = since.stored
      /\ verdict'.troubled = (since.troubled \/ ~dash.up)
  BY DEF Judge
<1>6. /\ runner.before \in -1 .. Retained /\ dash.alerts \in 0 .. Retained /\ Retained \in Nat
  BY TypesParts, TypesOfConstants DEF RunnerType, TlsTypeOK
<1>7. ASSUME verdict'.passed
      PROVE  /\ HeldRuns
             /\ Instruction.arg => since.stored
             /\ ~Instruction.arg /\ since.stored => runner.before = Retained \/ since.troubled \/ ~dash.up
  <2>1. CheckStep(IF HeldRuns THEN 0 ELSE 1, runner.before, AlertCount, Instruction.arg)
    BY <1>5, <1>7
  <2>2. HeldRuns
    BY <2>1 DEF CheckStep
  <2>3. /\ runner.before >= 0 /\ AlertCount >= 0
        /\ IF Instruction.arg THEN AlertCount - runner.before > 0 ELSE AlertCount = runner.before
    BY <2>1 DEF CheckStep
  <2>4. dash.up /\ AlertCount = dash.alerts
    BY <1>6, <2>3 DEF AlertCount
  <2>5. /\ Instruction.arg => dash.alerts > runner.before
        /\ ~Instruction.arg => dash.alerts = runner.before
    BY <1>6, <2>3, <2>4
  <2> QED BY <1>4, <1>6, <2>2, <2>3, <2>5 DEF CountOK
<1> QED BY <1>5, <1>7 DEF VerdictsAreRight

\* Every step leaves a right verdict.
LEMMA StepVerdicts ==
  ASSUME DemoTypes, CountInv, VerdictsAreRight, [Next]_vars
  PROVE  VerdictsAreRight'
<1>1. CASE Judge
  BY <1>1, JudgeVerdict
<1>2. CASE verdict' = None
  BY <1>2 DEF VerdictsAreRight
<1>3. CASE verdict' = verdict
  BY <1>3 DEF VerdictsAreRight
<1>4. Judge \/ verdict' \in {None, verdict}
  BY DEF Next, Execute, StartDashboard, EnterTry, Preflight, Return, Baseline, StartRf,
     SwitchTo, Sleep, Count, StartTraffic, StartTls, Call, StopMonitor, Done, Operate, Interrupt, Tick,
     RfSweep, TlsWindow, Crash, Dashboard, Unscripted, Faulty, aside, vars
<1> QED BY <1>1, <1>2, <1>3, <1>4

----------------------------------------------------------------------------
(* The lines where an alarm is awaited *)

\* The lines between the last count and the verdict of a step that should alert.
Work(k) == k \in {10, 11, 12, 15, 16, 17, 28, 29, 30}

\* What may lead to a line where an alarm is awaited.
LEMMA WorkOps ==
  ASSUME NEW k \in -3 .. 32, NEW op, OpAt(op, k), Work(k + 1)
  PROVE  /\ op \notin {"dashboard", "try", "preflight", "ask", "baseline", "start_rf", "judge",
                       "traffic", "stop", "done"}
         /\ op = "count" => k \in {9, 14} \/ (k = 27 /\ ~mode.replay)
         /\ op = "sleep" => k = 28 /\ mode.replay
         /\ op = "dwell" => k \in {11, 16, 29}
         /\ op = "switch" => k \in {10, 15}
         /\ op = "start_tls" => k = 27 /\ mode.replay
         /\ op = "call" => k = 28 /\ ~mode.replay
<1>1. op # "dashboard"
  <2>1. Lead \in 1 .. 4
    BY OpeningLines
  <2>2. ASSUME OpAt("dashboard", k)
        PROVE  k <= 0
    <3>1. k = 1 - Lead
      BY <2>2, Zenon DEF OpAt
    <3> QED BY <2>1, <3>1
  <2>3. k > 0
    BY DEF Work
  <2> QED BY <2>2, <2>3
<1>2. op # "try"
  BY DEF OpAt, Work
<1>3. op # "preflight"
  BY DEF OpAt, Work
<1>4. op # "ask"
  BY DEF OpAt, Work
<1>5. op # "baseline"
  BY DEF OpAt, Work
<1>6. op # "start_rf"
  BY DEF OpAt, Work
<1>7. op # "judge"
  BY DEF OpAt, Work
<1>8. op # "traffic"
  BY DEF OpAt, Work
<1>9. op # "stop"
  BY DEF OpAt, Work
<1>10. op # "done"
  BY DEF OpAt, Work
<1>11. op = "count" => k \in {9, 14} \/ (k = 27 /\ ~mode.replay)
  BY DEF OpAt, Work
<1>12. op = "sleep" => k = 28 /\ mode.replay
  BY DEF OpAt, Work
<1>13. op = "dwell" => k \in {11, 16, 29}
  BY DEF OpAt, Work
<1>14. op = "switch" => k \in {10, 15}
  BY DEF OpAt, Work
<1>15. op = "start_tls" => k = 27 /\ mode.replay
  BY DEF OpAt, Work
<1>16. op = "call" => k = 28 /\ ~mode.replay
  BY DEF OpAt, Work
<1> QED
  BY <1>1, <1>2, <1>3, <1>4, <1>5, <1>6, <1>7, <1>8, <1>9, <1>10, <1>11, <1>12, <1>13, <1>14, <1>15, <1>16

\* Nothing but a question leads to the lines after the second question.
LEMMA BeforeSwitch ==
  ASSUME NEW k \in -3 .. 32, NEW op, OpAt(op, k), k + 1 \in 9 .. 18, k \notin 9 .. 18,
         op \in {"dashboard", "try", "preflight", "ask", "baseline", "start_rf", "sleep", "dwell",
                 "judge", "count", "switch", "traffic", "start_tls", "call", "stop", "done"}
  PROVE  op = "ask"
<1>0. k = 8
  OBVIOUS
<1>1. op # "dashboard"
  <2>1. Lead \in 1 .. 4
    BY OpeningLines
  <2>2. ASSUME OpAt("dashboard", k)
        PROVE  k <= 0
    <3>1. k = 1 - Lead
      BY <2>2, Zenon DEF OpAt
    <3> QED BY <2>1, <3>1
  <2> QED BY <1>0, <2>2
<1>2. op # "try"
  BY <1>0 DEF OpAt
<1>3. op # "preflight"
  BY <1>0 DEF OpAt
<1>4. op # "baseline"
  BY <1>0 DEF OpAt
<1>5. op # "start_rf"
  BY <1>0 DEF OpAt
<1>6. op # "sleep"
  BY <1>0 DEF OpAt
<1>7. op # "dwell"
  BY <1>0 DEF OpAt
<1>8. op # "judge"
  BY <1>0 DEF OpAt
<1>9. op # "count"
  BY <1>0 DEF OpAt
<1>10. op # "switch"
  BY <1>0 DEF OpAt
<1>11. op # "traffic"
  BY <1>0 DEF OpAt
<1>12. op # "start_tls"
  BY <1>0 DEF OpAt
<1>13. op # "call"
  BY <1>0 DEF OpAt
<1>14. op # "stop"
  BY <1>0 DEF OpAt
<1>15. op # "done"
  BY <1>0 DEF OpAt
<1> QED
  BY <1>1, <1>2, <1>3, <1>4, <1>5, <1>6, <1>7, <1>8, <1>9, <1>10, <1>11, <1>12, <1>13, <1>14, <1>15

\* The rogue radio is on from the second question on, to the end of the act.
AirInv == mode.scripted /\ ~mode.replay /\ Place \in 9 .. 18 => "B" \in air

\* The instructions.
Ops == {"dashboard", "try", "preflight", "ask", "baseline", "start_rf", "sleep", "dwell",
        "judge", "count", "switch", "traffic", "start_tls", "call", "stop", "done"}

\* The steps that are not the program's own.
Elsewhere ==
  \/ Operate \/ Unscripted \/ UNCHANGED vars
  \/ Crash \/ Dashboard
  \/ Tick
  \/ \E lost \in BOOLEAN : RfSweep(lost)
  \/ \E captured, lost \in BOOLEAN : TlsWindow(captured, lost)

\* A step of the program: it goes on by one line, or ends, or it was another's step.
LEMMA RunnerStep ==
  ASSUME DemoTypes, [Next]_vars
  PROVE  \/ runner'.pc = runner.pc /\ (~Running' \/ Elsewhere)
         \/ /\ runner'.pc = runner.pc + 1 /\ Execute /\ Instruction.op \in Ops
            /\ runner'.outcome = runner.outcome
<1>1. CASE Execute
  <2>1. ASSUME NEW outcome \in {"done", "failed", "interrupted", "crashed"}, Exit(outcome)
        PROVE  runner'.pc = runner.pc /\ ~Running'
    BY <2>1, ExitTypes DEF Running
  <2>2. CASE Instruction.op \in Ops /\ Instruction.op # "done"
             /\ (Instruction.op = "ask" => mode.scripted)
             /\ \E wait \in Nat : \E held, before :
                  runner' \in {Onwards(wait), [Onwards(wait) EXCEPT !.held = held],
                               [Onwards(wait) EXCEPT !.before = before]}
    <3>1. PICK wait \in Nat : \E held, before :
                  runner' \in {Onwards(wait), [Onwards(wait) EXCEPT !.held = held],
                               [Onwards(wait) EXCEPT !.before = before]}
      BY <2>2
    <3>2. /\ Onwards(wait) \in RunnerType(Len(procs)) /\ Onwards(wait).pc = runner.pc + 1
          /\ Onwards(wait).outcome = runner.outcome
      BY <2>2, Advance
    <3> QED BY <1>1, <2>2, <3>1, <3>2 DEF RunnerType
  <2>3. Settle \in Nat /\ BaselineTime \in Nat /\ 0 \in Nat
    BY TypesOfConstants
  <2>4. CASE StartDashboard \/ EnterTry \/ Return \/ Baseline \/ StartTraffic
    BY <2>2, <2>3, <2>4 DEF StartDashboard, EnterTry, Return, Baseline, StartTraffic, At, Ops, Takes
  <2>5. CASE StartRf \/ SwitchTo \/ Count \/ Judge
    <3>1. Instruction.op \in {"start_rf", "switch", "count", "judge"}
      BY <2>5 DEF StartRf, SwitchTo, Count, Judge, At
    <3>2. \/ runner' = Onwards(0)
          \/ \E wait \in {0, Settle} : \E held : runner' = [Onwards(wait) EXCEPT !.held = held]
          \/ \E before : runner' = [Onwards(0) EXCEPT !.before = before]
      BY <2>5 DEF StartRf, SwitchTo, Count, Judge
    <3> QED BY <2>2, <2>3, <3>1, <3>2 DEF Ops
  <2>6. CASE StartTls
    <3>1. Instruction.op = "start_tls" /\ runner' = [Onwards(0) EXCEPT !.held = Len(procs) + 1]
      BY <2>6, Zenon DEF StartTls, At
    <3> QED BY <2>2, <2>3, <3>1 DEF Ops
  <2>7. CASE Sleep
    <3>1. Instruction.op \in {"sleep", "dwell"} /\ runner' = Onwards(Instruction.arg)
      BY <2>7 DEF Sleep, At
    <3>2. mode.scripted
      BY <3>1, ByHandOps
    <3>3. Instruction.arg \in Nat
      BY <3>1, <3>2, ArgTypes DEF ArgAt
    <3> QED BY <2>2, <3>1, <3>3 DEF Ops
  <2>8. CASE Preflight \/ Call
    <3>1. Instruction.op \in {"preflight", "call"}
          /\ (runner' = Onwards(0) \/ \E outcome \in {"failed", "crashed"} : Exit(outcome))
      BY <2>8 DEF Preflight, Call, At
    <3> QED BY <2>1, <2>2, <2>3, <3>1 DEF Ops
  <2>9. CASE StopMonitor
    <3>1. Instruction.op = "stop"
          /\ (runner' = [Onwards(0) EXCEPT !.held = 0] \/ Exit("crashed"))
      BY <2>9 DEF StopMonitor, At
    <3> QED BY <2>1, <2>2, <2>3, <3>1 DEF Ops
  <2>10. CASE Done
    BY <2>1, <2>10 DEF Done
  <2> QED BY <1>1, <2>4, <2>5, <2>6, <2>7, <2>8, <2>9, <2>10 DEF Execute
<1>2. CASE Operate \/ Crash \/ Dashboard \/ Unscripted \/ UNCHANGED vars
  BY <1>2 DEF Operate, Crash, Dashboard, Unscripted, vars, Elsewhere
<1>3. CASE Interrupt
  BY <1>3, ExitTypes DEF Interrupt, Running
<1>4. CASE Tick
  <2>1. runner'.pc = runner.pc
    BY <1>4, TypesParts DEF Tick, RunnerType
  <2> QED BY <1>4, <2>1 DEF Elsewhere
<1>5. ASSUME NEW lost \in BOOLEAN, RfSweep(lost)
      PROVE  runner' = runner /\ Elsewhere
  <2>1. runner' = runner
    BY <1>5 DEF RfSweep
  <2> QED BY <1>5, <2>1 DEF Elsewhere
<1>6. ASSUME NEW lost \in BOOLEAN, NEW captured \in BOOLEAN, TlsWindow(captured, lost)
      PROVE  runner' = runner /\ Elsewhere
  <2>1. runner' = runner
    BY <1>6 DEF TlsWindow
  <2> QED BY <1>6, <2>1 DEF Elsewhere
<1> QED BY <1>1, <1>2, <1>3, <1>4, <1>5, <1>6 DEF Next, Faulty

\* The way the program was started never changes.
LEMMA SameMode ==
  ASSUME [Next]_vars
  PROVE  mode' = mode
  BY DEF Next, Execute, StartDashboard, EnterTry, Preflight, Return, Baseline, StartRf,
     SwitchTo, Sleep, Count, Judge, StartTraffic, StartTls, Call, StopMonitor, Done, Operate,
     Interrupt, Tick, RfSweep, TlsWindow, Crash, Dashboard, Unscripted, Faulty, aside, vars

\* Every step keeps the rogue radio on.
LEMMA StepAir ==
  ASSUME DemoTypes, AirInv, [Next]_vars
  PROVE  AirInv'
<1> SUFFICES ASSUME mode.scripted, ~mode.replay, Place' \in 9 .. 18
             PROVE  "B" \in air'
  BY SameMode DEF AirInv
<1>1. /\ OpAt(Instruction.op, Place) /\ ArgAt(Instruction.op, Instruction.arg, Place)
      /\ Place \in -3 .. 32 /\ mode' = mode
  BY Where, SameMode DEF DemoTypes
<1>2. CASE Place \in 9 .. 18
  <2>1. "B" \in air
    BY <1>2 DEF AirInv
  <2>2. CASE Operate
    <3>1. Instruction.op = "ask" /\ air' = Instruction.arg
      BY <2>2 DEF Operate, At
    <3>2. ASSUME NEW k \in -3 .. 32, k \in 9 .. 18, OpAt("ask", k)
          PROVE  k = 13
      BY <3>2 DEF OpAt
    <3>3. Place = 13
      BY <1>1, <1>2, <3>1, <3>2
    <3> QED BY <1>1, <3>1, <3>3 DEF ArgAt
  <2>3. CASE Unscripted
    BY <2>1, <2>3 DEF Unscripted
  <2>4. CASE air' = air
    BY <2>1, <2>4
  <2>5. Operate \/ Unscripted \/ air' = air
    BY DEF Next, Execute, StartDashboard, EnterTry, Preflight, Return, Baseline, StartRf,
       SwitchTo, Sleep, Count, Judge, StartTraffic, StartTls, Call, StopMonitor, Done,
       Interrupt, Tick, RfSweep, TlsWindow, Crash, Dashboard, Faulty, aside, vars
  <2> QED BY <2>2, <2>3, <2>4, <2>5
<1>3. CASE Place \notin 9 .. 18
  <2>1. Place' = Place + 1 /\ Execute /\ Instruction.op \in Ops
    BY <1>1, <1>3, RunnerStep, PlaceNext
  <2>2. Instruction.op = "ask" /\ Place = 8
    BY <1>1, <1>3, <2>1, BeforeSwitch DEF Ops
  <2>3. Return
    BY <2>1, <2>2 DEF Execute, StartDashboard, EnterTry, Preflight, Baseline, StartRf,
       SwitchTo, Sleep, Count, Judge, StartTraffic, StartTls, Call, StopMonitor, Done, At
  <2>4. "B" \in Instruction.arg
    BY <1>1, <2>2 DEF ArgAt
  <2> QED BY <2>3, <2>4 DEF Return, aside
<1> QED BY <1>2, <1>3

\* An RF monitor that runs has read a baseline file.
FileInv == rf # None => file # None

\* Every step keeps it.
LEMMA StepFile ==
  ASSUME DemoTypes, FileInv, [Next]_vars
  PROVE  FileInv'
<1>1. CASE StartRf \/ SwitchTo
  BY <1>1 DEF StartRf, SwitchTo, FreshRf, FileInv, aside
<1>2. CASE Baseline
  <2>1. air # None /\ {"A"} # None
    BY TypesParts, RfNoneAssumption DEF Radios
  <2>2. rf' = rf /\ file' \in Learned \cup {file}
    BY <1>2 DEF Baseline
  <2> QED BY <2>1, <2>2 DEF Learned, FileInv
<1>3. ASSUME NEW outcome, Exit(outcome)
      PROVE  rf' = rf \/ rf' = None
  BY <1>3 DEF Exit, Reap
<1>4. CASE Execute /\ ~StartRf /\ ~SwitchTo /\ ~Baseline
  <2>1. file' = file /\ (rf' = rf \/ rf' = None)
    BY <1>3, <1>4 DEF Execute, StartDashboard, EnterTry, Preflight, Return, Sleep, Count, Judge,
       StartTraffic, StartTls, Call, StopMonitor, Done, Reap, aside
  <2> QED BY <2>1 DEF FileInv
<1>5. CASE Operate \/ Interrupt \/ Crash \/ Dashboard \/ Unscripted \/ UNCHANGED vars
  <2>1. file' = file /\ (rf' = rf \/ rf' = None)
    BY <1>3, <1>5 DEF Operate, Interrupt, Crash, Dashboard, Unscripted, Reap, aside, vars
  <2> QED BY <2>1 DEF FileInv
<1>6. ASSUME Tick \/ \E lost \in BOOLEAN : RfSweep(lost)
               \/ \E captured \in BOOLEAN : TlsWindow(captured, lost)
      PROVE  FileInv'
  BY <1>6 DEF Tick, RfSweep, TlsWindow, FileInv
<1> QED BY <1>1, <1>2, <1>4, <1>5, <1>6 DEF Next, Faulty

----------------------------------------------------------------------------
(* The alarm that is awaited: the steps of the others *)

\* The lines of the verdicts over an alarm.
LastLine(k) == k \in {12, 17, 30}

\* How long the dwell of the step has gone on.
Waited(k, wait) == IF LastLine(k) THEN AlarmDwell - wait ELSE 0

\* Only dwells are waited for on them.
WaitOK(k, wait) ==
  /\ LastLine(k) => wait <= AlarmDwell
  /\ ~LastLine(k) /\ ~mode.replay => wait = 0

\* The live RF monitor, w ticks into the dwell: the time since its alert was
\* sent, and that a sweep is due unless the alert is still held back.
RfLive(r, heldBack, w) ==
  /\ r # None
  /\ heldBack <= RfSuppress
  /\ r.sentAge["B"] = Least(RfSuppress, (RfSuppress - heldBack) + w)
  /\ w >= 1 /\ ~r.due => w < heldBack
  /\ w >= 2 => w <= heldBack

\* The RF monitor over a recording has its only sweep before it.
RfReplay(r) == r # None /\ r.due /\ r.sentAge["B"] = RfSuppress /\ "B" \in r.reads

\* The live network monitor, w ticks into the dwell: nothing is held back and
\* the call is in the window that is captured.
TlsLive(t, k, w) ==
  /\ t # None
  /\ t.sentAge["rogue"] = Suppress
  /\ k > 28 => "rogue" \in t.seen /\ t.left <= Window - w

\* The network monitor over a recording: the call is in every window.
TlsReplay(t, w) ==
  /\ t # None
  /\ "rogue" \in t.reads /\ t.sentAge["rogue"] = Suppress
  /\ t.left <= Window - w

\* The second radio is not authorised.
Novel == ~(file # None /\ "B" \in file)

\* The call is not held back, and from line 29 on it is in a capture.
Caught(k) == since.heldBack = 0 /\ (k > 28 => ~since.between)

\* Nothing has been stored since the count, every call was answered, and the
\* monitor runs.
Quiet == ~since.stored /\ ~since.troubled /\ HeldRuns

\* What holds then of the monitor that is to alert.
Awaited(k, wait) ==
  /\ mode.replay /\ k \in {28, 29, 30} => TlsReplay(tls, Waited(k, wait))
  /\ mode.replay /\ k \in {11, 12, 16, 17} /\ Novel =>
       RfReplay(rf) /\ (LastLine(k) => wait = AlarmDwell)
  /\ ~mode.replay /\ k \in {28, 29, 30} /\ Caught(k) => TlsLive(tls, k, Waited(k, wait))
  /\ ~mode.replay /\ k \in {10, 11, 12, 15, 16, 17} /\ Novel =>
       RfLive(rf, since.heldBack, Waited(k, wait))

\* It is known on the lines where an alarm is awaited.
MissInv ==
  mode.scripted /\ Running /\ Work(Place) =>
    WaitOK(Place, runner.wait) /\ (Quiet => Awaited(Place, runner.wait))

----------------------------------------------------------------------------

\* A sweep that does not send the second radio.
LEMMA RfSweepLive ==
  ASSUME NEW r \in RfState, NEW s \in RfState, NEW heldBack \in Nat, NEW w \in Nat,
         RfLive(r, heldBack, w), IsSuppressed(r.sentAge["B"], RfSuppress),
         s.sentAge["B"] = r.sentAge["B"]
  PROVE  RfLive(s, heldBack, w)
<1>1. s # None
  BY RfNoneAssumption
<1>2. RfSuppress \in Nat /\ r.sentAge["B"] \in 0 .. RfSuppress
  BY TypesOfConstants DEF RfState, Radios
<1>3. w < heldBack
  BY <1>2 DEF RfLive, IsSuppressed, Least
<1> QED BY <1>1, <1>3 DEF RfLive

\* A tick after a sweep.
LEMMA RfTickLive ==
  ASSUME NEW r \in RfState, NEW s \in RfState, NEW heldBack \in Nat, NEW w \in Nat,
         RfLive(r, heldBack, w), ~r.due, s.due,
         s.sentAge["B"] = Least(r.sentAge["B"] + 1, RfSuppress)
  PROVE  RfLive(s, heldBack, w + 1)
<1>1. RfSuppress \in Nat /\ r.sentAge["B"] \in 0 .. RfSuppress
  BY TypesOfConstants DEF RfState, Radios
<1>2. s # None
  BY RfNoneAssumption
<1>3. s.sentAge["B"] = Least(RfSuppress, (RfSuppress - heldBack) + (w + 1))
  BY <1>1 DEF RfLive, Least
<1>4. w + 1 >= 2 => w + 1 <= heldBack
  BY DEF RfLive
<1> QED BY <1>2, <1>3, <1>4 DEF RfLive

\* A window that stores nothing though it is answered: no rogue was in it.
LEMMA QuietWindow ==
  ASSUME DemoTypes, NEW captured \in BOOLEAN, NEW lost \in BOOLEAN, TlsWindow(captured, lost),
         dash.up, ~since'.stored, ~since'.troubled,
         tls.sentAge["rogue"] = Suppress
  PROVE  /\ "rogue" \notin NextWindow(captured) /\ NextWindow(captured) # None
         /\ tls \in TlsState
         /\ tls' \in TlsState /\ tls'.reads = tls.reads /\ tls'.sentAge["rogue"] = Suppress
         /\ captured
<1>0. PICK late \in 0 .. Gap : WindowDone(captured, lost, late)
  BY DEF TlsWindow
<1> DEFINE seen     == NextWindow(captured)
           again    == [tls EXCEPT !.left = Window + late, !.seen = {}]
           findings == Findings(seen)
           sessions == RecentSessions(tls.history, Sessions(seen), Flagged(findings))
           sending  == {i \in findings : Sent[i]}
           heard    == dash.up /\ ~lost
           stored   == dash.up /\ ~lost /\ tls'.sentAge # tls.sentAge
<1>1. /\ since' = [since EXCEPT !.stored = @ \/ stored, !.troubled = @ \/ lost \/ ~captured]
      /\ WindowDone(captured, lost, late)
  BY <1>0 DEF TlsWindow
<1>2. /\ since \in SinceType
      /\ tls \in TlsState /\ Suppress \in Nat /\ Suppress > 0
  BY <1>1, TypesParts, TypesOfConstants, Monitors DEF WindowDone
<1>3. ~lost /\ captured /\ tls'.sentAge = tls.sentAge
  BY <1>1, <1>2 DEF SinceType
<1>4. /\ tls' \in TlsState /\ tls'.reads = tls.reads
  BY <1>1, TypesParts, WindowTypes
<1>5. seen # None
  BY <1>2, <1>3, Monitors, TlsNoneAssumption DEF NextWindow, TlsState
<1>6. tls' = [again EXCEPT !.history = sessions,
                !.sentAge = [i \in Identity |-> IF i \in sending THEN 0 ELSE @[i]]]
  BY <1>1, <1>5 DEF WindowDone
<1>7. tls'.sentAge = [i \in Identity |-> IF i \in sending THEN 0 ELSE tls.sentAge[i]]
  BY <1>2, <1>6 DEF TlsState
<1>8. "rogue" \notin sending
  <2> HIDE DEF sending
  <2>1. "rogue" \in Identity
    BY DEF Identity
  <2>2. tls'.sentAge["rogue"] = IF "rogue" \in sending THEN 0 ELSE tls.sentAge["rogue"]
    BY <1>7, <2>1
  <2>3. tls'.sentAge["rogue"] = Suppress
    BY <1>3
  <2> QED BY <1>2, <2>2, <2>3
<1>9. "rogue" \notin seen
  <2>1. ~IsSuppressed(tls.sentAge["rogue"], Suppress)
    BY <1>2 DEF IsSuppressed
  <2>2. "rogue" \in Identity
    BY DEF Identity
  <2>3. Sent["rogue"]
    BY <2>1, <2>2, Zenon DEF Sent
  <2>4. "rogue" \in seen => "rogue" \in findings
    BY <2>2 DEF Findings
  <2> QED BY <1>8, <2>3, <2>4
<1> QED BY <1>2, <1>3, <1>4, <1>5, <1>7, <1>9

\* The time waited is a time.
LEMMA WaitedType ==
  ASSUME NEW k \in Int, NEW wait \in Nat, WaitOK(k, wait)
  PROVE  Waited(k, wait) \in Nat
  BY TypesOfConstants DEF Waited, WaitOK

----------------------------------------------------------------------------

\* What is the same in a step that is not the program's.
LEMMA ElsewhereParts ==
  ASSUME DemoTypes, ProcsInv, AirInv, FileInv, CountInv, MissInv, [Next]_vars, mode.scripted,
         Running',
         runner'.pc = runner.pc, Work(Place)'
  PROVE  /\ Work(Place) /\ Place' = Place /\ Place \in Int /\ Running /\ mode' = mode
         /\ WaitOK(Place, runner.wait) /\ (Quiet => Awaited(Place, runner.wait))
         /\ Instruction.op # "ask"
         /\ Quiet => dash.up
         /\ runner.wait \in Nat /\ since.heldBack \in Nat /\ Waited(Place, runner.wait) \in Nat
<1>1. mode' = mode /\ Place' = Place /\ Place \in Int
  BY SameMode, PlaceNext, Places
<1>2. Running
  BY OverStep DEF Running
<1>3. Work(Place)
  BY <1>1 DEF Work
<1>4. Instruction.op # "ask"
  <2>1. OpAt(Instruction.op, Place) /\ Place \in -3 .. 32
    BY Where DEF DemoTypes
  <2>2. ASSUME NEW k \in -3 .. 32, OpAt("ask", k)
        PROVE  ~Work(k)
    BY <2>2 DEF OpAt, Work
  <2> QED BY <1>3, <2>1, <2>2
<1>5. Quiet => dash.up
  <2>1. CountedPlace(Place)
    BY <1>1, <1>3 DEF Work, CountedPlace
  <2> QED BY <1>2, <2>1 DEF CountInv, CountOK, Quiet
<1>6. runner.wait \in Nat /\ since.heldBack \in Nat
  BY TypesParts DEF RunnerType, SinceType
<1>7. WaitOK(Place, runner.wait) /\ (Quiet => Awaited(Place, runner.wait))
  BY <1>2, <1>3 DEF MissInv
<1> QED BY <1>1, <1>2, <1>3, <1>4, <1>5, <1>6, <1>7, WaitedType

\* The monitor that runs after a step that leaves the processes alone ran before.
LEMMA RunsKept ==
  ASSUME procs' = procs, runner'.held = runner.held
  PROVE  HeldRuns' <=> HeldRuns
  BY DEF HeldRuns

\* The network monitor goes on with the same window.
TlsSame ==
  tls # None => /\ tls' # None /\ tls'.reads = tls.reads /\ tls'.sentAge = tls.sentAge
                /\ tls'.left = tls.left /\ tls.seen \subseteq tls'.seen

\* It does when a session is begun.
LEMMA CallingSame ==
  ASSUME DemoTypes
  PROVE  \A k \in Unusual, n \in 0 .. 2 : Calling(k, n) => TlsSame
<1> SUFFICES ASSUME NEW k \in Unusual, NEW n \in 0 .. 2, Calling(k, n) PROVE TlsSame
  OBVIOUS
<1>1. CASE Capturing
  <2>1. tls' = [tls EXCEPT !.seen = tls.seen \cup {k}] /\ tls \in TlsState
    BY <1>1, Monitors DEF Calling, Capturing
  <2>2. tls' # None
    BY <1>1, CallingOn DEF TlsOn, Capturing
  <2> QED BY <2>1, <2>2 DEF TlsSame, TlsState
<1>2. CASE ~Capturing
  BY <1>2 DEF Calling, TlsSame
<1> QED BY <1>1, <1>2

\* The steps of the others keep the invariant.
LEMMA MissElsewhere ==
  ASSUME DemoTypes, ProcsInv, AirInv, FileInv, CountInv, MissInv, [Next]_vars, mode.scripted,
         Running',
         runner'.pc = runner.pc, Work(Place)', Elsewhere
  PROVE  WaitOK(Place, runner.wait)' /\ (Quiet' => Awaited(Place, runner.wait)')
<1> DEFINE k == Place  wait == runner.wait  w == Waited(k, wait)
<1>1. /\ Work(k) /\ k' = k /\ k \in Int /\ Running /\ mode' = mode
      /\ WaitOK(k, wait) /\ (Quiet => Awaited(k, wait))
      /\ Instruction.op # "ask"
      /\ Quiet => dash.up
      /\ wait \in Nat /\ since.heldBack \in Nat /\ w \in Nat
  BY ElsewhereParts
<1>2. ASSUME NEW l, NEW v
      PROVE  WaitOK(l, v)' <=> WaitOK(l', v')
  BY <1>1 DEF WaitOK, LastLine
<1>3. CASE runner' = runner /\ procs' = procs /\ rf' = rf /\ TlsSame /\ since' = since
           /\ file' = file
  <2>1. Quiet' <=> Quiet
    BY <1>3 DEF Quiet, HeldRuns
  <2>2. WaitOK(k, wait)' /\ (Awaited(k, wait) => Awaited(k, wait)')
    BY <1>1, <1>3 DEF WaitOK, LastLine, Awaited, TlsReplay, RfReplay, TlsLive, RfLive, Waited,
       TlsSame, Novel, Caught
  <2> QED BY <1>1, <2>1, <2>2
<1>4. CASE Operate \/ Unscripted \/ UNCHANGED vars
  <2>1. runner' = runner /\ procs' = procs /\ rf' = rf /\ since' = since /\ file' = file
    BY <1>4 DEF Operate, Unscripted, vars
  <2>2. TlsSame
    <3>1. tls' = tls => TlsSame
      BY DEF TlsSame
    <3>2. Operate \/ UNCHANGED vars => tls' = tls
      BY DEF Operate, vars, monitorVars
    <3> QED BY <1>4, <3>1, <3>2, UnscriptedCalls, CallingSame
  <2> QED BY <1>3, <2>1, <2>2
<1>5. CASE Crash \/ Dashboard
  <2>1. runner' = runner /\ since'.troubled
    BY <1>5, TypesParts DEF Crash, Dashboard, Trouble, SinceType
  <2>2. WaitOK(k, wait)'
    BY <1>1, <2>1 DEF WaitOK, LastLine
  <2> QED BY <2>1, <2>2 DEF Quiet
<1>6. CASE Tick
  <2>1. /\ runner' = [runner EXCEPT !.wait = IF @ > 0 THEN @ - 1 ELSE 0]
        /\ runner.wait > 0 /\ procs' = procs /\ since' = since /\ file' = file
        /\ rf # None => ~rf.due
        /\ TlsTick(~mode.scripted \/ Works("traffic", procs))
        /\ rf' = IF rf = None THEN None
                 ELSE [rf EXCEPT !.due = TRUE,
                         !.sentAge = [radio \in Radios |-> Least(@[radio] + 1, RfSuppress)]]
    BY <1>1, <1>6 DEF Tick
  <2>2. wait' = wait - 1 /\ wait > 0 /\ runner'.held = runner.held
    BY <2>1, TypesParts DEF RunnerType
  <2>3. Quiet' <=> Quiet
    BY <2>1, <2>2, RunsKept DEF Quiet
  <2>4. LastLine(k) \/ mode.replay
    BY <1>1, <2>2 DEF WaitOK
  <2>5. Waited(k, wait') = IF LastLine(k) THEN w + 1 ELSE 0
    BY <1>1, <2>2, TypesOfConstants DEF Waited
  <2>6. WaitOK(k, wait)'
    BY <1>1, <2>2, <2>4, TypesOfConstants DEF WaitOK, LastLine
  <2>7. ASSUME tls # None
        PROVE  /\ tls \in TlsState /\ tls' \in TlsState /\ tls'.reads = tls.reads
               /\ tls'.left = tls.left - 1 /\ tls.left \in Int
               /\ tls.seen \subseteq tls'.seen
               /\ tls.sentAge["rogue"] = Suppress => tls'.sentAge["rogue"] = Suppress
    <3>1. tls \in TlsState
      BY <2>7, Monitors
    <3>2. (~mode.scripted \/ Works("traffic", procs)) \in BOOLEAN
      BY TypesParts DEF ModeType, Works
    <3>3. tls' \in TlsState /\ tls'.reads = tls.reads
      BY <2>1, <2>7, <3>2, TypesParts, TickTypes
    <3>4. /\ tls'.left = tls.left - 1
          /\ tls.seen \subseteq tls'.seen
          /\ tls'.sentAge = [i \in Identity |-> Least(tls.sentAge[i] + 1, Suppress)]
      BY <2>1, <2>7, <3>1 DEF TlsTick, TlsState
    <3>5. tls.sentAge["rogue"] = Suppress => tls'.sentAge["rogue"] = Suppress
      BY <3>4, TypesOfConstants DEF Identity, Least
    <3>6. tls.left \in Int
      <4>1. Window \in Int /\ Gap \in Int
        BY TypesOfConstants
      <4> QED BY <3>1, <4>1 DEF TlsState
    <3> QED BY <3>1, <3>3, <3>4, <3>5, <3>6
  <2>8. ASSUME Quiet
        PROVE  Awaited(k, wait)'
    <3>1. Awaited(k, wait)
      BY <1>1, <2>8
    <3>2. ASSUME mode.replay, k \in {28, 29, 30}
          PROVE  TlsReplay(tls', Waited(k, wait'))
      <4>1. TlsReplay(tls, w)
        BY <3>1, <3>2 DEF Awaited
      <4>2. tls # None /\ tls' # None
        BY <2>7, <4>1, Monitors DEF TlsReplay
      <4>3. tls'.left <= Window - Waited(k, wait')
        <5>1. Waited(k, wait') = w + 1 \/ Waited(k, wait') = 0
          BY <2>5
        <5>2. tls.left <= Window - w /\ tls'.left = tls.left - 1 /\ tls.left \in Int
          BY <2>7, <4>1, <4>2 DEF TlsReplay
        <5> QED BY <1>1, <5>1, <5>2, TypesOfConstants
      <4> QED BY <2>7, <4>1, <4>2, <4>3 DEF TlsReplay
    <3>3. ASSUME mode.replay, k \in {11, 12, 16, 17}, Novel
          PROVE  FALSE
      BY <2>1, <3>1, <3>3 DEF Awaited, RfReplay
    <3>4. ASSUME ~mode.replay, k \in {28, 29, 30}, Caught(k)
          PROVE  TlsLive(tls', k, Waited(k, wait'))
      <4>1. TlsLive(tls, k, w)
        BY <3>1, <3>4 DEF Awaited
      <4>2. tls # None /\ tls' # None
        BY <2>7, <4>1, Monitors DEF TlsLive
      <4>3. k = 30 /\ LastLine(k)
        BY <2>4, <3>4 DEF LastLine
      <4>4. Waited(k, wait') = w + 1
        BY <2>5, <4>3
      <4>5. "rogue" \in tls'.seen
        BY <2>7, <4>1, <4>2, <4>3 DEF TlsLive
      <4>6. tls'.left <= Window - (w + 1)
        <5>1. tls.left <= Window - w /\ tls'.left = tls.left - 1 /\ tls.left \in Int
          BY <2>7, <4>1, <4>2, <4>3 DEF TlsLive
        <5> QED BY <1>1, <5>1, TypesOfConstants
      <4> QED BY <2>7, <4>1, <4>2, <4>4, <4>5, <4>6 DEF TlsLive
    <3>5. ASSUME ~mode.replay, k \in {10, 11, 12, 15, 16, 17}, Novel
          PROVE  RfLive(rf', since.heldBack, Waited(k, wait'))
      <4>1. RfLive(rf, since.heldBack, w) /\ LastLine(k)
        BY <2>4, <3>1, <3>5 DEF Awaited
      <4>2. rf \in RfState /\ ~rf.due
        BY <2>1, <4>1, Monitors DEF RfLive
      <4>3. rf' \in RfState /\ rf'.due /\ rf'.sentAge["B"] = Least(rf.sentAge["B"] + 1, RfSuppress)
        <5> DEFINE ages == [radio \in Radios |-> Least(rf.sentAge[radio] + 1, RfSuppress)]
        <5>1. rf' = [rf EXCEPT !.due = TRUE, !.sentAge = ages]
          BY <2>1, <4>1 DEF RfLive
        <5>2. ages \in [Radios -> 0 .. RfSuppress]
          BY <4>2, TypesOfConstants DEF RfState, Least
        <5>3. ages["B"] = Least(rf.sentAge["B"] + 1, RfSuppress)
          BY DEF Radios
        <5> HIDE DEF ages
        <5> QED BY <4>2, <5>1, <5>2, <5>3 DEF RfState
      <4> QED BY <1>1, <2>5, <4>1, <4>2, <4>3, RfTickLive
    <3>6. (Novel' <=> Novel) /\ \A l : Caught(l)' <=> Caught(l)
      BY <2>1 DEF Novel, Caught
    <3> QED BY <1>1, <2>1, <3>2, <3>3, <3>4, <3>5, <3>6 DEF Awaited, TlsReplay, TlsLive, RfLive,
          Waited, LastLine
  <2> QED BY <2>3, <2>6, <2>8
<1>7. ASSUME NEW lost \in BOOLEAN, RfSweep(lost)
      PROVE  WaitOK(k, wait)' /\ (Quiet' => Awaited(k, wait)')
  <2> DEFINE view    == IF rf.reads # None THEN rf.reads ELSE air
             sending == {radio \in view \ file : ~IsSuppressed(rf.sentAge[radio], RfSuppress)}
             stored  == sending # {} /\ dash.up /\ ~lost
             ages    == [radio \in Radios |-> IF radio \in sending THEN 0 ELSE rf.sentAge[radio]]
  <2>1. /\ rf # None /\ runner' = runner /\ procs' = procs /\ tls' = tls /\ file' = file
        /\ since' = [since EXCEPT !.stored = @ \/ stored, !.troubled = @ \/ lost]
        /\ rf' = [rf EXCEPT !.due = FALSE, !.sentAge = ages]
    BY <1>7 DEF RfSweep
  <2>2. WaitOK(k, wait)'
    BY <1>1, <2>1 DEF WaitOK, LastLine
  <2>3. ASSUME Quiet'
        PROVE  Awaited(k, wait)'
    <3>1. /\ Quiet /\ since'.heldBack = since.heldBack /\ since'.between = since.between
          /\ ~stored /\ ~lost
      BY <2>1, <2>3, TypesParts, RunsKept DEF Quiet, SinceType
    <3>2. Awaited(k, wait) /\ sending = {}
      BY <1>1, <3>1
    <3>3. rf \in RfState /\ (rf.reads # None) = mode.replay /\ mode \in ModeType
      BY <2>1, Monitors, TypesParts DEF ProcsInv, ReadsInv
    <3>4. rf' \in RfState /\ rf'.sentAge["B"] = rf.sentAge["B"]
      <4>1. ages = rf.sentAge
        BY <3>2, <3>3 DEF RfState
      <4> HIDE DEF ages
      <4> QED BY <2>1, <3>3, <4>1 DEF RfState
    <3>7. "B" \in view /\ Novel => IsSuppressed(rf.sentAge["B"], RfSuppress)
      <4>1. file # None
        BY <2>1 DEF FileInv
      <4> QED BY <3>2, <4>1 DEF Novel
    <3>5. ASSUME mode.replay, k \in {11, 12, 16, 17}, Novel
          PROVE  FALSE
      <4>1. RfReplay(rf) /\ view = rf.reads
        BY <3>2, <3>3, <3>5 DEF Awaited
      <4>2. RfSuppress \in Nat
        BY TypesOfConstants
      <4> QED BY <3>5, <3>7, <4>1, <4>2 DEF RfReplay, IsSuppressed
    <3>6. ASSUME ~mode.replay, k \in {10, 11, 12, 15, 16, 17}, Novel
          PROVE  RfLive(rf', since.heldBack, w)
      <4>1. RfLive(rf, since.heldBack, w)
        BY <3>2, <3>6 DEF Awaited
      <4>2. view = air /\ "B" \in air
        <5>1. view = air
          BY <3>3, <3>6
        <5>2. k \in 9 .. 18
          BY <3>6
        <5>3. "B" \in air
          BY <1>1, <3>6, <5>2 DEF AirInv
        <5> QED BY <5>1, <5>3
      <4>3. IsSuppressed(rf.sentAge["B"], RfSuppress)
        BY <3>6, <3>7, <4>2
      <4> QED BY <1>1, <3>3, <3>4, <4>1, <4>3, RfSweepLive
    <3>8. (Novel' <=> Novel) /\ \A l : Caught(l)' <=> Caught(l)
      BY <2>1, <3>1 DEF Novel, Caught
    <3> QED BY <1>1, <2>1, <3>1, <3>2, <3>5, <3>6, <3>8 DEF Awaited, TlsReplay, TlsLive, RfLive,
          Waited, LastLine
  <2> QED BY <2>2, <2>3
<1>8. ASSUME NEW captured \in BOOLEAN, NEW lost \in BOOLEAN, TlsWindow(captured, lost)
      PROVE  WaitOK(k, wait)' /\ (Quiet' => Awaited(k, wait)')
  <2>1. /\ runner' = runner /\ procs' = procs /\ rf' = rf /\ file' = file
        /\ since' = [since EXCEPT
             !.stored   = @ \/ (dash.up /\ ~lost /\ tls'.sentAge # tls.sentAge),
             !.troubled = @ \/ lost \/ ~captured]
        /\ tls # None
    BY <1>8 DEF TlsWindow, WindowDone
  <2>2. WaitOK(k, wait)'
    BY <1>1, <2>1 DEF WaitOK, LastLine
  <2>3. ASSUME Quiet'
        PROVE  Awaited(k, wait)'
    <3>1. /\ Quiet /\ since'.heldBack = since.heldBack /\ since'.between = since.between
          /\ ~since'.stored /\ ~since'.troubled
      BY <2>1, <2>3, TypesParts, RunsKept DEF Quiet, SinceType
    <3>2. Awaited(k, wait) /\ dash.up
      BY <1>1, <3>1
    <3>3. (tls.reads # None) = mode.replay /\ mode \in ModeType
      BY <2>1, TypesParts DEF ProcsInv, ReadsInv
    <3>4. ASSUME mode.replay, k \in {28, 29, 30}
          PROVE  FALSE
      <4>1. TlsReplay(tls, w)
        BY <3>2, <3>4 DEF Awaited
      <4>2. NextWindow(captured) = tls.reads
        BY <3>3, <3>4 DEF NextWindow
      <4> QED BY <1>8, <3>1, <3>2, <4>1, <4>2, QuietWindow DEF TlsReplay
    <3>5. ASSUME ~mode.replay, k \in {28, 29, 30}, Caught(k)
          PROVE  TlsLive(tls', k, w)
      <4>1. TlsLive(tls, k, w)
        BY <3>2, <3>5 DEF Awaited
      <4>2. /\ "rogue" \notin NextWindow(captured) /\ captured
            /\ tls' \in TlsState /\ tls'.sentAge["rogue"] = Suppress
        BY <1>8, <3>1, <3>2, <4>1, QuietWindow DEF TlsLive
      <4>3. NextWindow(captured) = tls.seen
        BY <3>3, <3>5, <4>2 DEF NextWindow
      <4>4. ~(k > 28)
        BY <4>1, <4>2, <4>3 DEF TlsLive
      <4>5. tls' # None
        BY <4>2, Monitors
      <4> QED BY <4>2, <4>4, <4>5 DEF TlsLive
    <3>6. (Novel' <=> Novel) /\ \A l : Caught(l)' <=> Caught(l)
      BY <2>1, <3>1 DEF Novel, Caught
    <3> QED BY <1>1, <2>1, <3>1, <3>2, <3>4, <3>5, <3>6 DEF Awaited, RfReplay, TlsLive, RfLive,
          Waited, LastLine
  <2> QED BY <2>2, <2>3
<1> QED BY <1>4, <1>5, <1>6, <1>7, <1>8 DEF Elsewhere

----------------------------------------------------------------------------
(* The alarm that is awaited: the steps of the program *)

\* The monitor that runs is the one the line is about, and has a state.
LEMMA HeldWorks ==
  ASSUME DemoTypes, ProcsInv, Running, mode.scripted, HeldRuns
  PROVE  /\ runner.held \in 1 .. Len(procs) /\ HoldsAt(procs[runner.held].what, Place)
         /\ procs[runner.held].what = "rf" => rf \in RfState
         /\ procs[runner.held].what = "tls" => tls \in TlsState
<1> DEFINE p == procs[runner.held]
<1>1. runner.held \in 1 .. Len(procs) /\ p.leader /\ runner.held # 0
  BY TypesParts DEF HeldRuns, RunnerType
<1>2. HoldsAt(p.what, Place)
  BY <1>1 DEF ProcsInv, HeldInv
<1>3. p \in ProcessType /\ Kind(p, runner.pc, Place) /\ runner.held \in DOMAIN procs
  BY <1>1, TypesParts DEF ProcsInv, KindsInv
<1> HIDE DEF p
<1>4. Working(p)
  BY <1>1, <1>3 DEF Kind, Working, p
<1>5. Works(p.what, procs)
  BY <1>3, <1>4 DEF Works, p
<1>6. (rf # None <=> Works("rf", procs)) /\ (tls # None <=> Works("tls", procs))
  BY DEF ProcsInv, StatesOfProcesses
<1>7. (p.what = "rf" => rf \in RfState) /\ (p.what = "tls" => tls \in TlsState)
  BY <1>5, <1>6, Monitors
<1> QED BY <1>1, <1>2, <1>7 DEF p

\* What is known of a step of the program to a line where an alarm is awaited.
WorkStep ==
  /\ mode.scripted /\ mode' = mode
  /\ Running /\ Running'
  /\ Place \in -3 .. 32 /\ Place' = Place + 1 /\ Work(Place + 1)
  /\ OpAt(Instruction.op, Place) /\ ArgAt(Instruction.op, Instruction.arg, Place)
  /\ Work(Place) => WaitOK(Place, runner.wait) /\ (Quiet => Awaited(Place, runner.wait))

\* The invariant after such a step.
MissMade == WaitOK(Place, runner.wait)' /\ (Quiet' => Awaited(Place, runner.wait)')

\* Counting the alerts.
LEMMA CountMiss ==
  ASSUME DemoTypes, ProcsInv, WorkStep, Count
  PROVE  MissMade
<1>1. Place \in {9, 14} \/ (Place = 27 /\ ~mode.replay)
  <2>1. Instruction.op = "count"
    BY DEF Count, At
  <2> QED BY <2>1, WorkOps DEF WorkStep
<1>2. /\ mode' = mode /\ Place' = Place + 1 /\ mode.scripted /\ Running
  BY DEF WorkStep
<1>3. /\ runner'.wait = 0 /\ runner'.held = runner.held
      /\ since'.heldBack = HeldBack
      /\ procs' = procs /\ rf' = rf /\ tls' = tls /\ file' = file
  <2>1. Instruction.op = "count" /\ runner' = [Onwards(0) EXCEPT !.before = AlertCount]
    BY DEF Count, At
  <2>2. Onwards(0) \in RunnerType(Len(procs)) /\ Onwards(0).wait = 0 /\ Onwards(0).held = runner.held
    BY <2>1, Advance
  <2>3. runner'.wait = 0 /\ runner'.held = runner.held
    BY <2>1, <2>2 DEF RunnerType
  <2> QED BY <2>3 DEF Count, Untroubled, monitorVars
<1>4. Place' \in {10, 15, 28} /\ (mode.replay => Place' \in {10, 15})
  BY <1>1, <1>2
<1>5. WaitOK(Place, runner.wait)'
  BY <1>3, <1>4 DEF WaitOK, LastLine
<1>6. ASSUME Quiet'
      PROVE  Awaited(Place, runner.wait)'
  <2>1. HeldRuns
    BY <1>3, <1>6, RunsKept DEF Quiet
  <2>2. /\ runner.held # 0 /\ HoldsAt(procs[runner.held].what, Place)
        /\ procs[runner.held].what = "rf" => rf \in RfState
        /\ procs[runner.held].what = "tls" => tls \in TlsState
    BY <1>2, <2>1, HeldWorks
  <2>3. Waited(Place', runner'.wait) = 0
    BY <1>4 DEF Waited, LastLine
  <2>4. ASSUME ~mode.replay, Place \in {9, 14}
        PROVE  RfLive(rf, HeldBack, 0)
    <3>1. procs[runner.held].what = "rf"
      BY <2>2, <2>4 DEF HoldsAt
    <3>2. rf \in RfState /\ rf # None
      BY <2>2, <3>1, Monitors
    <3>3. HeldBack = RfSuppress - rf.sentAge["B"]
      BY <2>2, <2>4, <3>1, <3>2 DEF HeldBack
    <3>4. RfSuppress \in Nat /\ rf.sentAge["B"] \in 0 .. RfSuppress
      BY <3>2, TypesOfConstants DEF RfState, Radios
    <3> QED BY <3>2, <3>3, <3>4 DEF RfLive, Least
  <2>5. ASSUME ~mode.replay, Place = 27, HeldBack = 0
        PROVE  TlsLive(tls, 28, 0)
    <3>1. procs[runner.held].what = "tls"
      BY <2>2, <2>5 DEF HoldsAt
    <3>2. tls \in TlsState /\ tls # None
      BY <2>2, <3>1, Monitors
    <3>3. HeldBack = Suppress - tls.sentAge["rogue"]
      BY <2>2, <2>5, <3>1, <3>2 DEF HeldBack
    <3>4. Suppress \in Nat /\ tls.sentAge["rogue"] \in 0 .. Suppress
      BY <3>2, TypesOfConstants DEF TlsState, Identity
    <3>5. tls.sentAge["rogue"] = Suppress
      BY <2>5, <3>3, <3>4
    <3> QED BY <3>2, <3>5 DEF TlsLive
  <2>6. CASE mode.replay
    BY <1>2, <1>4, <2>6 DEF Awaited
  <2>7. CASE ~mode.replay /\ Place \in {9, 14}
    <3>1. Place' \in {10, 15}
      BY <1>2, <2>7
    <3>2. RfLive(rf', since'.heldBack, Waited(Place', runner'.wait))
      BY <1>3, <2>3, <2>4, <2>7
    <3> QED BY <1>2, <2>7, <3>1, <3>2 DEF Awaited, RfLive, Waited, LastLine
  <2>8. CASE ~mode.replay /\ Place = 27
    <3>1. Place' = 28
      BY <1>2, <2>8
    <3>2. Caught(28)' => TlsLive(tls', 28, Waited(Place', runner'.wait))
      BY <1>3, <2>3, <2>5, <2>8 DEF Caught
    <3> QED BY <1>2, <2>8, <3>1, <3>2 DEF Awaited, TlsLive, Waited, LastLine
  <2> QED BY <1>1, <2>6, <2>7, <2>8
<1> QED BY <1>5, <1>6 DEF MissMade

\* Switching the radios the RF monitor reads.
LEMMA SwitchMiss ==
  ASSUME DemoTypes, ProcsInv, WorkStep, SwitchTo
  PROVE  MissMade
<1>1. Place \in {10, 15} /\ Instruction.op = "switch" /\ "B" \in Instruction.arg
      /\ Instruction.arg \in SUBSET {"A", "B"}
  <2>1. Instruction.op = "switch"
    BY DEF SwitchTo, At
  <2> QED BY <2>1, WorkOps DEF WorkStep, ArgAt
<1>2. /\ mode' = mode /\ Place' = Place + 1 /\ mode.scripted /\ Running
      /\ Work(Place) => WaitOK(Place, runner.wait) /\ (Quiet => Awaited(Place, runner.wait))
  BY DEF WorkStep
<1>3. Place' \in {11, 16} /\ Work(Place)
  BY <1>1, <1>2 DEF Work
<1>4. since' = since /\ tls' = tls /\ file' = file
  BY DEF SwitchTo, aside
<1>7. Novel' = Novel
  BY <1>4 DEF Novel
<1>5. CASE ~mode.replay
  <2>1. runner' = Onwards(0) /\ procs' = procs /\ rf' = rf
    BY <1>5 DEF SwitchTo
  <2>2. runner'.wait = 0 /\ runner'.held = runner.held
    BY <1>1, <2>1, Advance
  <2>3. WaitOK(Place, runner.wait)'
    BY <1>3, <2>2 DEF WaitOK, LastLine
  <2>4. ASSUME Quiet'
        PROVE  Awaited(Place, runner.wait)'
    <3>1. Quiet
      BY <1>4, <2>1, <2>2, <2>4, RunsKept DEF Quiet
    <3>2. Awaited(Place, runner.wait)
      BY <1>2, <1>3, <3>1
    <3>3. Waited(Place, runner.wait) = 0 /\ Waited(Place', runner'.wait) = 0
      BY <1>1, <1>3 DEF Waited, LastLine
    <3>4. Novel => RfLive(rf, since.heldBack, 0)
      BY <1>1, <1>5, <3>2, <3>3 DEF Awaited
    <3>5. Novel => RfLive(rf', since'.heldBack, Waited(Place', runner'.wait))
      BY <1>4, <2>1, <3>3, <3>4
    <3> QED BY <1>2, <1>3, <1>5, <1>7, <3>5 DEF Awaited, RfLive, Waited, LastLine
  <2> QED BY <2>3, <2>4 DEF MissMade
<1>6. CASE mode.replay
  <2>1. /\ procs' = WithRf(Stopped(runner.held)) /\ rf' = FreshRf(Instruction.arg)
        /\ runner' = [Onwards(Settle) EXCEPT !.held = Len(procs) + 1]
    BY <1>6 DEF SwitchTo
  <2>2. Settle \in Nat /\ RfSuppress \in Nat
    BY TypesOfConstants
  <2>3. runner'.held = Len(procs) + 1
    <3>1. Instruction.op # "done" /\ (Instruction.op = "ask" => mode.scripted)
      BY <1>1
    <3> QED BY <2>1, <2>2, <3>1, AdvanceHolding
  <2>4. WaitOK(Place, runner.wait)'
    BY <1>2, <1>3, <1>6 DEF WaitOK, LastLine
  <2>5. ASSUME Quiet'
        PROVE  Awaited(Place, runner.wait)'
    <3>1. procs'[Len(procs) + 1].leader
      BY <2>3, <2>5 DEF Quiet, HeldRuns
    <3>2. /\ mode \in ModeType /\ file \in {None} \cup SUBSET Radios /\ procs \in Seq(ProcessType)
          /\ runner.held \in 0 .. Len(procs)
      BY TypesParts DEF RunnerType
    <3>3. Stopped(runner.held) \in Seq(ProcessType) /\ Len(Stopped(runner.held)) = Len(procs)
      BY <3>2, StoppedEnds DEF Ends
    <3>4. procs'[Len(procs) + 1] = NewRf
      BY <2>1, <3>2, <3>3, WithRfJoins DEF Joins
    <3>5. file # None
      BY <3>1, <3>2, <3>4, NewProcesses
    <3>6. rf' = [reads |-> Instruction.arg, due |-> TRUE,
                 sentAge |-> [radio \in Radios |-> RfSuppress]]
      BY <1>6, <2>1, <3>5 DEF FreshRf
    <3>7. rf' \in RfState
      <4>1. [radio \in Radios |-> RfSuppress] \in [Radios -> 0 .. RfSuppress]
        BY <2>2
      <4>2. Instruction.arg \in {None} \cup SUBSET Radios
        BY <1>1 DEF Radios
      <4> QED BY <3>6, <4>1, <4>2 DEF RfState
    <3>8. rf' # None
      BY <3>7, Monitors
    <3>9. RfReplay(rf')
      BY <1>1, <3>6, <3>8 DEF RfReplay, Radios
    <3> QED BY <1>2, <1>3, <1>6, <3>9 DEF Awaited, RfReplay, LastLine
  <2> QED BY <2>4, <2>5 DEF MissMade
<1> QED BY <1>5, <1>6

\* The dwell begins.
LEMMA SleepMiss ==
  ASSUME DemoTypes, WorkStep, Sleep
  PROVE  MissMade
<1>1. /\ mode' = mode /\ Place' = Place + 1 /\ mode.scripted /\ Running
      /\ Work(Place) => WaitOK(Place, runner.wait) /\ (Quiet => Awaited(Place, runner.wait))
  BY DEF WorkStep
<1>2. /\ Instruction.op \in {"sleep", "dwell"} /\ runner' = Onwards(Instruction.arg)
      /\ runner.wait = 0
      /\ since' = since /\ tls' = tls /\ file' = file /\ rf' = rf /\ procs' = procs
  BY DEF Sleep, At, aside
<1>11. (Novel' <=> Novel) /\ \A l : Caught(l)' <=> Caught(l)
  BY <1>2 DEF Novel, Caught
<1>3. Instruction.arg \in Nat
  BY <1>2 DEF WorkStep, ArgAt
<1>4. runner'.wait = Instruction.arg /\ runner'.held = runner.held
  BY <1>2, <1>3, Advance
<1>5. /\ Place \in {11, 16, 28, 29}
      /\ Place = 28 => mode.replay
      /\ Place # 28 => Instruction.arg = AlarmDwell
  <2>1. CASE Instruction.op = "sleep"
    BY <2>1, WorkOps DEF WorkStep
  <2>2. CASE Instruction.op = "dwell"
    <3>1. Place \in {11, 16, 29}
      BY <2>2, WorkOps DEF WorkStep
    <3> QED BY <2>2, <3>1 DEF WorkStep, ArgAt
  <2> QED BY <1>2, <2>1, <2>2
<1>6. Place' \in {12, 17, 29, 30} /\ (Place' = 29 <=> Place = 28) /\ Work(Place)
  BY <1>1, <1>5 DEF Work
<1>7. AlarmDwell \in Nat
  BY TypesOfConstants
<1>8. WaitOK(Place, runner.wait)'
  BY <1>1, <1>4, <1>5, <1>6, <1>7 DEF WaitOK, LastLine
<1>9. Waited(Place, runner.wait) = 0 /\ Waited(Place', runner'.wait) = 0
  BY <1>4, <1>5, <1>6, <1>7 DEF Waited, LastLine
<1>10. ASSUME Quiet'
       PROVE  Awaited(Place, runner.wait)'
  <2>1. Quiet
    BY <1>2, <1>4, <1>10, RunsKept DEF Quiet
  <2>2. Awaited(Place, runner.wait)
    BY <1>1, <1>6, <2>1
  <2>3. ASSUME mode.replay, Place' \in {28, 29, 30}
        PROVE  TlsReplay(tls', 0)
    <3>1. Place \in {28, 29}
      BY <1>1, <1>5, <2>3
    <3>2. TlsReplay(tls, 0)
      BY <1>9, <2>2, <2>3, <3>1 DEF Awaited
    <3> QED BY <1>2, <3>2
  <2>4. ASSUME mode.replay, Place' \in {11, 12, 16, 17}, Novel
        PROVE  RfReplay(rf') /\ runner'.wait = AlarmDwell
    <3>1. Place \in {11, 16}
      BY <1>1, <1>5, <2>4
    <3>2. RfReplay(rf)
      BY <2>2, <2>4, <3>1 DEF Awaited
    <3> QED BY <1>2, <1>4, <1>5, <3>1, <3>2 DEF RfReplay
  <2>5. ASSUME ~mode.replay, Place' \in {28, 29, 30}, Caught(Place')
        PROVE  TlsLive(tls', Place', 0)
    <3>1. Place = 29 /\ Place' = 30
      BY <1>1, <1>5, <2>5
    <3>2. TlsLive(tls, Place, 0)
      BY <1>9, <2>2, <2>5, <3>1 DEF Awaited, Caught
    <3> QED BY <1>2, <3>1, <3>2 DEF TlsLive
  <2>6. ASSUME ~mode.replay, Place' \in {10, 11, 12, 15, 16, 17}, Novel
        PROVE  RfLive(rf', since'.heldBack, 0)
    <3>1. Place \in {11, 16}
      BY <1>1, <1>5, <2>6
    <3>2. RfLive(rf, since.heldBack, 0)
      BY <1>9, <2>2, <2>6, <3>1 DEF Awaited
    <3> QED BY <1>2, <3>2
  <2> QED BY <1>1, <1>9, <1>11, <2>3, <2>4, <2>5, <2>6 DEF Awaited, TlsReplay, RfReplay, TlsLive,
        RfLive, Waited, LastLine
<1> QED BY <1>8, <1>10 DEF MissMade

\* The call to the rogue.
LEMMA CallMiss ==
  ASSUME DemoTypes, WorkStep, Call, runner'.pc = runner.pc + 1
  PROVE  MissMade
<1>1. /\ mode' = mode /\ Place' = Place + 1 /\ mode.scripted /\ Running
      /\ Work(Place) => WaitOK(Place, runner.wait) /\ (Quiet => Awaited(Place, runner.wait))
  BY DEF WorkStep
<1>2. Instruction.op = "call"
  BY DEF Call, At
<1>3. Place = 28 /\ ~mode.replay /\ Place' = 29
  BY <1>1, <1>2, WorkOps DEF WorkStep
<1>4. \E outcome \in {"crashed"} : Exit(outcome) => runner'.pc = runner.pc
  BY ExitTypes
<1>5. runner.pc \in Int
  BY Places
<1>6. /\ \E n \in 0 .. 2 : Calling("rogue", n)
      /\ since' = [since EXCEPT !.between = ~Capturing]
      /\ runner' = Onwards(0) /\ procs' = procs /\ rf' = rf /\ file' = file
  BY <1>4, <1>5 DEF Call
<1>7. runner'.wait = 0 /\ runner'.held = runner.held
  BY <1>2, <1>6, Advance
<1>8. since'.stored = since.stored /\ since'.troubled = since.troubled
      /\ since'.heldBack = since.heldBack /\ since'.between = ~Capturing
  BY <1>6, TypesParts DEF SinceType
<1>9. WaitOK(Place, runner.wait)'
  BY <1>1, <1>3, <1>7 DEF WaitOK, LastLine
<1>10. ASSUME Quiet', Caught(29)'
       PROVE  TlsLive(tls', 29, 0)
  <2>1. Quiet /\ since.heldBack = 0 /\ Capturing
    <3>1. since'.heldBack = 0 /\ ~since'.between
      BY <1>10 DEF Caught
    <3>2. Capturing /\ since.heldBack = 0
      BY <1>8, <3>1
    <3>3. HeldRuns
      BY <1>6, <1>7, <1>10, RunsKept DEF Quiet
    <3>4. ~since.stored /\ ~since.troubled
      BY <1>8, <1>10 DEF Quiet
    <3> QED BY <3>2, <3>3, <3>4 DEF Quiet
  <2>2. tls \in TlsState /\ tls # None /\ tls.left \in 1 .. Window
    BY <2>1, Monitors DEF Capturing
  <2>3. tls' = [tls EXCEPT !.seen = tls.seen \cup {"rogue"}]
    BY <1>6, <2>1 DEF Calling
  <2>4. tls' # None
    <3>1. "rogue" \in Unusual
      BY DEF Unusual
    <3> QED BY <1>6, <2>2, <3>1, CallingOn DEF TlsOn
  <2>5. tls'.left = tls.left /\ "rogue" \in tls'.seen /\ tls'.sentAge = tls.sentAge
    BY <2>2, <2>3 DEF TlsState
  <2>6. tls.sentAge["rogue"] = Suppress
    <3>1. Awaited(28, runner.wait)
      BY <1>1, <1>3, <2>1 DEF Work
    <3>2. Caught(28)
      BY <2>1 DEF Caught
    <3>3. TlsLive(tls, 28, Waited(28, runner.wait))
      BY <1>3, <3>1, <3>2 DEF Awaited
    <3> QED BY <3>3 DEF TlsLive
  <2> QED BY <2>2, <2>4, <2>5, <2>6, TypesOfConstants DEF TlsLive
<1>11. Waited(29, runner'.wait) = 0
  BY DEF Waited, LastLine
<1> QED BY <1>1, <1>3, <1>9, <1>10, <1>11 DEF MissMade, Awaited, TlsLive, Waited, LastLine

\* The recording with the rogue.
LEMMA StartTlsMiss ==
  ASSUME DemoTypes, WorkStep, StartTls
  PROVE  MissMade
<1>1. mode' = mode /\ Place' = Place + 1
  BY DEF WorkStep
<1>2. Instruction.op = "start_tls"
  BY Zenon DEF StartTls, At
<1>3. Place = 27 /\ mode.replay /\ Place' = 28
  BY <1>1, <1>2, WorkOps DEF WorkStep
<1>4. "rogue" \in Instruction.arg /\ Instruction.arg \in SUBSET Traffic
  BY <1>2, <1>3 DEF WorkStep, ArgAt
<1>5. /\ tls' \in TlsState /\ tls'.reads = Instruction.arg
      /\ tls'.sentAge["rogue"] = Suppress /\ tls'.left = Window
  BY <1>3, <1>4, StartedTls
<1>7. tls' # None
  BY <1>5, TlsStateMade
<1>8. Waited(28, runner'.wait) = 0
  BY DEF Waited, LastLine
<1>9. TlsReplay(tls', Waited(28, runner'.wait))
  BY <1>4, <1>5, <1>7, <1>8, TypesOfConstants DEF TlsReplay
<1>10. WaitOK(Place, runner.wait)'
  BY <1>1, <1>3 DEF WaitOK, LastLine
<1> QED BY <1>1, <1>3, <1>9, <1>10 DEF MissMade, Awaited, TlsReplay, Waited, LastLine

\* Every step keeps the invariant.
LEMMA StepMiss ==
  ASSUME DemoTypes, ProcsInv, AirInv, FileInv, CountInv, MissInv, [Next]_vars
  PROVE  MissInv'
<1> SUFFICES ASSUME mode.scripted, Running', Work(Place)'
             PROVE  MissMade
  <2>1. mode' = mode
    BY SameMode
  <2> QED BY <2>1 DEF MissInv, MissMade
<1>1. mode' = mode
  BY SameMode
<1>2. CASE runner'.pc = runner.pc
  <2>1. Elsewhere
    <3>1. runner.pc \in Int
      BY Places
    <3> QED BY <1>2, <3>1, RunnerStep
  <2> QED BY <1>2, <2>1, MissElsewhere DEF MissMade
<1>3. CASE runner'.pc = runner.pc + 1 /\ Execute /\ Instruction.op \in Ops
           /\ runner'.outcome = runner.outcome
  <2>1. Place' = Place + 1
    BY <1>1, <1>3, PlaceNext
  <2>2. Running
    BY <1>3 DEF Running
  <2>3. Work(Place + 1)
    BY <2>1 DEF Work
  <2>4. OpAt(Instruction.op, Place) /\ ArgAt(Instruction.op, Instruction.arg, Place)
        /\ Place \in -3 .. 32
    BY Where DEF DemoTypes
  <2>5. WorkStep
    BY <1>1, <2>1, <2>2, <2>3, <2>4 DEF WorkStep, MissInv
  <2>6. Instruction.op \notin {"dashboard", "try", "preflight", "ask", "baseline", "start_rf",
                               "judge", "traffic", "stop", "done"}
    BY <2>3, <2>4, WorkOps
  <2>7. Count \/ SwitchTo \/ Sleep \/ Call \/ StartTls
    BY <1>3, <2>6 DEF Execute, StartDashboard, EnterTry, Preflight, Return, Baseline, StartRf,
       Judge, StartTraffic, StopMonitor, Done, At
  <2> QED BY <1>3, <2>5, <2>7, CountMiss, SwitchMiss, SleepMiss, CallMiss, StartTlsMiss
<1> QED BY <1>2, <1>3, RunnerStep

\* A verdict over an alarm that did not come.
LEMMA JudgeMissed ==
  ASSUME DemoTypes, ProcsInv, CountInv, MissInv, Judge
  PROVE  OnlyTheseMisses'
<1>1. /\ mode.scripted /\ Running /\ Instruction.op = "judge" /\ runner.wait = 0
  BY ByHandOps DEF Judge, At
<1>2. /\ OpAt("judge", Place) /\ Place \in -3 .. 32 /\ ArgAt("judge", Instruction.arg, Place)
  BY <1>1, Where DEF DemoTypes
<1>3. /\ verdict'.passed = CheckStep(IF HeldRuns THEN 0 ELSE 1, runner.before, AlertCount, Instruction.arg)
      /\ verdict'.expect = Instruction.arg /\ verdict'.ran = HeldRuns
      /\ verdict'.full = (runner.before = Retained) /\ verdict'.stored = since.stored
      /\ verdict'.troubled = (since.troubled \/ ~dash.up)
      /\ verdict'.heldBack = since.heldBack /\ verdict'.what = procs[runner.held].what
      /\ verdict'.unseen = Unseen
  BY DEF Judge
<1>4. SUFFICES ASSUME Instruction.arg,
                      ~CheckStep(IF HeldRuns THEN 0 ELSE 1, runner.before, AlertCount, Instruction.arg),
                      ~since.troubled, dash.up, HeldRuns, runner.before # Retained, ~Unseen
               PROVE  since.heldBack >= IF procs[runner.held].what = "rf" THEN AlarmDwell ELSE 1
  BY <1>3 DEF OnlyTheseMisses
<1>5. Place \in {12, 17, 30}
  BY <1>2, <1>4 DEF ArgAt
<1>6. /\ runner.before \in -1 .. Retained /\ dash.alerts \in 0 .. Retained /\ Retained \in Nat
      /\ since.heldBack \in Nat /\ AlarmDwell \in Nat /\ Window \in Nat /\ AlarmDwell > 1
      /\ Gap \in Nat /\ AlarmDwell > Window + Gap
  BY TypesParts, TypesOfConstants DEF RunnerType, TlsTypeOK, SinceType
<1>7. ~since.stored
  <2>1. CountOK
    BY <1>1, <1>5 DEF CountInv, CountedPlace
  <2>2. SUFFICES ASSUME since.stored PROVE FALSE
    OBVIOUS
  <2>3. runner.before \in 0 .. dash.alerts /\ runner.before < dash.alerts
    BY <1>4, <1>6, <2>1, <2>2 DEF CountOK
  <2>4. AlertCount = dash.alerts
    BY <1>4 DEF AlertCount
  <2> QED BY <1>4, <1>6, <2>3, <2>4 DEF CheckStep
<1>8. Awaited(Place, 0) /\ Waited(Place, 0) = AlarmDwell
  <2>1. Quiet
    BY <1>4, <1>7 DEF Quiet
  <2>2. Awaited(Place, runner.wait)
    BY <1>1, <1>5, <2>1 DEF MissInv, Work
  <2>3. Waited(Place, 0) = AlarmDwell
    BY <1>5, <1>6 DEF Waited, LastLine
  <2> QED BY <1>1, <2>2, <2>3
<1>9. HoldsAt(procs[runner.held].what, Place)
  BY <1>1, <1>4, HeldWorks
<1>12. runner.held # 0
  BY <1>4 DEF HeldRuns
<1>10. CASE Place \in {12, 17}
  <2>1. procs[runner.held].what = "rf"
    BY <1>9, <1>10 DEF HoldsAt
  <2>4. Novel
    BY <1>4, <1>12, <2>1 DEF Unseen, Novel
  <2>2. ~mode.replay
    BY <1>6, <1>8, <1>10, <2>4 DEF Awaited, LastLine
  <2>3. RfLive(rf, since.heldBack, AlarmDwell)
    BY <1>8, <1>10, <2>2, <2>4 DEF Awaited
  <2> QED BY <1>6, <2>1, <2>3 DEF RfLive
<1>11. CASE Place = 30
  <2>1. procs[runner.held].what # "rf"
    BY <1>9, <1>11 DEF HoldsAt
  <2>2. since.heldBack # 0
    <3>1. SUFFICES ASSUME since.heldBack = 0 PROVE FALSE
      OBVIOUS
    <3>2. tls # None /\ tls.left <= Window - AlarmDwell
      <4>1. CASE mode.replay
        <5>1. TlsReplay(tls, AlarmDwell)
          BY <1>8, <1>11, <4>1 DEF Awaited
        <5> QED BY <5>1 DEF TlsReplay
      <4>2. CASE ~mode.replay
        <5>1. ~since.between
          BY <1>4, <1>12, <2>1 DEF Unseen
        <5>2. TlsLive(tls, 30, AlarmDwell)
          BY <1>8, <1>11, <3>1, <4>2, <5>1 DEF Awaited, Caught
        <5> QED BY <5>2 DEF TlsLive
      <4> QED BY <4>1, <4>2
    <3>3. tls.left \in -Gap .. Window + Gap
      BY <3>2, Monitors DEF TlsState
    <3> QED BY <1>6, <3>2, <3>3
  <2> QED BY <1>6, <2>1, <2>2
<1> QED BY <1>5, <1>10, <1>11

\* Every step leaves only such a miss.
LEMMA StepMissed ==
  ASSUME DemoTypes, ProcsInv, CountInv, MissInv, OnlyTheseMisses, [Next]_vars
  PROVE  OnlyTheseMisses'
<1>1. CASE Judge
  BY <1>1, JudgeMissed
<1>2. CASE verdict' = None
  BY <1>2 DEF OnlyTheseMisses
<1>3. CASE verdict' = verdict
  BY <1>3 DEF OnlyTheseMisses
<1>4. Judge \/ verdict' \in {None, verdict}
  BY DEF Next, Execute, StartDashboard, EnterTry, Preflight, Return, Baseline, StartRf,
     SwitchTo, Sleep, Count, StartTraffic, StartTls, Call, StopMonitor, Done, Operate, Interrupt, Tick,
     RfSweep, TlsWindow, Crash, Dashboard, Unscripted, Faulty, aside, vars
<1> QED BY <1>1, <1>2, <1>3, <1>4

----------------------------------------------------------------------------
(* The theorems *)

\* The inductive invariant, on top of that of DemoRunProofs.
VerdictInv ==
  /\ DemoInv
  /\ CountInv /\ VerdictsAreRight
  /\ AirInv /\ FileInv /\ MissInv /\ OnlyTheseMisses

\* It holds at the start.
LEMMA InitVerdictInv == Init => VerdictInv
<1> SUFFICES ASSUME Init PROVE VerdictInv
  OBVIOUS
<1>1. verdict = None /\ runner.pc = 1 /\ rf = None
  BY DEF Init
<1>2. Place <= 0 /\ Place \in Int
  <2>1. Lead \in 1 .. 4
    BY OpeningLines
  <2>2. Place = 1 - Lead
    BY <1>1 DEF Place
  <2> QED BY <2>1, <2>2
<1>3. VerdictsAreRight /\ OnlyTheseMisses
  BY <1>1 DEF VerdictsAreRight, OnlyTheseMisses
<1>4. ~CountedPlace(Place) /\ ~Work(Place) /\ Place \notin 9 .. 18
  BY <1>2 DEF CountedPlace, Work
<1>5. CountInv /\ AirInv /\ FileInv /\ MissInv
  BY <1>1, <1>4 DEF CountInv, AirInv, FileInv, MissInv
<1> QED BY <1>3, <1>5, InitInv DEF VerdictInv

\* Every step keeps it.
LEMMA NextVerdictInv == VerdictInv /\ [Next]_vars => VerdictInv'
<1> SUFFICES ASSUME VerdictInv, [Next]_vars PROVE VerdictInv'
  OBVIOUS
<1>1. /\ DemoInv /\ DemoTypes /\ ProcsInv
      /\ CountInv /\ VerdictsAreRight /\ AirInv /\ FileInv /\ MissInv
      /\ OnlyTheseMisses
  BY DEF VerdictInv, DemoInv
<1>2. DemoInv'
  BY <1>1, NextInv
<1>3. CountInv' /\ VerdictsAreRight'
  BY <1>1, StepCount, StepVerdicts
<1>4. AirInv' /\ FileInv' /\ MissInv' /\ OnlyTheseMisses'
  BY <1>1, StepAir, StepFile, StepMiss, StepMissed
<1> QED BY <1>2, <1>3, <1>4 DEF VerdictInv

\* So it always holds.
LEMMA VerdictInvariance == Spec => []VerdictInv
  BY InitVerdictInv, NextVerdictInv, PTL DEF Spec

\* A step passes only over what happened in it (check_step and alert_count,
\* demo/run_demo.py:106-150).
THEOREM RightVerdicts == Spec => []VerdictsAreRight
<1>1. VerdictInv => VerdictsAreRight
  BY DEF VerdictInv
<1> QED BY <1>1, VerdictInvariance, PTL

\* An alarm that is awaited comes, unless the alert is held back, the radio was
\* on the air during the baseline or is in an older file, or the call was made
\* between two captures: for any length of a dwell that is longer than a window
\* and the longest gap after it, and for any number of faults
\* (demo/run_demo.py:508-512, 536-539, 600-612; demo/tls_monitor.py:87-94, 272-302).
THEOREM NoOtherMisses == Spec => []OnlyTheseMisses
<1>1. VerdictInv => OnlyTheseMisses
  BY DEF VerdictInv
<1> QED BY <1>1, VerdictInvariance, PTL

=============================================================================
