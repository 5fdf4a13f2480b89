------------------------------ MODULE DemoRun ------------------------------
(***************************************************************************)
(* The program that drives the demo (demo/run_demo.py): it asks an         *)
(* operator to switch radios, starts and stops the monitors, waits, and    *)
(* judges each step by the number of alerts the dashboard holds before and *)
(* after it.                                                               *)
(*                                                                         *)
(* The program is a script of instructions and pc the next of them; what   *)
(* it calls is an operator below.  Around it run the monitors, which do    *)
(* their work as time passes, and the operator, who may break off at any   *)
(* point.  A handful of faults may happen, at most MaxFaults in a run.     *)
(***************************************************************************)
EXTENDS TlsMonitor

CONSTANTS
  RfSuppress,    \* ALERT_REPEAT_SUPPRESSION_S of demo/rf_monitor.py
  BaselineTime,  \* the time BASELINE_SWEEPS take
  Settle,        \* the sleeps of two and three seconds
  CaptureSettle, \* the sleeps after a network monitor is started
  QuietDwell, AlarmDwell,
  MaxCalls,      \* bound: unusual sessions when nothing is scripted
  MaxFaults      \* bound: faults in one run

ASSUME DemoAssumption ==
  {RfSuppress, BaselineTime, Settle, CaptureSettle, QuietDwell, AlarmDwell, MaxCalls, MaxFaults}
    \subseteq Nat

\* While the program waits for an alarm, a sweep is over, and a window with
\* what comes after it.
ASSUME DwellAssumption == AlarmDwell > 1 /\ AlarmDwell > Window + Gap

VARIABLES
  mode,     \* how the program was started; constant
  runner,   \* the program's own state
  air,      \* the radios that are on
  rf,       \* the RF monitor's state, or None when none runs
  file,     \* the radios in the baseline file, or None when there is no file
  procs,    \* background_processes
  since,    \* history: what happened since the last count of the alerts
  verdict,  \* history: a verdict just given, and what happened in its step; None
            \* once time passes
  spent     \* faults and unscripted calls so far

vars == <<monitorVars, mode, runner, air, rf, file, procs, since, verdict, spent>>

----------------------------------------------------------------------------
(* The script *)

Do(op, arg) == [op |-> op, arg |-> arg]

\* main(), up to the two acts: the cleanup is only promised from "try" on.
Opening ==
  (IF mode.dashboard THEN <<Do("dashboard", None), Do("sleep", Settle)>> ELSE <<>>)
    \o <<Do("try", None)>>
    \o (IF mode.preflight THEN <<Do("preflight", None)>> ELSE <<>>)

ActOne ==
  <<Do("ask", {"A"}), Do("baseline", None),
    Do("start_rf", {"A"}), Do("sleep", Settle),
    Do("count", None), Do("dwell", QuietDwell), Do("judge", FALSE),
    Do("ask", {"A", "B"}), Do("count", None), Do("switch", {"A", "B"}),
    Do("dwell", AlarmDwell), Do("judge", TRUE),
    Do("ask", {"B"}), Do("count", None), Do("switch", {"B"}),
    Do("dwell", AlarmDwell), Do("judge", TRUE),
    Do("stop", None)>>

ActTwo ==
  IF mode.replay
    THEN <<Do("start_tls", {"cloud"}), Do("sleep", CaptureSettle),
           Do("count", None), Do("dwell", QuietDwell), Do("judge", FALSE),
           Do("ask", {}), Do("count", None),
           Do("stop", None), Do("start_tls", {"cloud", "rogue"}), Do("sleep", CaptureSettle),
           Do("dwell", AlarmDwell), Do("judge", TRUE),
           Do("stop", None)>>
    ELSE <<Do("traffic", None), Do("sleep", Settle),
           Do("start_tls", {"cloud"}), Do("sleep", CaptureSettle),
           Do("count", None), Do("dwell", QuietDwell), Do("judge", FALSE),
           Do("ask", {}), Do("count", None), Do("call", None),
           Do("dwell", AlarmDwell), Do("judge", TRUE),
           Do("stop", None)>>

\* By hand: only the network monitor, in a terminal of its own, and an
\* inverter that calls what it likes.
ByHand == <<Do("start_tls", {"cloud"}), Do("ask", {})>>

Script == IF mode.scripted THEN Opening \o ActOne \o ActTwo \o <<Do("done", None)>>
                           ELSE ByHand

Instruction == Script[runner.pc]

Running == runner.outcome = "running"

\* The program is about to do op; sleeps and dwells have passed.
At(op) == Running /\ runner.wait = 0 /\ Instruction.op = op

Onwards(wait) == [runner EXCEPT !.pc = @ + 1, !.wait = wait]

\* How long the instruction at i takes before it has an effect.
Takes(i) == IF Script[i].op = "baseline" THEN BaselineTime ELSE 0

\* Is the try of main() entered.
Guarded == \E i \in 1 .. runner.pc - 1 : Script[i].op = "try"

----------------------------------------------------------------------------
(* Processes *)

\* sudo: the process is a sudo of another user, and the monitor its child;
\* else the child, if any, is the tool that captures or sweeps for it.
\* fell, as history: the leader has died by itself.
Process(what) ==
  [what   |-> what,
   fell   |-> FALSE,
   leader |-> TRUE,
   child  |-> ~mode.replay /\ what \in {"rf", "tls"},
   sudo   |-> ~mode.replay /\ ~mode.root /\ what = "tls"]

Alive(p) == p.leader \/ p.child

\* The part that analyses and posts.
Working(p) == IF p.sudo THEN p.child ELSE p.leader

Works(what, ps) == \E i \in DOMAIN ps : ps[i].what = what /\ Working(ps[i])

\* Nobody but root may signal a sudo: killpg and terminate both raise.
MaySignal(p) == ~(p.leader /\ p.sudo)

\* Mutant: terminate the process, not its group.
KillLeader(p) == [p EXCEPT !.leader = FALSE]

KillGroup(p) ==
  IF ~p.leader THEN p ELSE [p EXCEPT !.leader = FALSE, !.child = FALSE]

\* cleanup(): one after the other, until one raises.
Cleanup(ps) ==
  [i \in DOMAIN ps |-> IF \E j \in 1 .. i : ~MaySignal(ps[j]) THEN ps[i] ELSE KillGroup(ps[i])]

\* The monitors whose process is gone from ps are gone.
Reap(ps) ==
  /\ procs' = ps
  /\ rf' = IF Works("rf", ps) THEN rf ELSE None
  /\ tls' = IF Works("tls", ps) THEN tls ELSE None

Exit(outcome) ==
  /\ Reap(IF Guarded THEN Cleanup(procs) ELSE procs)
  /\ runner' = [runner EXCEPT !.outcome = outcome, !.wait = 0]

\* MonitorHandle.running()
HeldRuns == runner.held # 0 /\ procs[runner.held].leader

\* Mutant: the handle lets go of a process that runs.
StoppedNot(held) == procs

\* MonitorHandle.stop()
Stopped(held) ==
  IF held = 0 THEN procs ELSE [procs EXCEPT ![held] = KillGroup(@)]

MayStop == runner.held = 0 \/ MaySignal(procs[runner.held])

\* What the instructions below that only concern processes leave alone.
aside == <<wire, dash, screen, mode, air, file, verdict, spent>>

StartDashboard ==
  /\ At("dashboard")
  /\ procs' = Append(procs, Process("dashboard"))
  /\ dash' = [dash EXCEPT !.alerts = 0]
  /\ runner' = Onwards(0)
  /\ UNCHANGED <<tls, wire, screen, called, mode, air, rf, file, since, verdict, spent>>

StartTraffic ==
  /\ At("traffic")
  /\ procs' = Append(procs, Process("traffic"))
  /\ runner' = Onwards(0)
  /\ UNCHANGED <<tls, called, rf, since, aside>>

Radios == {"A", "B"}

\* A fresh RF monitor, which has no memory of what it sent; without a
\* baseline file it returns at once.
FreshRf(reads) ==
  IF file = None THEN None
  ELSE [reads |-> IF mode.replay THEN reads ELSE None,
        due |-> TRUE, sentAge |-> [radio \in Radios |-> RfSuppress]]

WithRf(ps) ==
  Append(ps, IF file # None THEN Process("rf")
             ELSE [Process("rf") EXCEPT !.leader = FALSE, !.child = FALSE])

StartRf ==
  /\ At("start_rf")
  /\ procs' = WithRf(procs)
  /\ rf' = FreshRf(Instruction.arg)
  /\ runner' = [Onwards(0) EXCEPT !.held = Len(procs) + 1]
  /\ UNCHANGED <<tls, called, since, aside>>

\* MonitorHandle.switch_to(): a recording cannot be switched, so the monitor
\* is replaced; a live one goes on.
SwitchTo ==
  /\ At("switch")
  /\ IF mode.replay
       THEN /\ procs' = WithRf(Stopped(runner.held))
            /\ rf' = FreshRf(Instruction.arg)
            /\ runner' = [Onwards(Settle) EXCEPT !.held = Len(procs) + 1]
       ELSE /\ runner' = Onwards(0)
            /\ UNCHANGED <<procs, rf>>
  /\ UNCHANGED <<tls, called, since, aside>>

StartTls ==
  /\ At("start_tls")
  /\ procs' = Append(procs, Process("tls"))
  /\ LET reads == IF mode.replay THEN Instruction.arg ELSE None
     IN  \E late \in Late(reads, Gap) : tls' = Started(reads, late)
  /\ called' = Kept + 1
  /\ runner' = [Onwards(0) EXCEPT !.held = Len(procs) + 1]
  /\ UNCHANGED <<rf, since, aside>>

StopMonitor ==
  /\ At("stop")
  /\ IF MayStop
       THEN /\ Reap(Stopped(runner.held))
            /\ runner' = [Onwards(0) EXCEPT !.held = 0]
       ELSE Exit("crashed")
  /\ UNCHANGED <<called, since, aside>>

----------------------------------------------------------------------------
(* The rest of the instructions *)

\* instruct(): the operator does as asked, in his own time, and presses
\* Return; a recording needs no radios.
Operate ==
  /\ At("ask") /\ ~mode.replay /\ mode.scripted
  /\ air # Instruction.arg
  /\ Instruction.arg # {}
  /\ air' = Instruction.arg
  /\ UNCHANGED <<monitorVars, mode, runner, rf, file, procs, since, verdict, spent>>

Return ==
  /\ At("ask") /\ mode.scripted
  /\ mode.replay \/ Instruction.arg \in {air, {}}
  /\ runner' = Onwards(Takes(runner.pc + 1))
  /\ UNCHANGED <<tls, called, rf, procs, since, aside>>

EnterTry ==
  /\ At("try")
  /\ runner' = Onwards(0)
  /\ UNCHANGED <<tls, called, rf, procs, since, aside>>

\* preflight(): the dashboard must answer, and so must the other things it
\* looks for, which are outside.
Preflight ==
  /\ At("preflight")
  /\ \/ /\ dash.up
        /\ runner' = Onwards(0)
        /\ UNCHANGED <<procs, rf, tls>>
     \/ Exit("failed")
  /\ UNCHANGED <<called, since, aside>>

\* What the sweeps of a baseline may have found: the recording has A alone, and
\* a radio that came on during them is in enough of them or is not.
Learned == IF mode.replay THEN {{"A"}} ELSE {{"A"}, air}

\* What a run of the program on another day may have left in the file.
Earlier == {{"A"}, {"A", "B"}}

\* The baseline is run in the foreground, and act one goes on without it; the
\* file is written after the last sweep.
Baseline ==
  /\ At("baseline")
  /\ file' \in Learned \cup {file}
  /\ runner' = Onwards(0)
  /\ UNCHANGED <<monitorVars, mode, air, rf, procs, since, verdict, spent>>

Sleep ==
  /\ \E op \in {"sleep", "dwell"} : At(op)
  /\ runner' = Onwards(Instruction.arg)
  /\ UNCHANGED <<tls, called, rf, procs, since, aside>>

\* alert_count()
AlertCount == IF dash.up THEN dash.alerts ELSE -1

\* How long the alert the step waits for will still be held back.
HeldBack ==
  CASE runner.held = 0 -> 0
    [] procs[runner.held].what = "rf" /\ rf # None /\ ~mode.replay ->
         RfSuppress - rf.sentAge["B"]
    [] procs[runner.held].what = "tls" /\ tls # None /\ ~mode.replay ->
         Suppress - tls.sentAge["rogue"]
    [] OTHER -> 0

Untroubled == [stored |-> FALSE, troubled |-> FALSE, heldBack |-> 0, between |-> FALSE]

\* What makes the alert impossible: the radio is in the baseline, or the call
\* was made while nothing was captured.
Unseen ==
  CASE runner.held = 0 -> FALSE
    [] procs[runner.held].what = "rf" -> file # None /\ "B" \in file
    [] OTHER -> since.between

Count ==
  /\ At("count")
  /\ runner' = [Onwards(0) EXCEPT !.before = AlertCount]
  /\ since' = [Untroubled EXCEPT !.heldBack = HeldBack, !.troubled = ~dash.up]
  /\ verdict' = None
  /\ UNCHANGED <<monitorVars, mode, air, rf, file, procs, spent>>

\* Mutant: an unreachable dashboard is not told from an empty one.
CheckStepUnreachable(exit, before, after, expect) ==
  /\ exit = 0
  /\ IF expect THEN after - before > 0 ELSE after = before

CheckStep(exit, before, after, expect) ==
  /\ exit = 0
  /\ before >= 0 /\ after >= 0
  /\ IF expect THEN after - before > 0 ELSE after = before

Judge ==
  /\ At("judge")
  /\ LET exit == IF HeldRuns THEN 0 ELSE 1
     IN  verdict' = [expect   |-> Instruction.arg,
                     passed   |-> CheckStep(exit, runner.before, AlertCount, Instruction.arg),
                     what     |-> procs[runner.held].what,
                     ran      |-> HeldRuns,
                     full     |-> runner.before = Retained,
                     stored   |-> since.stored,
                     troubled |-> since.troubled \/ ~dash.up,
                     heldBack |-> since.heldBack,
                     unseen   |-> Unseen]
  /\ runner' = [Onwards(0) EXCEPT !.before = 0]
  /\ since' = Untroubled
  /\ UNCHANGED <<monitorVars, mode, air, rf, file, procs, spent>>

\* The call to the rogue, a second or a few of them long.  Without a preflight
\* and without --rogue its address is not known, and run() cannot print the
\* command.
Call ==
  /\ At("call")
  /\ \/ /\ \E n \in 0 .. 2 : Calling("rogue", n)
        /\ since' = [since EXCEPT !.between = ~Capturing]
        /\ runner' = Onwards(0)
        /\ UNCHANGED <<procs, rf>>
     \/ ~mode.preflight /\ Exit("crashed") /\ UNCHANGED <<wire, since>>
  /\ UNCHANGED <<dash, screen, called, mode, air, file, verdict, spent>>

Done ==
  /\ At("done")
  /\ Exit("done")
  /\ UNCHANGED <<called, since, aside>>

\* Ctrl-C, or the end of the input: in a pause, a sleep or a dwell.
Interrupt ==
  /\ Running /\ mode.scripted
  /\ runner.wait > 0 \/ Instruction.op = "ask"
  /\ Exit("interrupted")
  /\ UNCHANGED <<called, since, aside>>

----------------------------------------------------------------------------
(* The monitors and the passing of time *)

\* A sweep of the RF monitor, which has read the baseline file when it was
\* started; lost says that its calls fail.
RfSweep(lost) ==
  LET view    == IF rf.reads # None THEN rf.reads ELSE air
      sending == {radio \in view \ file : ~IsSuppressed(rf.sentAge[radio], RfSuppress)}
      stored  == sending # {} /\ dash.up /\ ~lost
  IN  /\ rf # None /\ rf.due
      /\ rf' = [rf EXCEPT !.due = FALSE,
                  !.sentAge = [radio \in Radios |-> IF radio \in sending THEN 0 ELSE @[radio]]]
      /\ dash' = IF stored THEN Stored(Cardinality(sending)) ELSE dash
      /\ since' = [since EXCEPT !.stored = @ \/ stored, !.troubled = @ \/ lost]
      /\ UNCHANGED <<tls, wire, screen, called, mode, runner, air, file, procs, verdict>>

TlsWindow(captured, lost) ==
  /\ \E late \in 0 .. Gap : WindowDone(captured, lost, late)
  /\ since' = [since EXCEPT
       !.stored   = @ \/ (dash.up /\ ~lost /\ tls'.sentAge # tls.sentAge),
       !.troubled = @ \/ lost \/ ~captured]
  /\ UNCHANGED <<mode, runner, air, rf, file, procs, verdict>>

\* Time passes while the program waits, for a sleep or for the operator.
Tick ==
  /\ Running
  /\ runner.wait > 0 \/ Instruction.op = "ask"
  /\ rf # None => ~rf.due
  /\ TlsTick(~mode.scripted \/ Works("traffic", procs))
  /\ rf' = IF rf = None THEN None
           ELSE [rf EXCEPT !.due = TRUE,
                   !.sentAge = [radio \in Radios |-> Least(@[radio] + 1, RfSuppress)]]
  /\ runner' = [runner EXCEPT !.wait = IF @ > 0 THEN @ - 1 ELSE 0]
  /\ verdict' = None
  /\ UNCHANGED <<mode, air, file, procs, since, spent>>

----------------------------------------------------------------------------
(* Faults *)

Fault == /\ Running /\ spent.faults < MaxFaults
         /\ spent' = [spent EXCEPT !.faults = @ + 1]

Trouble == since' = [since EXCEPT !.troubled = TRUE]

\* The monitor's leader dies by itself, and may leave its child.
Crash ==
  /\ Fault /\ Trouble /\ mode.scripted
  /\ \E i \in DOMAIN procs, left \in BOOLEAN :
       /\ procs[i].leader /\ procs[i].what \in {"rf", "tls"}
       /\ left => procs[i].child
       /\ Reap([procs EXCEPT ![i].leader = FALSE, ![i].child = left, ![i].fell = TRUE])
  /\ UNCHANGED <<wire, dash, screen, called, mode, runner, air, file, verdict>>

\* The dashboard is cut off, comes back, or is started anew and empty.
Dashboard ==
  /\ \/ Fault /\ dash' = [dash EXCEPT !.up = FALSE]
     \/ Fault /\ dash' = [dash EXCEPT !.alerts = 0]
     \/ Running /\ ~dash.up /\ dash' = [dash EXCEPT !.up = TRUE] /\ UNCHANGED spent
  /\ mode.scripted
  /\ Trouble
  /\ UNCHANGED <<tls, wire, screen, called, mode, runner, air, rf, file, procs, verdict>>

\* A rogue that is not in the script: the second radio, or a call.
Unscripted ==
  /\ ~mode.replay
  /\ \/ /\ Fault /\ mode.scripted
        /\ air' = air \cup {"B"} /\ air' # air /\ UNCHANGED <<wire, tls>>
     \/ /\ Fault /\ mode.scripted /\ tls # None
        /\ \E n \in 0 .. 1 : Calling("rogue", n)
        /\ UNCHANGED air
     \/ /\ ~mode.scripted /\ tls # None /\ spent.calls < MaxCalls
        /\ \E k \in Unusual, n \in 0 .. 2 : Calling(k, n)
        /\ spent' = [spent EXCEPT !.calls = @ + 1]
        /\ UNCHANGED air
  /\ UNCHANGED <<dash, screen, called, mode, runner, rf, file, procs, since, verdict>>

\* A lost call to the dashboard, and a window without a packet file.
Faulty ==
  \/ Fault /\ RfSweep(TRUE)
  \/ Fault /\ TlsWindow(TRUE, TRUE)
  \/ Fault /\ TlsWindow(FALSE, FALSE)

----------------------------------------------------------------------------

Init ==
  /\ TlsInit
  /\ mode \in {m \in [scripted : BOOLEAN, replay : BOOLEAN, root : BOOLEAN,
                      dashboard : BOOLEAN, preflight : BOOLEAN] :
                 /\ m.replay => m.root /\ m.scripted
                 /\ ~m.scripted => m.root /\ m.preflight /\ ~m.dashboard}
  /\ runner = [pc |-> 1, wait |-> 0, held |-> 0, before |-> 0, outcome |-> "running"]
  /\ air = {} /\ rf = None
  /\ file \in IF mode.scripted THEN {None} \cup Earlier ELSE {None}
  /\ procs = <<>>
  /\ since = Untroubled
  /\ verdict = None
  /\ spent = [faults |-> 0, calls |-> 0]

Execute ==
  \/ StartDashboard \/ EnterTry \/ Preflight \/ Return \/ Baseline \/ StartRf \/ SwitchTo
  \/ Sleep \/ Count \/ Judge \/ StartTraffic \/ StartTls \/ Call \/ StopMonitor \/ Done

Next ==
  \/ Execute
  \/ Operate
  \/ Interrupt
  \/ Tick
  \/ RfSweep(FALSE) /\ UNCHANGED spent
  \/ TlsWindow(TRUE, FALSE) /\ UNCHANGED spent
  \/ Crash
  \/ Dashboard
  \/ Unscripted
  \/ Faulty

Spec == Init /\ [][Next]_vars

----------------------------------------------------------------------------
(* Properties *)

RfState == [reads : {None} \cup SUBSET Radios, due : BOOLEAN,
            sentAge : [Radios -> 0 .. RfSuppress]]

ASSUME RfNoneAssumption ==
  None \notin RfState /\ \A radios \in SUBSET Radios : radios # None

ProcessType == [what : {"dashboard", "traffic", "rf", "tls"}, fell : BOOLEAN,
                leader : BOOLEAN, child : BOOLEAN, sudo : BOOLEAN]

DemoTypes ==
  /\ TlsTypeOK
  /\ mode \in [scripted : BOOLEAN, replay : BOOLEAN, root : BOOLEAN,
               dashboard : BOOLEAN, preflight : BOOLEAN]
  /\ runner \in [pc : 1 .. Len(Script), wait : Nat, held : 0 .. Len(procs),
                 before : -1 .. Retained,
                 outcome : {"running", "done", "failed", "interrupted", "crashed"}]
  /\ air \in SUBSET Radios
  /\ rf \in {None} \cup RfState
  /\ file \in {None} \cup SUBSET Radios
  /\ procs \in Seq(ProcessType)
  /\ since \in [stored : BOOLEAN, troubled : BOOLEAN, heldBack : Nat, between : BOOLEAN]
  /\ spent \in [faults : 0 .. MaxFaults, calls : 0 .. MaxCalls]

\* A monitor has a state as long as its process works.
StatesOfProcesses ==
  /\ rf # None <=> Works("rf", procs)
  /\ tls # None <=> Works("tls", procs)

DemoTypeOK == DemoTypes /\ StatesOfProcesses

\* A verdict says what happened: a step that should alert passes only when an
\* alert was stored within it, and one that should be silent only when none
\* was, unless the list of alerts was full before it or was emptied; and
\* neither passes over a monitor that has ended (check_step and alert_count,
\* demo/run_demo.py:106-150).
VerdictsAreRight ==
  verdict # None /\ verdict.passed =>
    /\ verdict.ran
    /\ verdict.expect => verdict.stored
    /\ ~verdict.expect /\ verdict.stored => verdict.full \/ verdict.troubled

\* A step that should alert, in which every call is answered and the monitor
\* runs throughout, and whose count the list of alerts can show, fails for one
\* of three reasons only.  The same alert was sent before the count and is held
\* back until the dwell is over: for the radios the dwell is shorter than the
\* time an alert is held back, for the network a call is reported within the
\* dwell.  Or radio B was on the air during the baseline, or is in the file of
\* an earlier one, and counts as authorised.  Or the call was made between two
\* captures
\* (demo/run_demo.py:508-512, 536-539, 600-612; demo/tls_monitor.py:87-94 and
\* 272-302; is_suppressed, sinks/webhook.py:93-107).
OnlyTheseMisses ==
  verdict # None /\ verdict.expect /\ ~verdict.passed
    /\ ~verdict.troubled /\ verdict.ran /\ ~verdict.full =>
      \/ verdict.heldBack >= (IF verdict.what = "rf" THEN AlarmDwell ELSE 1)
      \/ verdict.unseen

\* When the program is over, what it started is over too, but for: what a
\* Ctrl-C before the try leaves, a child whose leader had died before, and a
\* sudo that it may not signal, with whatever was started after it; never a
\* child of a leader that was ended
\* (_kill_group, cleanup, main: demo/run_demo.py:215-240, 649-680).
OnlyTheseSurvive ==
  ~Running /\ Guarded =>
    \A i \in DOMAIN procs : Alive(procs[i]) =>
      \/ procs[i].fell
      \/ \E j \in 1 .. i : procs[j].leader /\ procs[j].sudo

\* The script never runs two monitors of one layer at once, and never lets
\* go of one that runs (switch_to, stop and the comment at
\* demo/run_demo.py:514-515).
OneMonitor ==
  /\ \A i, j \in DOMAIN procs :
       i # j /\ procs[i].what = procs[j].what => ~(Alive(procs[i]) /\ Alive(procs[j]))
  /\ Running => \A i \in DOMAIN procs :
       procs[i].leader /\ procs[i].what \in {"rf", "tls"} => i = runner.held

=============================================================================
