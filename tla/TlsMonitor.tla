----------------------------- MODULE TlsMonitor -----------------------------
(***************************************************************************)
(* The network monitor (demo/tls_monitor.py) and the dashboard it reports  *)
(* to: capture a window, end the capture, judge its sessions, send a       *)
(* heartbeat with the recent sessions and the findings that are not held   *)
(* back, and only then begin the next capture.  What goes on the wire      *)
(* between two captures is in none.                                        *)
(*                                                                         *)
(* A session is known by the place it was made to, the vendor's cloud or   *)
(* a rogue, and "spike" says that a session to the cloud is far larger     *)
(* than it should be.  How sessions are told from packets is in            *)
(* FlowAssembly and TcpTraffic, how they are judged in Rules, how a call   *)
(* to the dashboard may fail in AlertDelivery.                             *)
(*                                                                         *)
(* Time goes in ticks of four seconds.                                     *)
(***************************************************************************)
EXTENDS Integers, Sequences, FiniteSets

CONSTANTS
  Window,     \* the length of a capture window
  Gap,        \* the longest time from the end of a capture to the next
  Suppress,   \* ALERT_REPEAT_SUPPRESSION_S
  Kept,       \* FLAGGED_SESSION_KEPT_S
  RecentKept, \* RECENT_SESSIONS_KEPT
  Retained,   \* MAX_ALERTS_RETAINED of the dashboard
  None

ASSUME TlsAssumption ==
  /\ {Window, Gap, Kept, RecentKept} \subseteq Nat
  /\ {Suppress, Retained} \subseteq Nat \ {0}

VARIABLES
  tls,    \* the monitor's own state, or None when no monitor runs
  wire,   \* unusual sessions under way, and for how many ticks more
  dash,   \* the dashboard: can it be reached, and how many alerts it holds
  screen, \* the last heartbeat it had from this layer, or None
  called  \* history: ticks since a call to a rogue was last analysed

monitorVars == <<tls, wire, dash, screen, called>>

Least(i, j) == IF i < j THEN i ELSE j

----------------------------------------------------------------------------
(* One window's work *)

Traffic == {"cloud", "rogue", "spike"}

\* The destinations of a capture's observations.
Sessions(seen) == {dst \in {"cloud", "rogue"} :
                     \/ dst = "cloud" /\ {"cloud", "spike"} \cap seen # {}
                     \/ dst = "rogue" /\ "rogue" \in seen}

\* What destination_identity tells apart: a finding that names the rogue, and
\* one (volume_spike) whose detail has no dst.
Identity == {"rogue", "no_dst"}

Findings(seen) == {i \in Identity : \/ i = "rogue"  /\ "rogue" \in seen
                                    \/ i = "no_dst" /\ "spike" \in seen}

Flagged(findings) == findings \ {"no_dst"}

\* A history is the ages of its flagged sessions and the number of the allowed
\* ones, whose age is never looked at.
Allowed(history, sessions, flagged) ==
  Least(history.allowed + Cardinality(sessions \ flagged), RecentKept)

NewlyFlagged(sessions, flagged) == {0 : dst \in sessions \cap flagged}

\* Mutant: one limit for all of them, and the allowed ones take the room.
RecentSessionsAlike(history, sessions, flagged) ==
  LET allowed == Allowed(history, sessions, flagged)
  IN  [flagged |-> IF allowed = RecentKept THEN {}
                   ELSE history.flagged \cup NewlyFlagged(sessions, flagged),
       allowed |-> allowed]

\* The history with this window's sessions: flagged ones kept for a time,
\* the rest cut to a number.
RecentSessions(history, sessions, flagged) ==
  [flagged |-> {age \in history.flagged : age <= Kept} \cup NewlyFlagged(sessions, flagged),
   allowed |-> Allowed(history, sessions, flagged)]

\* Mutant: held back for good.
IsSuppressedStill(sentAge, limit) == sentAge <= limit

IsSuppressed(sentAge, limit) == sentAge < limit

State(history) == IF history.flagged # {} THEN "alert" ELSE "ok"

----------------------------------------------------------------------------
(* The monitor as a process *)

\* How late a capture may begin, when there is gap to begin it in; a recording
\* begins at once.
Late(reads, gap) == IF reads = None THEN 0 .. gap ELSE {0}

Started(reads, late) ==
  [reads   |-> reads,   \* the recording it replays, or None for the interface
   left    |-> Window + late, \* of the window and of what is before it
   seen    |-> {},
   history |-> [flagged |-> {}, allowed |-> 0],
   sentAge |-> [i \in Identity |-> Suppress]]

Unusual == {"rogue", "spike"}

Capturing == tls # None /\ tls.left \in 1 .. Window

\* A session of n ticks, or a shorter one, is begun.
Calling(k, n) ==
  /\ wire' = [wire EXCEPT ![k] = IF @ < n THEN n ELSE @]
  /\ tls' = IF Capturing THEN [tls EXCEPT !.seen = @ \cup {k}] ELSE tls

OnTheWire(inverter) == {k \in Unusual : wire[k] > 0} \cup (IF inverter THEN {"cloud"} ELSE {})

\* The capture of one window, or None: no packet file was written.
NextWindow(captured) ==
  IF tls.reads # None THEN tls.reads ELSE IF captured THEN tls.seen ELSE None

\* Mutant: nothing is ever dropped.
StoredAll(n) == [dash EXCEPT !.alerts = @ + n]

\* Alerts kept by the dashboard when n more arrive.
Stored(n) == [dash EXCEPT !.alerts = Least(@ + n, Retained)]

\* The findings that are sent, and the state of the suppression after them.
Sent == [i \in Identity |-> ~IsSuppressed(tls.sentAge[i], Suppress)]

\* One turn of the loop in monitor(), at any time from the end of the capture
\* on; lost says that the calls fail.
WindowDone(captured, lost, late) ==
  LET seen     == NextWindow(captured)
      again    == [tls EXCEPT !.left = Window + late, !.seen = {}]
      findings == Findings(seen)
      sessions == RecentSessions(tls.history, Sessions(seen), Flagged(findings))
      sending  == {i \in findings : Sent[i]}
      heard    == dash.up /\ ~lost
  IN  /\ tls # None /\ tls.left <= 0
      /\ late \in Late(tls.reads, Gap + tls.left)
      /\ UNCHANGED wire
      /\ \/ /\ seen = None
            /\ tls' = again
            /\ UNCHANGED <<dash, screen, called>>
         \/ /\ seen # None
            /\ called' = IF "rogue" \in seen THEN 0 ELSE called
            /\ screen' = IF heard THEN [state |-> State(sessions), called |-> called']
                                  ELSE screen
            /\ dash' = IF heard THEN Stored(Cardinality(sending)) ELSE dash
            /\ tls' = [again EXCEPT !.history = sessions,
                         !.sentAge = [i \in Identity |-> IF i \in sending THEN 0 ELSE @[i]]]

Older(history) ==
  [history EXCEPT !.flagged = {Least(age + 1, Kept + 1) : age \in @}]

\* What the passing of one tick does to the monitor and the network; inverter
\* says whether the inverter calls its cloud.
TlsTick(inverter) ==
  /\ tls # None => tls.left > -Gap
  /\ tls' = IF tls = None THEN None
            ELSE [tls EXCEPT !.left = @ - 1,
                    !.seen = IF Capturing THEN @ \cup OnTheWire(inverter) ELSE @,
                    !.history = Older(@),
                    !.sentAge = [i \in Identity |-> Least(@[i] + 1, Suppress)]]
  /\ wire' = [k \in Unusual |-> IF wire[k] > 0 THEN wire[k] - 1 ELSE 0]
  /\ called' = Least(called + 1, Kept + 1)
  /\ UNCHANGED <<dash, screen>>

TlsInit ==
  /\ tls = None
  /\ wire = [k \in Unusual |-> 0]
  /\ dash \in [up : {TRUE}, alerts : {0, Retained - 1}]
  /\ screen = None
  /\ called = Kept + 1

History == [flagged : SUBSET (0 .. Kept + 1), allowed : 0 .. RecentKept]

TlsState == [reads : {None} \cup SUBSET Traffic, left : -Gap .. Window + Gap,
             seen : SUBSET Traffic, history : History, sentAge : [Identity -> 0 .. Suppress]]

ASSUME TlsNoneAssumption == None \notin TlsState /\ \A seen \in SUBSET Traffic : seen # None

TlsTypeOK ==
  /\ tls \in {None} \cup TlsState
  /\ wire \in [Unusual -> Nat]
  /\ dash \in [up : BOOLEAN, alerts : 0 .. Retained]
  /\ screen = None \/ screen \in [state : {"ok", "alert"}, called : 0 .. Kept + 1]
  /\ called \in 0 .. Kept + 1

\* The heartbeat shows a rogue as long as, and no longer than, a call to one
\* was analysed at most FLAGGED_SESSION_KEPT_S ago, however many ordinary
\* sessions came after it; a finding that names no destination does not show
\* (_recent_sessions, demo/tls_monitor.py:230-261 and 287-299).
ScreenRemembers ==
  screen # None => (screen.state = "alert" <=> screen.called <= Kept)

=============================================================================
