---------------------------- MODULE AlertDelivery ----------------------------
(***************************************************************************)
(* How what one monitor sees gets onto the dashboard.                      *)
(*                                                                         *)
(* The monitor (demo/rf_monitor.py, run_monitor) sweeps the band; after    *)
(* each sweep it posts a heartbeat and then its findings one by one        *)
(* through an AlertSink (sinks/webhook.py), which holds back repeats.      *)
(* A post is a connection to one after another of the addresses of the     *)
(* receiver's host, the request, and the read of the answer's head; the    *)
(* sink's timeout is for each of these waits, not for the post, and no     *)
(* post is tried again.  The receiver (sinks/alert_receiver.py) handles    *)
(* each request in a thread of its own, keeps the last heartbeat of the    *)
(* lane with its own time stamp, and calls the lane offline when that      *)
(* stamp is too old.                                                       *)
(*                                                                         *)
(* A post may fail before it arrives, or after: a request the monitor has  *)
(* given up on may still be lying in a socket the receiver has not read.   *)
(* Both programs may be stopped at any moment and keep nothing on disk.    *)
(*                                                                         *)
(* Time is in ticks.  It passes only while the monitor waits: for a sweep  *)
(* to be integrated or for a post.  Instants are kept as ages, up to       *)
(* the age from which the code no longer tells them apart.                 *)
(***************************************************************************)
EXTENDS Integers, Sequences, FiniteSets

CONSTANTS
  Alert,     \* the identities of findings (identity_of)
  Sweep,     \* what a sweep may find: sequences of Alert
  SweepTime, \* ticks it takes to integrate a sweep
  Addresses, \* how many addresses the receiver's host has
  Timeout,   \* the sink's timeout, of one wait
  Suppress,  \* suppress_repeats_for
  Stale,     \* HEARTBEAT_STALE_S
  Linger,    \* how long after a post is begun its request may still lie unread
  MaxLate,   \* bound: given-up requests that may lie unread at once
  MaxCount,  \* bound: the counters count no further
  None

\* The slowest post: a connection to each address, and the answer.
Slowest == (Addresses + 1) * Timeout

\* A request may lie unread at least until the monitor gives up on it.
ASSUME TimesAssumption ==
  /\ Addresses \in Nat \ {0}
  /\ SweepTime \in Nat /\ Timeout \in Nat /\ Suppress \in Nat /\ Stale \in Nat
  /\ Linger \in Nat /\ MaxLate \in Nat /\ MaxCount \in Nat
  /\ Slowest <= Linger
ASSUME SweepAssumption == Sweep \subseteq Seq(Alert)

VARIABLES
  pc,        \* what the monitor does next
  timer,     \* ticks until the sweep in progress is complete
  todo,      \* the findings send_all has not come to yet
  lastSent,  \* _last_sent_at, as ages
  tally,     \* sent_count and failed_count; and, as history, how many
             \* alerts were posted, in all and since the last heartbeat's
             \* post was over (turn), and how many the receiver stored
  awaited,   \* the request the monitor is blocked on
  late,      \* requests given up on that the receiver has yet to read
  up,        \* the receiver runs
  shown,     \* monitor_status of the lane
  storedAge, \* history: ticks since each alert was last stored
  silence    \* history: ticks since the last heartbeat was posted

vars == <<pc, timer, todo, lastSent, tally, awaited, late, up, shown,
          storedAge, silence>>

\* lag: how many heartbeats the monitor has posted after this one, up to 2.
Status == [what : {"status"}, of : {"ok", "alert"}, lag : 0..2]
Post   == [what : {"alert"}, of : Alert]
Request == Status \cup Post

\* age: since the post was begun; waited: since the wait it is in was begun;
\* further: the addresses it has yet to try.
Awaited == [req : Request, age : 0..Slowest, waited : 0..Timeout,
            further : 0..(Addresses - 1),
            stage : {"connecting", "wire", "answered", "reset"}]
Shown == [state : {"ok", "alert"}, lag : 0..2, age : 0..(Stale + 1)]

ASSUME NoneAssumption == None \notin Awaited /\ None \notin Shown

Least(a, b) == IF a < b THEN a ELSE b
OlderUnbounded(age, limit) == age + 1
Older(age, limit) == Least(age + 1, limit)
Count(n) == Least(n + 1, MaxCount)

Behind(r) == [r EXCEPT !.lag = Least(@ + 1, 2)]

----------------------------------------------------------------------------
(* The sink *)

IsSuppressedNever(a) == FALSE

\* is_suppressed: no instant on record counts as the oldest age there is.
IsSuppressed(a) == lastSent[a] < Suppress

Init ==
  /\ pc = "sweeping" /\ timer = SweepTime
  /\ todo = <<>>
  /\ lastSent = [a \in Alert |-> Suppress]
  /\ tally = [sent |-> 0, failed |-> 0, posted |-> 0,
              stored |-> 0, turn |-> 0]
  /\ awaited = None /\ late = {}
  /\ up \in BOOLEAN /\ shown = None
  /\ storedAge = [a \in Alert |-> Suppress]
  /\ silence = 0

\* A sweep is complete and has been analysed.
Analyse(found) ==
  /\ pc = "sweeping" /\ timer = 0
  /\ pc' = "reporting"
  /\ todo' = found
  /\ UNCHANGED <<timer, lastSent, tally, awaited, late, up, shown, storedAge, silence>>

\* The state argument of send_status, made before anything is sent.
State == IF todo = <<>> THEN "ok" ELSE "alert"

Await(r) == awaited' = [req |-> r, age |-> 0, waited |-> 0,
                        further |-> Addresses - 1, stage |-> "connecting"]

\* All heartbeats there are have one more after them.
Overtake ==
  /\ late' = {[l EXCEPT !.req = IF @.what = "status" THEN Behind(@) ELSE @] : l \in late}
  /\ shown' = IF shown = None THEN None ELSE Behind(shown)

SendStatusOnChange ==
  /\ pc = "reporting" /\ awaited = None
  /\ pc' = "alerting"
  /\ IF shown # None /\ shown.state = State
     THEN UNCHANGED <<awaited, late, shown, silence>>
     ELSE /\ Await([what |-> "status", of |-> State, lag |-> 0])
          /\ Overtake
          /\ silence' = 0
  /\ UNCHANGED <<timer, todo, lastSent, tally, up, storedAge>>

\* send_status: the request is made; the monitor waits for the answer.
SendStatus ==
  /\ pc = "reporting" /\ awaited = None
  /\ pc' = "alerting"
  /\ Await([what |-> "status", of |-> State, lag |-> 0])
  /\ Overtake
  /\ silence' = 0
  /\ UNCHANGED <<timer, todo, lastSent, tally, up, storedAge>>

SkipRepeatSliding ==
  /\ pc = "alerting" /\ awaited = None /\ todo # <<>>
  /\ IsSuppressed(Head(todo))
  /\ lastSent' = [lastSent EXCEPT ![Head(todo)] = 0]
  /\ todo' = Tail(todo)
  /\ UNCHANGED <<pc, timer, tally, awaited, late, up, shown, storedAge, silence>>

\* send: this alert is held back.
SkipRepeat ==
  /\ pc = "alerting" /\ awaited = None /\ todo # <<>>
  /\ IsSuppressed(Head(todo))
  /\ todo' = Tail(todo)
  /\ UNCHANGED <<pc, timer, lastSent, tally, awaited, late, up, shown, storedAge, silence>>

\* send: this alert is posted.  The time of sending is on record before it is
\* known whether the post succeeds.
SendAlert ==
  /\ pc = "alerting" /\ awaited = None /\ todo # <<>>
  /\ ~IsSuppressed(Head(todo))
  /\ lastSent' = [lastSent EXCEPT ![Head(todo)] = 0]
  /\ tally' = [tally EXCEPT !.posted = Count(@), !.turn = Count(@)]
  /\ todo' = Tail(todo)
  /\ Await([what |-> "alert", of |-> Head(todo)])
  /\ UNCHANGED <<pc, timer, late, up, shown, storedAge, silence>>

\* send_all has come to the end; the next sweep starts.
NextSweep ==
  /\ pc = "alerting" /\ awaited = None /\ todo = <<>>
  /\ pc' = "sweeping" /\ timer' = SweepTime
  /\ UNCHANGED <<todo, lastSent, tally, awaited, late, up, shown, storedAge, silence>>

\* The address takes the connection, and the request is sent.
Connect ==
  /\ awaited # None /\ awaited.stage = "connecting" /\ up
  /\ awaited' = [awaited EXCEPT !.stage = "wire", !.waited = 0]
  /\ UNCHANGED <<pc, timer, todo, lastSent, tally, late, up, shown, storedAge, silence>>

\* The address refuses the connection, or does not take it in time.
NextAddress ==
  /\ awaited # None /\ awaited.stage = "connecting" /\ awaited.further > 0
  /\ awaited' = [awaited EXCEPT !.further = @ - 1, !.waited = 0]
  /\ UNCHANGED <<pc, timer, todo, lastSent, tally, late, up, shown, storedAge, silence>>

\* The post the monitor is blocked on succeeded.  A heartbeat's answer is
\* returned and ignored.
Accepted ==
  /\ awaited # None /\ awaited.stage = "answered"
  /\ tally' = IF awaited.req.what = "alert"
              THEN [tally EXCEPT !.sent = Count(@)] ELSE [tally EXCEPT !.turn = 0]
  /\ awaited' = None
  /\ UNCHANGED <<pc, timer, todo, lastSent, late, up, shown, storedAge, silence>>

\* The monitor stops waiting.  What the receiver has not read by then is
\* lost or stays in its socket.
Abandon ==
  /\ awaited' = None
  /\ \/ late' = late
     \/ /\ awaited.stage = "wire" /\ up
        /\ Cardinality(late) < MaxLate
        /\ late' = late \cup {[req |-> awaited.req, age |-> awaited.age]}

GiveUpUncounted ==
  /\ awaited # None
  /\ Abandon
  /\ UNCHANGED tally
  /\ UNCHANGED <<pc, timer, todo, lastSent, up, shown, storedAge, silence>>

\* _post and send_status swallow every failure.
GiveUp ==
  /\ awaited # None
  /\ Abandon
  /\ tally' = IF awaited.req.what = "alert"
              THEN [tally EXCEPT !.failed = Count(@)] ELSE [tally EXCEPT !.turn = 0]
  /\ UNCHANGED <<pc, timer, todo, lastSent, up, shown, storedAge, silence>>

\* The last address has not taken the connection in time, or no answer has
\* come in time; an error (refused, reset, unreachable) may come at any moment.
TimeOut ==
  /\ awaited # None /\ awaited.waited = Timeout
  /\ awaited.stage = "connecting" => awaited.further = 0
  /\ GiveUp
PostError == GiveUp

\* Ctrl-C, or the process is killed.
StopMonitor ==
  /\ pc # "stopped"
  /\ pc' = "stopped"
  /\ todo' = <<>> /\ timer' = 0
  /\ IF awaited = None THEN UNCHANGED <<awaited, late>> ELSE Abandon
  /\ UNCHANGED <<lastSent, tally, up, shown, storedAge, silence>>

----------------------------------------------------------------------------
(* The receiver *)

\* do_POST, for either path.
Receive(r) ==
  /\ up
  /\ IF r.what = "status"
     THEN /\ shown' = [state |-> r.of, lag |-> r.lag, age |-> 0]
          /\ UNCHANGED <<tally, storedAge>>
     ELSE /\ tally' = [tally EXCEPT !.stored = Count(@)]
          /\ storedAge' = [storedAge EXCEPT ![r.of] = 0]
          /\ UNCHANGED shown
  /\ UNCHANGED <<pc, timer, todo, lastSent, up, silence>>

Handle ==
  /\ awaited # None /\ awaited.stage = "wire"
  /\ Receive(awaited.req)
  /\ awaited' = [awaited EXCEPT !.stage = "answered"]
  /\ UNCHANGED late

HandleLateAgain(l) ==
  /\ Receive(l.req)
  /\ UNCHANGED <<late, awaited>>

HandleLate(l) ==
  /\ Receive(l.req)
  /\ late' = late \ {l}
  /\ UNCHANGED awaited

LoseLate(l) ==
  /\ late' = late \ {l}
  /\ UNCHANGED <<pc, timer, todo, lastSent, tally, awaited, up, shown,
                 storedAge, silence>>

\* The receiver is stopped: what it holds is gone, and so are the requests in
\* its sockets.
StopReceiver ==
  /\ up
  /\ up' = FALSE
  /\ shown' = None /\ late' = {}
  /\ awaited' = IF awaited # None /\ awaited.stage = "wire"
                THEN [awaited EXCEPT !.stage = "reset"] ELSE awaited
  /\ UNCHANGED <<pc, timer, todo, lastSent, tally, storedAge, silence>>

StartReceiver ==
  /\ ~up
  /\ up' = TRUE
  /\ UNCHANGED <<pc, timer, todo, lastSent, tally, awaited, late, shown,
                 storedAge, silence>>

ConditionNeverStale ==
  IF shown = None THEN "offline"
  ELSE IF shown.state = "alert" THEN "alarm" ELSE "quiet"

\* _lane_state
Condition ==
  IF shown = None \/ (shown # None /\ shown.age > Stale) THEN "offline"
  ELSE IF shown.state = "alert" THEN "alarm" ELSE "quiet"

----------------------------------------------------------------------------
(* Time *)

Pass ==
  /\ timer' = IF timer = 0 THEN 0 ELSE timer - 1
  /\ awaited' = IF awaited = None THEN None
             ELSE [awaited EXCEPT !.age = @ + 1, !.waited = @ + 1]
  /\ late' = {[l EXCEPT !.age = @ + 1] : l \in late}
  /\ shown' = IF shown = None THEN None
              ELSE [shown EXCEPT !.age = Older(@, Stale + 1)]
  /\ lastSent' = [a \in Alert |-> Older(lastSent[a], Suppress)]
  /\ storedAge' = [a \in Alert |-> Older(storedAge[a], Suppress)]
  /\ silence' = Older(silence, Stale + Linger + 1)
  /\ UNCHANGED <<pc, todo, tally, up>>

TickNoTimeout ==
  /\ \/ pc = "sweeping" /\ timer > 0
     \/ awaited # None /\ awaited.waited <= Timeout
     \/ pc = "stopped"
  /\ \A l \in late : l.age < Linger
  /\ Pass

Tick ==
  /\ \/ pc = "sweeping" /\ timer > 0
     \/ awaited # None /\ awaited.waited < Timeout
     \/ pc = "stopped"
  /\ \A l \in late : l.age < Linger
  /\ Pass

Monitor ==
  \/ \E found \in Sweep : Analyse(found)
  \/ SendStatus
  \/ SkipRepeat
  \/ SendAlert
  \/ NextSweep
  \/ NextAddress
  \/ Accepted
  \/ TimeOut

Faults == PostError \/ StopMonitor \/ StopReceiver \/ StartReceiver

Next ==
  \/ Monitor
  \/ Connect
  \/ Handle
  \/ \E l \in late : HandleLate(l) \/ LoseLate(l)
  \/ Tick
  \/ Faults

Spec == Init /\ [][Next]_vars

\* The monitor's loop and the receiver's threads keep running and time goes
\* on; nothing says that a fault ever comes or ends.
Fairness ==
  /\ WF_vars(Monitor)
  /\ WF_vars(Connect)
  /\ WF_vars(Handle)
  /\ WF_vars(\E l \in late : l.age = Linger /\ (HandleLate(l) \/ LoseLate(l)))
  /\ WF_vars(Tick)

FairSpec == Spec /\ Fairness

----------------------------------------------------------------------------
(* Properties *)

\* Types; and ages stay within the bound they are kept to.
TypeOK ==
  /\ pc \in {"sweeping", "reporting", "alerting", "stopped"}
  /\ timer \in 0..SweepTime
  /\ todo \in Seq(Alert)
  /\ lastSent \in [Alert -> 0..Suppress]
  /\ tally \in [sent : 0..MaxCount, failed : 0..MaxCount, posted : 0..MaxCount,
               stored : 0..MaxCount, turn : 0..MaxCount]
  /\ awaited \in Awaited \cup {None}
  /\ late \subseteq [req : Request, age : 0..Linger]
  /\ up \in BOOLEAN
  /\ shown \in Shown \cup {None}
  /\ storedAge \in [Alert -> 0..Suppress]
  /\ silence \in 0..(Stale + Linger + 1)

Waiting == awaited # None /\ awaited.req.what = "alert"

\* The summary the monitor prints is sound: each alert posted is counted once
\* as delivered or failed, what is counted as delivered did arrive, and
\* nothing arrives that was not posted, however answers are lost
\* (webhook.py:115-123 and 177-189).
CountsAgree ==
  LET c == tally
      waiting == IF Waiting /\ pc # "stopped" THEN 1 ELSE 0
  IN  c.posted < MaxCount /\ pc # "stopped" =>
        /\ c.sent + c.failed + waiting = c.posted
        /\ c.sent <= c.stored
        /\ c.stored <= c.posted

\* A lane that is not offline has a monitor that was alive not long ago: the
\* receiver stamps a heartbeat when it reads it, so the bound is the stale
\* time and the time a request may lie unread (alert_receiver.py:31-33, 77,
\* 599).
FreshMeansAlive == Condition # "offline" => silence <= Stale + Linger

\* The longest time from a heartbeat's arrival to the next one's, when k alerts
\* are posted in between: its answer, their posts, a sweep and the next
\* heartbeat's post, all at their slowest.
TurnTime(k) == Timeout + k * Slowest + SweepTime + Slowest

\* A monitor that runs, and whose last heartbeat arrived, is not called offline
\* before the next one is due at the latest, where that is within the stale
\* time (webhook.py:150, 178; alert_receiver.py:31-33, 77;
\* demo/rf_monitor.py:230-253).
InTouch ==
  /\ pc # "stopped"
  /\ shown # None
  /\ \/ shown.lag = 0
     \/ shown.lag = 1 /\ awaited # None /\ awaited.req.what = "status"
  /\ tally.turn < MaxCount /\ TurnTime(tally.turn) <= Stale
  => Condition # "offline"

Stores(a) ==
  \/ Handle /\ awaited.req.what = "alert" /\ awaited.req.of = a
  \/ \E l \in late : HandleLate(l) /\ l.req.what = "alert" /\ l.req.of = a

\* However posts fail or arrive late, the receiver is not given the same
\* alert twice within the suppression time, less the time the first may have
\* lain unread.
RepeatsSpaced ==
  [][\A a \in Alert : Stores(a) => storedAge[a] >= Suppress - Linger]_vars

\* An alert held back is one the receiver was given recently (the docstring
\* of is_suppressed: "already reported recently").
SuppressedWasReported ==
  [][SkipRepeat => storedAge[Head(todo)] < Suppress]_vars

\* A post fails before the receiver has handled it.  (One whose answer is lost
\* afterwards leaves no trace but in the counters.)
NotDelivered == GiveUp /\ awaited.stage # "answered"

\* From some time on both programs run, every post gets to the receiver, and
\* alert a is among what each sweep finds.
RogueSeen(a) ==
  /\ <>[](up /\ pc # "stopped")
  /\ <>[][/\ ~NotDelivered
          /\ \A found \in Sweep :
               Analyse(found) => \E i \in DOMAIN found : found[i] = a]_vars

\* While every post arrives, a rogue seen on every sweep is reported again and
\* again, once per suppression time: it is never silenced for good.
RogueKeepsBeingReported ==
  \A a \in Alert : RogueSeen(a) => []<><<Stores(a)>>_vars

\* While every post arrives, the lane of a monitor that sees the rogue on every
\* sweep comes to be shown in alarm again and again, and never as quiet: no
\* older heartbeat and no held-back repeat clears it.  (Slow posts may have it
\* shown offline in between.)
RogueStaysOnScreen ==
  \A a \in Alert :
    RogueSeen(a) => /\ <>[](Condition # "quiet")
                    /\ []<>(Condition = "alarm")

\* A monitor that has died is shown offline, and stays so.
DeadShownOffline ==
  pc = "stopped" ~> [](Condition = "offline")

\* The alerts on their way: in the request the monitor waits on, as long as
\* the receiver has not read it, and in those it has given up on.
OnTheWay ==
  LET unread == {l \in late : l.req.what = "alert"}
                \cup (IF Waiting /\ awaited.stage \in {"connecting", "wire"}
                      THEN {awaited} ELSE {})
  IN  {[of |-> l.req.of, age |-> l.age] : l \in unread}

Feed == INSTANCE AlertFeed WITH
  Delay <- Linger, pending <- OnTheWay, offered <- lastSent, stored <- storedAge

\* However posts fail, are answered late or are cut off by a program that
\* stops, each alert that is sent is stored at most once and not long after,
\* none is stored that was not sent, and repeats are held back
\* (webhook.py:93-123, 177-189; alert_receiver.py:590-612).
ImplementsFeed == Feed!Spec

=============================================================================
