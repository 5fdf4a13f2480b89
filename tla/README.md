# A verification project for GridHawk

GridHawk watches a solar inverter from outside: one detector listens to the
radio spectrum of its enclosure, another to the connections it makes.  What
they find is posted to a dashboard.  This directory holds TLA+ models of the
program, TLC configurations that check them on small instances, and proofs,
checked by TLAPS, of what holds for every instance.

    tlc -workers 2 -config FlowAssembly.cfg FlowAssemblyMC     # one run
    tlapm FlowAssemblyProofs.tla                               # the proofs

`PROJECT.json` lists every run, what it checks, the lines of source each
definition stands for, and for each property a change of the code (a *mutant*,
an operator next to the one it changes) under which TLC finds it violated.

## 1. The system

| component | source | state it keeps | operations |
|---|---|---|---|
| packet reader | `collectors/pcap.py` | none | read a capture file as a sequence of TCP packets; find the server name in a ClientHello |
| flow assembly | `collectors/tls_egress.py` | `open_sessions`, `recently_closed`, `observations` | one packet at a time: skip, ignore a tail, extend a session, close it; at the end report what is open and sort |
| detection rules | `core/rules.py` | a baseline, learned once | destination, country and volume of each session, then cadence per channel; a finding per session |
| schedule | `core/schedule.py` | none | load maintenance windows; refuse scenario time for live traffic |
| findings, inventory | `core/events.py`, `correlate/inventory.py` | device records | join a finding with its device, rank by priority |
| TLS monitor | `demo/tls_monitor.py` | session history, flagged for 90 s | capture a window, analyse it, heartbeat, alerts |
| RF detection | `collectors/rf.py` | known emitters | find carriers, match them to the baseline, count |
| RF live sweeps | `collectors/rf_live.py` | the rows of the sweep in progress | group the rows of rtl_power into sweeps |
| RF monitor | `demo/rf_monitor.py` | sweep number | sweep, analyse, heartbeat, alerts |
| alert sink | `sinks/webhook.py` | `_last_sent_at`, counters | hold back repeats, post, count; post heartbeats |
| alert receiver | `sinks/alert_receiver.py` | `received_alerts`, `monitor_status` | store alerts and heartbeats, each request in its thread; show the condition of each lane |
| demo runner | `demo/run_demo.py` | background processes | start and stop monitors, compare alert counts before and after each step |
| transmitter firmware | `firmware/feather_cw/` | frequency, power, transmitting | serial commands |
| simulation, scoring | `sim/` | none | synthesise traffic and sweeps with known anomalies, score findings against them |

How they interact.  A monitor is a sequential loop: *capture or sweep, analyse,
`send_status`, `send` for each finding*.  Both sends are blocking HTTP posts
with a timeout; a failure is swallowed and never retried.  The receiver is a
`ThreadingHTTPServer`: each request has a thread, the two globals have no lock,
and nothing is on disk.  The dashboard polls.  The demo runner starts the
monitors as processes and reads the receiver's alert list.

What is hard in it:

* packets of many connections interleave in one capture, and TCP teardown goes on
  after a connection has been reported (`tls_egress.py:49-61`, `128-160`);
* a post may be lost, may time out after it arrived, or may be read long after the
  monitor gave up on it; its timeout is for each wait and not for the post; the
  receiver stamps a heartbeat when it reads it (`alert_receiver.py:599`);
* the alert list is trimmed by concurrent threads (`alert_receiver.py:610-612`);
* either program may be restarted at any time and forgets everything;
* the suppression time, the stale time, the posts' timeout, the sweep time and the
  demo's dwells have to fit together, and nothing in the code relates them;
* rows are grouped into sweeps by a time stamp in whole seconds, while radios are
  switched and moved (`rf_live.py:84-104`);
* the demo runner signals process groups, one of which belongs to another user,
  and judges each step by two reads of a counter other programs change.

The properties that make the components correct, in short: *flow assembly* neither
shares, invents nor loses traffic, and reports one session per connection; *sink
and receiver* agree on what was delivered, hold back repeats and nothing else, do
not show a dead monitor as alive for long, nor a live one as dead while its posts
leave it the time, and keep a rogue on the screen; the *alert list* keeps the
newest alerts; *rules* give each session at most one finding and maintenance never
hides a new destination; *ranking* loses nothing; *RF detection* explains each
carrier by at most one known emitter; the *demo runner* leaves no process behind
and its verdicts rest on alerts of the step they judge.  `PROJECT.json` lists the
hazards, at their lines, and the properties that cover them; those without a
property say why.

## 2. The modules

### FlowAssembly, FlowAssemblyMC, FlowAssemblyProofs

`from_pcap`, one action per way its loop body can go: `SkipOtherTraffic` (the
`continue` at 117), `IgnoreTail` (132), `Extend` (a packet that ends nothing,
133-155) and `Close` (the same with FIN or RST, 157-160); then `EndOfCapture`
(164-168).  `open` is `open_sessions`, `recentlyClosed` is `recently_closed`,
both as functions from keys to a value or `None`; `observations` is itself.
`capture` (the packets read) and the field `members` of a session (the
positions of the packets it counted) are history variables, which the code
does not keep; the properties are about them.

A packet has its end points, wire length, time stamp, whether FIN or RST is
set, and a payload that is a server name (a ClientHello), `Opaque`, or `None`
(empty).  `NameIn` stands for `parse_sni`, which yields a name or `None`.
Addresses and ports are pairs from a set; the lookup of the network of an
address is a pure function of the address and is left out.  Times are natural
numbers, **in any order**: a capture taken while the clock is being set has
time stamps that go back, and nothing in the code looks for that.  The rounding
of the duration to four decimals is left out (no property can see it).  The
sort is modelled as any rearrangement in order of start, which allows more than
a stable sort does.

| property | what it says |
|---|---|
| `PacketsNotShared` | no packet is in two sessions; a session has packets of its own key only |
| `DroppedOnlyAsTail` | a packet counted by no session is on another port, or came within the grace period of a FIN or RST which ended a session of the same key |
| `SessionsSummariseTheirPackets` | start, duration, bytes and name of a report are those of the packets it counted |
| `ReportInStartOrder` | the result is sorted by start, though sessions end in another order |

Run `flow_assembly`: every file of at most four packets out of five shapes (a
hello, a response and a FIN of one connection, a RST of another, a packet on
port 80), five instants, grace period 1.  Four packets are enough for close,
tail, reuse and an interleaved second connection, in any order of time.

### TcpTraffic, TcpTrafficMC, TcpTrafficProofs

`FlowAssembly` composed with an environment: the packets are those of TCP
connections.  For each key the environment knows how many connections used it,
and when the present one was first seen ending and last seen at all; a
connection ends within `Teardown` of its first FIN, a port rests for `Reuse`
before it is used again, and time does not go back.  The comment on
`CLOSED_FLOW_GRACE_S` claims `Teardown <= Grace < Reuse`.  Under it
(`tcp_traffic`: 1, 1, 2; five packets) sessions and connections correspond:

| property | what it says |
|---|---|
| `ReportedOnce` | no two sessions have packets of one connection |
| `NotMixed` | no session has packets of two connections |
| `EveryConnectionReported` | every connection seen has a session, open or reported |

Two runs show what happens when the assumption is not met, or says too little:

* `tcp_half_closed`: TCP lets one side stay half closed for as long as it
  likes.  If that is longer than the grace period, counted from the *first*
  FIN, the connection is reported twice, against `tests/test_pcap.py:254`.
* `tcp_half_closed_bytes`: even within the grace period what the other side
  still sends is dropped, against "`bytes` counts the whole conversation"
  (`tls_egress.py:97`).

### Rules, RulesOutcome, RulesMC, RulesProofs

`evaluate` as operators over a sequence of sessions, and the three steps in
which a capture becomes findings: `Observe` (a collector appends a session, in
order of start), `CheckSessions` (the loop at 482-500 with the baseline of 478)
and `CheckCadence` (502-513).  The operators follow the functions: `NormalLarge`
is the percentile `Baseline.learn` takes, `KindsOf` the chain of per-session
rules with the maintenance test between them, `EdgesOf` and `BandsOf` are
`split_into_channels`, `ChannelOf` is `channel_of`, `EarlyOfChannel`,
`ShouldAbstain`, `IsExplained` and `CadenceFindings` the parts of the cadence
rule in their order: abstention counts the early gaps before any is dropped.

A size is a level, log10(bytes) in steps: the code splits channels on that
scale, and `factor * p95` is a sum there.  Channel edges are midpoints, so they
are kept doubled.  Fractions are per cent.  The list of findings is a set of
records, each with the positions of the sessions it is about.  Only the kinds
the rules on sessions make are there.  Left out: the parts of a baseline no
rule reads, `detail` but for `window_start`, and a baseline passed in.

| property | what it says |
|---|---|
| `OneFindingPerSession` | no two findings about one session; no off-cycle interval with an end another rule owns |
| `MaintenanceExplainsOnlyItsOwn` | compared with the same stream and no schedule, what is missing is volume or cadence, in a window; never a destination |
| `OneBandEach` | each session is in exactly one channel |
| `NeverFloods` | however badly the channels split, cadence findings are a small share, or a few per channel large enough to have a period |
| `SpikesAreFew` | no more sessions spike than lie above the percentile |
| `InjectedSessionIsFound` (in `RulesOutcome`) | a session injected into a regular channel is reported, unless it lands on the middle of its interval |

Bounds.  Run `rules`: streams of up to six sessions of which at most two are not
the heartbeat (another channel, a firmware-sized transfer, a foreign network
called by a second device, a foreign country), pauses of a period and of what an
injected session leaves of one, with and without a schedule.  Six sessions in
place of the twenty or more of a capture need smaller thresholds: four sessions to
a channel, one early gap allowed (`MinFirings`), two channels, and the 60th
percentile, so that a spike can occur at all.  A state is a stream, so
`FewUnusual` is a state constraint on the input, not on the computation.

With the percentile at 95 (`rules_spike`) no session of a short stream can
spike: the percentile is learned from the stream it judges and is then its
maximum.  A session far above all that came before it, "the 95th-percentile
session we have already seen" (`rules.py:31-32`), is not reported.

### Score, Inventory

Two pure parts, joined with the rules in `RulesOutcome`: what the rules find is
scored and ranked.

`Score` is the matching of `score_one`: anomalies claim findings greedily, in
order, each finding at most once.  `InjectedSessionIsFound` uses it with a
tolerance of zero: the manifest of a stream with one injected session is matched
without a miss and without a false positive, though the finding is about an
interval and the anomaly about an instant.

`Inventory` is `enrich`, `priority` and the stable sort of `rank`, which gives a
finding its place: after those of a higher priority and the earlier ones of its
own.  A device without a record, or with a record without a capacity, or with a
capacity of zero, weighs one kilowatt.  Capacities are in watts.  `ListedWatts`
holds those the inverter is listed with, none at all (-1), zero, and figures on
either side of each limit among them.

| property | what it says |
|---|---|
| `UnknownComesLast` | ranking loses no finding; one about an unlisted device comes before one about a listed device only if that device has at most one kilowatt (or none on record), or at most three and the severity is higher |

That the nominal figure "keeps them at the bottom" (`inventory.py:23-26`) is thus true of
devices of more than three kilowatts, as `high` weighs three times what `medium`
does.  A device of one kilowatt is on a level with an unlisted one, and a smaller
one below it.

### AlertDelivery, AlertDeliveryMC, AlertDeliveryProofs

One lane, end to end: the loop of `run_monitor`, the `AlertSink` it uses, the
network, and what the receiver keeps of it.  `pc` says where the loop is:
`sweeping` (`timer` ticks to go), `reporting` (before `send_status`),
`alerting` (inside `send_all`, `todo` left), `stopped`.  `awaited` is the
request the monitor is blocked on and `late` are requests it gave up on that
lie in a socket the receiver has not read.  The `timeout` of `urlopen` bounds each
wait and not the post: the library tries the addresses of the host one after the
other (`NextAddress`, `Connect`), each for so long, and then waits once more for
the head of the answer, which comes in one piece.  `Slowest`, the longest post, is
`Addresses + 1` timeouts.  `lastSent` is `_last_sent_at` and
`shown` is the lane's `monitor_status`; both are kept as ages, up to the age
from which the code no longer tells them apart, so the model is finite.
`storedAge`, `silence` and two counters of `tally` are history.

Faults: a post may fail at any moment, before or after it is handled (`PostError`,
`TimeOut`, both `GiveUp`); what was given up on may still arrive, up to `Linger`
after its post was begun, or be lost; either program may stop at any moment; the
receiver may start again, empty.  A monitor that starts again is a new run of the
model.  An answer other than 2xx counts as failed like an exception does, so it is
one action with it.  Left out: how long the look-up of the receiver's name takes,
which no timeout bounds and `InTouch` says nothing of, console printing and the
console-only mode (`url` is None), and `suppressed_count`, which nothing reads but
a message.

| property | what it says |
|---|---|
| `CountsAgree` | posted = sent + failed (+ the one in flight), sent <= stored <= posted, whatever is lost |
| `FreshMeansAlive` | a lane that is not offline had a living monitor at most `Stale + Linger` ago |
| `InTouch` | a running monitor whose last heartbeat arrived is not shown offline before the next is due at the latest, if the slowest this turn can be (`TurnTime`, from the alerts posted in it) is within `Stale` |
| `RepeatsSpaced` | the receiver is not given an alert twice within `Suppress - Linger` |
| `RogueKeepsBeingReported` | a rogue seen on every sweep is reported again and again |
| `RogueStaysOnScreen` | and the lane is not shown quiet any more, and in alarm again and again |
| `DeadShownOffline` | a dead monitor ends up offline and stays so |

`ImplementsFeed` says more than these, of every step: the lane implements
`AlertFeed`.

Bounds.  A tick is about five seconds: sweep 1, timeout 1, suppression 4
(20 s), stale 5 (25 s), as in `demo/rf_monitor.py`, which sweeps every second.
In `alert_delivery` the receiver's host has two addresses, as a `.local` name may
have (`run_demo.py:621`), and `Linger` is just the slowest post.  The age
comparison of `Condition` is strict as in the code, and the run meets `InTouch` with equality: answer 1, sweep 1,
heartbeat 3.  One late request at a time (`MaxLate`), and counters up to
`MaxCount`, where `CountsAgree` no longer compares them.

In seconds, the turn of a monitor that posts no alert is at most 5 + 1 + 10 = 16
with one address, 21 with two, which the 25 s of `HEARTBEAT_STALE_S` allow.
One alert at its slowest adds ten seconds, or fifteen: the turn may then last 26 s,
and **a running monitor be shown offline** for a moment.  `InTouch` promises nothing
then, and `RogueStaysOnScreen` allows it.

Fairness (`alert_delivery_live`).  Weak fairness of the monitor's loop, of the
handling of a request on the wire, of what lies in a socket to its end, and of
time: the two programs are sequential loops that the operating system keeps
running.  No fault is fair.  The two properties of the rogue are conditional on
what they name: from some time on both programs run, every post arrives (its answer may be
lost), and the rogue is found on each sweep.

`alert_suppressed` shows a disagreement with a docstring: `send` records the
time before it posts (`webhook.py:115`), so an alert whose post *failed* is held
back for the whole suppression time as "already reported recently"
(`webhook.py:94`).  On the demo's 20 s it costs a delay; with the TLS monitor's
60 s, a minute without the alert.

### AlertFeed

What the whole way from a monitor to the dashboard promises about alerts: an
alert that is offered is stored once or lost, within `Delay`, and is not offered
again for `Suppress`.  `AlertDelivery` implements it (`ImplementsFeed`, in the
run `alert_delivery_live`): what is `pending` there is here the post on the wire,
if it has not been handled, together with the late requests in the socket
(`OnTheWay`); `offered` is `lastSent`, `stored` is `storedAge`, and `Delay` is
`Linger`, which is no less than the slowest post.  A post that fails unhandled is
a `Lose`, a post that is handled and whose answer is lost a `Store` followed by
stutters, a program that stops loses several at once.  The weak fairness of
`Settle` follows from that of the handler and of time.

### AlertReceiver, AlertReceiverProofs

The alert list under concurrent handlers.  `do_POST` appends, then trims in a
loop that reads the length and pops; these three are each atomic (one bytecode
on a list) and interleave between threads.  `at` is where each handler is.
`arrived` is history.  Each monitor waits for its answer, so `Threads` is the
number of monitors and the requests they have given up on.

| property | what it says |
|---|---|
| `NewestRetained` | the list is the newest alerts in order of arrival, and at least `Cap + 1 - Threads` of them |
| `PopFinds` | `pop(0)` never meets an empty list |
| `CappedAtRest` | with no handler running, the list is within its cap |
| `EachAnswered` | each handler ends: threads that trim together do not keep each other in the loop |

Two handlers that both see the list too long both pop, so it may end up shorter
than the cap: `Cap + 1 - Threads` is the exact bound (TLC violates
`Cap + 2 - Threads`).  With the cap of 200 it is harmless, with a cap near the
number of threads the list could be emptied; `Threads <= Cap` is the assumption.
Six requests, cap 3, three threads: the list overflows three times over.
`CHECK_DEADLOCK FALSE` here, for the capture runs, for `rules` and for `demo`:
there the program ends.

### Transmitter, RfDetection, RfMonitor, RfMonitorMC, RfMonitorProofs

The radio layer from the board's serial line to the findings, run `rf`.

`Transmitter` is the firmware: per board the settings in RAM (`nominal`,
`offset`, `power`, `transmitting`) and the registers of the radio chip
(`regMode`, `regFreq`, `regLevel`), which alone decide what is radiated.  One
operator per function of the sketch; `Command` is `loop()`.  `SetPower` cuts its
argument to eight bits, as the cast does, and the register is clamped.

`RfDetection` is `collectors/rf.py` from a sweep to findings: `Smooth`, `Median`,
`Threshold`, `Peaks`, `Extent` and `WeightedCentre` are the steps of
`find_carriers`, and `InOrder` its sort, which `Lower` gives the order for; `Learn`
is the clustering of `carriers_from_sweeps`, greedy against the first member of a
group, in the order of the sweeps (`Gather` is one sweep of it, `Join` one
carrier); `Strangers` are the carriers no emitter accounts for;
`FindingsByIdentification` and `FindingsByCounting` are the two branches of
`analyse_sweep`.  Powers are whole units of 1/6 dB, so that the averages are
exact, and frequencies tenths of a bin.

`RfMonitor` joins them.  `Watch` has an action for each row `rtl_power` may
print (`FirstRow`, `RowOfSameSweep`, `RowOfNextSweep`), for the end of a
recording (`Rewind`) and of the process (`EndOfRows`), and for `Stop`: a sweep
is complete only when a row with another stamp, or the end, is seen.  `Save` is
the end of `run_baseline`, which may be killed with the file truncated and not
yet written.  Between any two rows the boards take commands or lose their power.
`Sorted` puts the passes of one sweep into one list, by frequency and then power
(`Quieter`).  The colours of a heartbeat come from frequencies rounded to
0.1 Hz (`rf.py:384`), the findings from the frequencies themselves: `Shown` is
the rounding, `IsKnown` what the heartbeat makes of it, and `Grain` its step,
which the run takes coarser than it is (50 Hz), so that the two do differ at the
edge of the tolerance.
`heard` is history: where the radios were while the baseline was made.

External are only what a carrier looks like (a peak with skirts of 10 dB a bin
over a flat floor) and the boards' crystal errors.

| property | what it says |
|---|---|
| `EachRadioIsOneCarrier` | the carriers of a sweep are the boards that were told to transmit, at the frequency they were told, whatever commands came in whatever order |
| `ExactlyStrangersReported` | exactly the radios that were not there at the baseline are reported, and exactly those are coloured unknown, however passes were split into sweeps |
| `NotWeakerThanCounting` | more carriers than there are known emitters are never all taken for known ones |

Two formulas without a variable say what the properties need of the search for
carriers, and nothing of the programs: `LocatesRadios` (radios that keep still
and can be told apart are found, all and no others, `Near` where they are) and
`SeparatesCarriers` (no two carriers of a pass within twice the tolerance).  In
`RfMonitorMC` they are assumptions, `SearchLocates` and `SearchSeparates`, which
TLC works out in the run for every place and level of the two radios; section 3
proves the properties from them.  They are facts about 24 bins and two radios:
with 16 or 20 bins the skirts of two radios fill half the band, the median is no
longer the floor, and `LocatesRadios` is false.

Bounds.  Two boards, whose crystals put them two bins apart (closer than the
sweep can tell) until a command moves one by two or by four more; 24 bins of
250 Hz and the demo's tolerance of 400 Hz; three commands, a baseline of two
sweeps, at most two passes with one stamp.  That reaches: one radio, two, none;
the authorised one replaced by another; a radio moved during a sweep and during
the baseline; a torn file.

What the preconditions of the three properties leave out was met while building
them, and is how the code is:

* the moving average over three bins merges two carriers of equal power that
  are less than four bins apart (five, when one is 10 dB stronger), where the
  docstring of `find_carriers` speaks of "roughly one bin width" (`Resolvable`);
* passes of one second become one sweep with each bin several times; the
  frequency measured of a steady carrier shifts by up to a fifth of a bin, and a
  radio switched in that second may show as two carriers at one frequency
  (`Steady`);
* of radios nearer to each other, or to a place of the baseline, than the
  tolerance with half a bin and the rounding, nothing is said (`Apart`): there
  the tolerance is as likely to hide a radio as to explain it, which
  `rf_monitor.py:132-138` prints;
* a baseline in which nothing was found leaves the file of the last one, and a
  receiver unplugged during it makes a baseline of fewer sweeps;
* a sweep is analysed a row late.

### TlsMonitor, DemoRun, DemoRunMC, DemoRunProofs, DemoVerdictProofs

The demo as it is run: the runner, the processes it starts, the two monitors,
the dashboard and the operator, run `demo`.

`TlsMonitor` is the network monitor's loop.  A window is captured (`seen`) while
`left` counts it down, and `WindowDone` is one turn, at the end of the capture or
up to `Gap` later, as tcpdump has to end, the sessions to be judged and the posts
to be made before the next capture begins: what is on the wire only in between is
in no window (`Capturing`).  A turn: nothing captured, then nothing is sent, no
heartbeat either; else the sessions join the history (`RecentSessions`: flagged
ones kept for a time, the others cut to a number; the history is the ages of the
flagged ones and how many others there are), the heartbeat goes out, then the
findings that `IsSuppressed` lets through.  Sessions are told apart by whether
they went to the cloud or a rogue; a finding without `dst` (a volume spike) flags
none of them.

`DemoRun` has the script as a sequence of instructions, `ActOne` and `ActTwo` with
their sleeps and dwells as in the code, and an action per kind of instruction. 
`mode` says how it was started: live or live as root or on recordings, each with
or without a dashboard of its own and with or without preflight, or the network
monitor alone, by hand: thirteen ways.  Without preflight no address map is
written, and the one of an earlier run is taken to be right.  `procs` is
`background_processes`: a leader, the child it may have, and whether the leader is
a `sudo`.  `KillGroup`, `Stopped` and `Cleanup` are the three ways processes end;
`CheckStep` is the verdict.  `file` is the set of radios in the baseline file: of
`Baseline`, radio A and, if it is on, perhaps B; at first, what a run on another
day may have left.  `since`, `verdict` and `called` are history.

Faults, one in a run (`MaxFaults`; the theorems are for any number): a monitor
dies and leaves its capture or does not; the dashboard is cut off or starts again
empty; a sweep's or a window's calls are lost; a window has no packet file; the
baseline fails; a rogue appears outside the script.  The operator may break off at
any pause, sleep or dwell.

| property | what it says |
|---|---|
| `VerdictsAreRight` | an alarm step passes only if an alert was stored in it, a quiet step only if none was, unless the list was full or emptied; neither passes over a dead monitor |
| `OnlyTheseMisses` | an untroubled alarm step fails for one of three reasons only: the alert was sent before the count and is held back past the dwell, radio B is in the baseline file, or the call fell between two captures |
| `OnlyTheseSurvive` | after the end only these processes live: orphans of a leader that died by itself, a `sudo` that may not be signalled, and what came after it |
| `OneMonitor` | never two monitors of a layer, and none running that the runner does not hold |
| `ScreenRemembers` | a rogue is on the screen for exactly as long as its call is kept, whatever ordinary sessions follow |

Bounds.  A tick is four seconds: the window and the dwells are multiples of it, or
nearly.  The pause between two captures is up to a tick, which quick posts and the
end of tcpdump fit into with room to spare; a dashboard that answers slowly, or a
tcpdump that takes its five seconds to end, may make it longer.  With the window
it has to be shorter than the alarm dwell (`DwellAssumption`; 8 s and 4 s against
16 s): if it is not, an alert may be late for its step, which the model leaves
out. Faults: two in a run leave more states than can be worked through.  The
dashboard keeps three alerts instead of 200 and starts with none or with two, so
the list is full in some steps and not in others.  The network monitor by hand
meets at most two unusual sessions, which start in any tick and may span two
windows; with two recent sessions kept, allowed ones push others out.

Where the code does something its words or its purpose would not suggest, the
property names it as an exception:

* the alarm dwell of 16 s is shorter than the 20 s an RF alert is held back, and
  the alerts are counted *after* the operator's pause.  An alert that goes out
  while the operator is still reading the prompt is not counted, and the next is
  held back: a step in which everything works is reported as unexpected
  (`OnlyTheseMisses`);
* radio B, on during the baseline, is learned as authorised, and its step does not
  alert (`run_demo.py:508-512`, `rf_monitor.py:125-128`, say so themselves); so it is
  when the baseline fails and the file of an earlier run has it;
* a call of a second or less may fall between two captures, and step six fails
  although everything works (`tls_monitor.py:272-302`);
* the network monitor of a user who is not root runs under `sudo -n` and cannot be
  signalled: `stop` raises, `cleanup` stops at the first that raises, and the
  capture goes on, against the docstring of `_kill_group` (`run_demo.py:216-221`);
  children of a leader that died by itself are left as well;
* Ctrl-C between the start of the dashboard and `try` leaves the dashboard;
* without preflight and without `--rogue` the command of step six contains
  `None`, and printing it fails;
* a baseline that failed does not stop act one, in which, without the file of an
  earlier run, no monitor then runs; `check_step` notices (`HeldRuns`);
* a step that starts with a full alert list cannot show an alert: the count does
  not move.

## 3. What is proved

`FlowAssemblyProofs`, for every set of end points, every port, name, grace
period and instant, and files of any length:

* `TypeCorrect`: `Spec => []TypeOK`;
* `NothingShared`: `Spec => []PacketsNotShared`;
* `OnlyTailsDropped`: `Spec => []DroppedOnlyAsTail`;
* `SessionsAreSummaries`: `Spec => []SessionsSummariseTheirPackets`;
* `ReportedInStartOrder`: `Spec => []ReportInStartOrder`;
* `FoldsBothDirections`: a packet and its answer have one key, when only one
  end point is on the monitored port.

The inductive invariant is

    FInv == TypeOK /\ KeysMatch /\ OpenOrClosed /\ PacketsNotShared
              /\ GraceStarted /\ DroppedOnlyAsTail

`PacketsNotShared` needs `KeysMatch` (an open session knows the key it is filed
under).  `DroppedOnlyAsTail` needs a witness when a tail is ignored: `GraceStarted`
says that a key in its grace period has a reported session which counted the
FIN with that time stamp.  A packet counted once stays counted
(`CountedStaysCounted`), across the rearrangement of the final sort too, which
the lemmas on `Listings` and `Slot` give.

`SessionsSummariseTheirPackets` adds up the bytes over the whole file, packet by
packet, where the code keeps a running count.  `SummariesInv` bridges the two
without an induction over the sum: a session has the bytes `b` of its packets if
*some* table of running totals (`Totals`: zero at the start, and from each packet
to the next the same or that packet's length more) ends in `b`.  A packet that
is counted or not makes the table one longer (`SummaryGrown`, `TotalsKept`), and
only at the end, when the file is fixed, is the table compared with the
recursive function of the property: two tables that obey one recurrence cannot
first differ anywhere (`OneTotal`).  The order of the reports follows from the
final rearrangement alone.

The constants are assumed to have the types in
`FlowAssembly`, and `None` to be none of the values it stands beside.

`TcpTrafficProofs`, for every grace period and every file of TCP traffic, from
`Teardown <= Grace` and `Grace < Reuse`, the claim of `tls_egress.py:49-61`:

* `OneReportPerConnection`: `TSpec => []ReportedOnce`;
* `OneConnectionPerReport`: `TSpec => []NotMixed`;
* `NoConnectionMissed`: `TSpec => []EveryConnectionReported`;
* `TrafficIsCapture`: `TSpec => Spec`, so what is proved of every file holds of
  these.

Its invariant adds to `FInv` the phases of a connection: while it has not begun
to end, its session is open and holds its packets alone (`OpenIsPresent`); once
it has, its key is in the grace period since its *first* FIN (`Phases`).  So a
packet of a connection that ends is always a tail (`Teardown <= Grace`), the
first packet of the next never is (`Grace < Reuse`), and `TailOrCounted` says so
in one lemma.  `Represented` keeps, for the third theorem, a counted packet of
each connection.  Neither assumption can be dropped: `tcp_half_closed` drops the
first, and the mutants of `IsTail` move the grace period.

`RulesProofs`, for every stream, schedule, allowlist and threshold (levels and
times are naturals, the percentile below 100):

* `TypeCorrect`: `Spec => []TypeOK`; every finding is of a known kind;
* `OneFinding`: `Spec => []OneFindingPerSession`;
* `MaintenanceIsPartial`: `Spec => []MaintenanceExplainsOnlyItsOwn`;
* `ChannelsPartition`: `Spec => []OneBandEach`;
* `SpikesBounded`: `Spec => []SpikesAreFew`;
* `CadenceBounded`: `Spec => []NeverFloods`;
* `InjectionFound`: `Spec => []InjectionSplits`, if `EarlyPercent <= 50` and
  `MinFirings >= 1`, as in the code (0.5 and 3);
* `InjectedIsFound`: `Spec => []InjectedSessionIsFound`, if `EarlyPercent = 50`,
  `MinFirings >= 1` and `MinSessions <= 6`, as in the code (0.5, 3 and 6);
* `UnknownIsLast`: `Spec => []UnknownComesLast`, for every set of capacities, zero
  and missing ones included (for which it promises no order);
* `ScoreAddsUp`: for every manifest and all findings, the scorer's hits, misses and
  false positives add up to both, no finding is credited twice, and no miss and no
  false positive that are left match each other.  Being greedy, it may have fewer
  hits than another assignment would; none could be added to those it has.

The inductive invariant is `RulesInv == TypeOK /\ Progress`: at each stage the
findings are what the operators say of the sessions so far, so the rest is about
operators.  `OneIntervalEach` (an interval is known by its later session, even
across channels) gives `OneFinding`; `ExplainedUnderSchedule` (a schedule
explains no more sessions, so it uncovers no interval) gives
`MaintenanceIsPartial`; `BetweenNeighbours` the channels; `KthIs` (the k-th
smallest value exists and at least k values are not above it) the bound on
spikes.

`CadenceBounded` is about a sum over channels, of which there may be any number.
`Spread` says what a channel gives: its sessions are disjoint from those of the
others, and its early intervals are few, or a small share of it.  `OneGroupAway`
takes one channel off, with its sessions and its findings, and the bound of the
rest gives the bound of all; that this ends is the well-foundedness of the
naturals (a least number of findings for which the bound fails cannot exist),
not an induction over data.

`InjectionSplits` is what `InjectedSessionIsFound` rests on, without the scorer,
and for an early fraction below a half as well: if the other sessions follow each
other at one period, the findings are exactly the parts of the split interval that
are shorter than `EarlyPercent` of it.  `PeriodStands` shows that two odd
intervals among five or more leave the median alone (`KthIsUnique`); as they add
up to one period, at most one of them is early, and one early interval is too few
to abstain.  With a half, exactly one is early unless the session lands on the
middle; it has the session at one end, and since sessions are in order of start
(`SessionsInOrder`, an invariant of its own) the anomaly lies within it
(`IntervalMatches`).  The scorer's loop is a fold; of one anomaly it is one turn
(`OneTurn`), which leaves nothing of one finding that matches (`OneForOne`).

`ScoreAddsUp` is about the loop over any manifest.  After each turn the books are
`Sound`: hits and misses are the anomalies so far, hits and unclaimed findings all
findings, and none of the one matches any of the other.  `ClaimKeeps` is one turn;
that a fold is defined, and that what each turn keeps holds at the end, follows from
the well-foundedness of the naturals (`FoldExists`, `UpFromEmpty`), which the folds of
`RfDetection` use as well.

For `UnknownIsLast` the place of a finding is one more than the number of those
that go before it (`StablePlaces`).  These places are different and in order of
priority, and an injection of `1..n` into itself reaches every place, so each
finding is sent once (`PlacesInOrder`, `RankedInOrder`).  The rest is the
product of weight and capacity: ten times more than three thousand watts is more
than thirty times a thousand.

`AlertReceiverProofs`, for every cap, every number of threads up to the cap, and
every number of alerts: `TypeCorrect`, `PopsFind`, `NewestAreRetained` and
`WithinCapAtRest`.  The argument counts threads:
`NotTooShort` says that either nothing was popped yet and nobody is about to, or
the list, less the pops that are about to happen, still has `Cap + 1 - Threads`
alerts; `NotTooLong` that it exceeds the cap by at most the threads that have yet
to trim.

`AlertDeliveryProofs`, for every set of alerts and sweeps and all times, from
`Slowest <= Linger` (a request may lie unread until its sender gives up, at
least):

* `TypeCorrect`: `Spec => []TypeOK`;
* `CountersSound`: `Spec => []CountsAgree`;
* `FreshLanesAreAlive`: `Spec => []FreshMeansAlive`;
* `RepeatsAreSpaced`: `Spec => RepeatsSpaced`;
* `FeedImplemented`: if also `Linger < Suppress`, the lane starts as `AlertFeed`
  does and each of its steps, faults included, is a step of `AlertFeed` or a
  stutter.  What remains of `ImplementsFeed` is its fairness, which TLC checks;
* `RunningIsInTouch`: `Spec => []InTouch`.

Each has an invariant of its own on top of the types.  `Balanced` counts: posted
is sent, failed and the one waited for; sent and the one answered are stored;
stored and all that may yet be stored, late requests included, were posted.
`HeartbeatsDated`: a heartbeat on its way is as old as the monitor's silence, and
one on the lane is younger by at most `Linger`, as it was stamped when read.
`OneAtATime`, where `Linger < Suppress`: an alert on its way is as old as its
`lastSent`, so it is on its way only once, and the last time it was stored is
`Suppress - Linger` ago at least; both the spacing of repeats and the refinement
(a store takes one alert off the way, not two) rest on it.

The premise of `InTouch` is the budget the code leaves to chance
(`demo/rf_monitor.py`, `sinks/webhook.py` and `sinks/alert_receiver.py` each
choose their own time).  `WaitsAddUp` bounds the age of a post by the addresses it
has tried; `SeenInTime` bounds the age of what the lane shows by the alerts posted
since and the place the monitor has got to in its loop; `LastInTurn` says that
while a heartbeat is waited for none after it has been posted.

`RfMonitorProofs`, for every number of boards, all crystal errors, any commands
with any arguments, and any way the passes fall into sweeps:

* `TypesCorrect`: `Spec => []RfTypeOK`, the power register within its range
  whatever number is typed, and a report with a colour for each of its carriers;
* `NothingStaleOnAir`: `Spec => []RadiatedAsCommanded`, what is radiated at any
  moment is what the boards were told;
* `SweepsShowCommands`: `Spec => []PassesAsCommanded`, and so it is in every pass of
  the sweep that is being read, of a baseline and of a report;
* `ScreenAgrees`: `Spec => []ScreenShowsFindings`, every carrier that no emitter
  accounts for has one finding, and its colour says the same, unless its
  distance to an emitter is within half a `Grain` of the tolerance (`AtTheEdge`):
  `_unaccounted_carriers` and `_heartbeat_detail` work them out separately, the one
  from the frequency, the other from the rounded one;
* `RadiosAreCarriers`: `Spec => []EachRadioIsOneCarrier`, if `LocatesRadios`;
* `StrangersAreReported`: `Spec => []ExactlyStrangersReported`, if `LocatesRadios`
  and the tolerance is at least half a bin and the rounding: the demo's 400 Hz and
  the default of 2,000 Hz both are, with bins of 250 Hz (the wider the tolerance, the
  further apart radios have to be for the property to say anything);
* `NeverWeaker`: `Spec => []NotWeakerThanCounting`, if `SeparatesCarriers`.

`NothingStaleOnAir` rests on `RegistersAgree`: on every path through the sketch the
level register follows the power, the mode follows `transmitting`, and the frequency
register follows the frequency *of a board that transmits*; one in standby is
out of date until it is switched on, so agreement on all boards would be false.
`WatchInv` adds the programs: one that is idle has kept no sweep, and the
monitor only runs with a baseline.  A recording is replayed from what was kept,
so the passes in it are as commanded when they were taken, not now.

The last three properties relate what is reported now to commands, sweeps and a
file of long ago.  Their invariant, `Learnt`, has the links of that chain: every
sweep kept is whole; what the monitor compares with is what is in the file; a
report is what the analysis makes of its passes and of those emitters (`Outcome`);
and if the search `Resolves` radios, the file `Covers` what was `heard`: an
emitter near each place, and none elsewhere.  With it, each property is a
statement about one sweep and one list of emitters, and the programs, the
registers and the file are out of the way.

What is left is about the operators of `RfDetection`, for sweeps and baselines of
any length.  Of the search, in any spectrum:

* `ExtentsMeet`: the bins of two carriers share at most the one between them;
* `PeaksStandClear`: between peaks of different height the smoothed spectrum falls
  below the lower one by the prominence asked for;
* `CentresKeepOrder`: so the weighted centres are in the order of the peaks, and
  the sort exchanges no two carriers.

Of baseline and findings:

* `BaselineCoversItsSweeps`: a measured carrier lies within twice the tolerance of
  an emitter (not within the tolerance: a group is averaged after it was formed);
* `BaselineIsWhatWasSeen`: measurements near places further apart than the tolerance,
  half a bin and the rounding make emitters near these places, and no others;
* `StrangersAreNew`: against such a baseline, radios that stand where they stood or
  clearly elsewhere are strangers exactly if they are new, rounded or not;
* `StrongerThanCounting`: if carriers lie further apart than twice the tolerance
  and there are more of them than emitters in the baseline, one of them matches no
  emitter, so identification reports wherever counting does (`rf.py:450`).

The greedy grouping is a fold over the sweeps, and within each a fold over its
carriers.  `GatherAll` says once what every such proof needs: a set of groupings
that `Join` keeps within itself has the result in it.  `JoinSettles` is then the
step of `BaselineIsWhatWasSeen` (a measurement joins the group of its place and no
other), and `OnePlace` and `AverageBetween` close it.  An `InOrder` of a finite set
exists and is unique (the lemmas on `Arranges`), which is how findings are counted
(`FindingsOfStrangers`) and how sweeps that show the same spectra are seen to be
the same list (`SortedBySpectra`).  That is used twice: radios in a report may have
any crystal error, and the search is asked only about pictures of the band.
`OutOfSight` moves a radio that is far outside to three bins beyond the edge, where
it is as invisible.

`DemoRunProofs` and `DemoVerdictProofs`, for all lengths of the sleeps, the
dwells, the window and the memories, any size of the dashboard's list and any
number of faults:

* `TypesCorrect`: `Spec => []DemoTypeOK`, which includes that a monitor has a
  state exactly as long as its process works;
* `OneMonitorAtATime`: `Spec => []OneMonitor`;
* `NothingElseSurvives`: `Spec => []OnlyTheseSurvive`;
* `TheScreenRemembers`: `Spec => []ScreenRemembers`;
* `RightVerdicts`: `Spec => []VerdictsAreRight`;
* `NoOtherMisses`: `Spec => []OnlyTheseMisses`.

The script is a sequence put together from parts that depend on the mode.  The
lemmas on its lines (`ActOneLines`, `ActTwoLiveLines`, `ActTwoReplayLines`,
`ScriptLines`) turn it into places, counted from the end of its variable lead, and
say once which instructions a place may have; the invariants are stated by place. 
`ProcsInv` relates the processes to them: which kinds may have been started by
then, which of them the runner may hold there (`HeldInv`), that no two leaders of
a kind live (`Alone`), and that while the program runs no monitor runs but the one
it holds (`OnlyHeld`).  A handle is let go of only where its group has been
signalled, so `OneMonitor` follows, and `OnlyTheseSurvive` from what `Cleanup`
does to the processes there are. `MemoryInv` ties the history to the time since a
call: the flagged sessions are no younger than it, and one is exactly that old as
long as it is kept.

The verdicts need to know what happened since the count.  `CountInv` says, on the
lines from a count to its verdict: nothing stored, then no more alerts than
counted; untroubled and something stored, then more, unless the list was full.
`MissInv` follows the alarm through the dwell: in an untroubled step either an
alert has been stored, or the monitor lives, its radio is on (`AirInv`) and in no
baseline (`Novel`) or its call in a capture (`Caught`), and it is known how long the
alert is held back still (`RfLive`, `TlsLive`), until at the end of the dwell
nothing is left but the misses the property names.  This is where `DwellAssumption`
is used: the dwell is longer than a sweep, and than a window with the pause after
it, which the code's 16 s, 1 s, 8 s and a pause of up to 4 s are.  The other
assumptions are types, that `None` is none of the values it stands beside, and
that suppression times and the list's size are not zero.

Only model-checked:

* `LocatesRadios` and `SeparatesCarriers`, from which three theorems on `RfMonitor`
  follow.  Each is a statement about a moving average, a median and peaks of 24
  powers, for which there is no argument but to work them out, and it is not true of
  every number of bins.  TLC works them out for the bins and boards of the run, for
  all places and levels; with other numbers they have to be worked out again;
* all liveness (`RogueKeepsBeingReported`, `RogueStaysOnScreen`,
  `DeadShownOffline`, `EachAnswered`, the fairness of `AlertFeed`) and ENABLED,
  which are outside what TLAPS does with these back ends.

## 4. Not modelled, and why

* **Schedule** (`core/schedule.py`): its windows are an input of `Rules`; loading
  and accepting them is a check of one file with no later state.  One hazard of
  it is noted in `PROJECT.json`.
* **Bytes**: headers, TLS records, the rows of `rtl_power` and the JSON of
  findings and alerts are read where they stand; a packet, a row or a finding is
  here what the reader makes of it.  The unit tests enumerate the formats.
* **Frequencies as numbers**: ppm estimates and the text of details; no decision
  rests on them.
* **The dashboard's page and its snapshot**: `_snapshot` reads the lanes and the
  list twice while handlers change them; the next poll, a second later, repairs
  whatever it showed.
* **The console-only sink, `summarise`, the counters only a message reads.**
* **How long the runner waits for a process to end**: a group that is signalled
  is gone.
* **Connections across two windows**: each window is assembled on its own
  (`tls_monitor.py:284`); `FlowAssembly` is one window.
* **Simulation**: synthesis of traffic and sweeps is random data; the scorer's
  matching is modelled.  The command-line scripts run the components above in a
  straight line.

What is left to prove: that the sessions of `TlsMonitor` which are held back were
sent before, and how many bins, for how many radios, `LocatesRadios` needs.
