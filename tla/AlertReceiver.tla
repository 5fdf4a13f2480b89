---------------------------- MODULE AlertReceiver ----------------------------
(***************************************************************************)
(* The alert list of sinks/alert_receiver.py.  ThreadingHTTPServer runs    *)
(* do_POST in a thread per connection and no lock guards received_alerts,  *)
(* so the three steps that keep the list short,                            *)
(*                                                                         *)
(*     received_alerts.append(stamped)                                     *)
(*     while len(received_alerts) > MAX_ALERTS_RETAINED:                   *)
(*         received_alerts.pop(0)                                          *)
(*                                                                         *)
(* interleave between threads: the append, each evaluation of the          *)
(* condition and each pop is atomic, and nothing more.                     *)
(*                                                                         *)
(* A request stands for its alert.  `arrived' is history: all the alerts   *)
(* ever appended.                                                          *)
(***************************************************************************)
EXTENDS Integers, Sequences, FiniteSets

CONSTANTS
  Requests, \* how many POST /alert requests come; each has its own thread
  Cap,      \* MAX_ALERTS_RETAINED
  Threads   \* most threads in do_POST at once (the monitors: each waits for
            \* its answer before it posts again, unless it has given up)

ASSUME CapAssumption ==
  Requests \in Nat /\ Cap \in Nat /\ Threads \in Nat /\ Threads <= Cap

\* Numbered in the order they are accepted.
Request == 1..Requests

VARIABLES
  received_alerts,
  arrived,
  at        \* where each request's thread is

vars == <<received_alerts, arrived, at>>

Init ==
  /\ received_alerts = <<>>
  /\ arrived = <<>>
  /\ at = [r \in Request |-> "unread"]

Running == {r \in Request : at[r] \notin {"unread", "answered"}}

Goto(r, from, to) ==
  /\ at[r] = from
  /\ at' = [at EXCEPT ![r] = to]

\* The request is accepted and its body read.
Accept(r) ==
  /\ Cardinality(Running) < Threads
  /\ \A q \in 1..(r-1) : at[q] # "unread"
  /\ Goto(r, "unread", "append")
  /\ UNCHANGED <<received_alerts, arrived>>

AppendFront(r) ==
  /\ Goto(r, "append", "check")
  /\ received_alerts' = <<r>> \o received_alerts
  /\ arrived' = Append(arrived, r)

AppendRetry(r) ==
  /\ Goto(r, "append", "append")
  /\ received_alerts' = Append(received_alerts, r)
  /\ arrived' = Append(arrived, r)

AppendAlert(r) ==
  /\ Goto(r, "append", "check")
  /\ received_alerts' = Append(received_alerts, r)
  /\ arrived' = Append(arrived, r)

TooLongAny == received_alerts # <<>>

TooLongLate == Len(received_alerts) > Cap + 1

TooLong == Len(received_alerts) > Cap

\* One evaluation of the while condition.
CheckLong(r) ==
  /\ TooLong
  /\ Goto(r, "check", "pop")
  /\ UNCHANGED <<received_alerts, arrived>>

CheckShort(r) ==
  /\ ~TooLong
  /\ Goto(r, "check", "respond")
  /\ UNCHANGED <<received_alerts, arrived>>

PopNothing(r) ==
  /\ Goto(r, "pop", "check")
  /\ UNCHANGED <<received_alerts, arrived>>

\* pop(0), and back to the condition.
Pop(r) ==
  /\ Goto(r, "pop", "check")
  /\ received_alerts' = Tail(received_alerts)
  /\ UNCHANGED arrived

Respond(r) ==
  /\ Goto(r, "respond", "answered")
  /\ UNCHANGED <<received_alerts, arrived>>

Next ==
  \E r \in Request :
    \/ Accept(r)
    \/ AppendAlert(r)
    \/ CheckLong(r)
    \/ CheckShort(r)
    \/ Pop(r)
    \/ Respond(r)

\* A started thread runs on; nothing says that another request comes.
Fairness ==
  \A r \in Request :
    WF_vars(AppendAlert(r) \/ CheckLong(r) \/ CheckShort(r) \/ Pop(r) \/ Respond(r))

Spec == Init /\ [][Next]_vars
FairSpec == Spec /\ Fairness

----------------------------------------------------------------------------
(* Properties *)

\* Types; each request is appended at most once.
TypeOK ==
  /\ received_alerts \in Seq(Request)
  /\ arrived \in Seq(Request)
  /\ at \in [Request -> {"unread", "append", "check", "pop", "respond", "answered"}]
  /\ \A i, j \in DOMAIN arrived : arrived[i] = arrived[j] => i = j

Newest(n) == SubSeq(arrived, Len(arrived) - n + 1, Len(arrived))

\* What the list holds is the newest alerts, in order of arrival; two threads
\* that trim at once may drop more than is over the cap, but never so far
\* that fewer than Cap + 1 - Threads are left of as many that arrived.
NewestRetained ==
  /\ Len(received_alerts) <= Len(arrived)
  /\ received_alerts = Newest(Len(received_alerts))
  /\ \/ received_alerts = arrived
     \/ Len(received_alerts) >= Cap + 1 - Threads

\* A thread that comes to pop(0) finds an alert to pop: IndexError would end
\* the handler before it answers, and the monitor would count a stored alert
\* as failed.
PopFinds == \A r \in Request : at[r] = "pop" => received_alerts # <<>>

\* With no handler under way the list is within its cap, whatever order the
\* handlers ended in.
CappedAtRest == Running = {} => Len(received_alerts) <= Cap

\* Each request that is taken up is answered: threads that trim at the same
\* time do not keep each other in the loop.
EachAnswered == \A r \in Request : at[r] = "append" ~> at[r] = "answered"

=============================================================================
