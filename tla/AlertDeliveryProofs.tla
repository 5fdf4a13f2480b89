------------------------- MODULE AlertDeliveryProofs -------------------------
(***************************************************************************)
(* The safety properties of AlertDelivery, for every set of alerts, every  *)
(* sweep and all times, as far as AlertDelivery assumes them to fit; and   *)
(* that its steps are steps of AlertFeed.                                  *)
(***************************************************************************)
EXTENDS AlertDelivery, FiniteSetTheorems, SequenceTheorems, TLAPS

\* The monitor waits for answers in send_status and send_all only.
WaitsInItsPlace == pc # "alerting" => awaited = None

\* The time k waits of a post take at their slowest.
Waits(k) == Timeout * k

\* A post has taken no more than a timeout for each address it has given up,
\* and what it has waited since.
WaitsAddUp ==
  awaited # None =>
    awaited.age <= Waits(IF awaited.stage = "connecting"
                         THEN (Addresses - 1) - awaited.further ELSE Addresses)
                   + awaited.waited

TInv == TypeOK /\ WaitsInItsPlace /\ WaitsAddUp

----------------------------------------------------------------------------
(* Types *)

LEMMA LeastIs ==
  ASSUME NEW i \in Nat, NEW j \in Nat
  PROVE  Least(i, j) \in Nat /\ Least(i, j) <= i /\ Least(i, j) <= j
         /\ (Least(i, j) = i \/ Least(i, j) = j)
BY DEF Least

\* Later, an age is at most one more, and within its limit.
LEMMA OlderIs ==
  ASSUME NEW limit \in Nat, NEW age \in 0..limit
  PROVE  /\ Older(age, limit) \in 0..limit
         /\ Older(age, limit) >= age
         /\ Older(age, limit) = age + 1 \/ Older(age, limit) = limit
         /\ Older(age, limit) <= age + 1
BY TimesAssumption DEF Older, Least

LEMMA CountIs ==
  ASSUME NEW n \in 0..MaxCount
  PROVE  Count(n) \in 0..MaxCount
BY TimesAssumption DEF Count, Least

LEMMA BehindIs ==
  ASSUME NEW r \in Status
  PROVE  Behind(r) \in Status /\ Behind(r).of = r.of
BY DEF Behind, Status, Least

LEMMA ShownBehind ==
  ASSUME NEW s \in Shown
  PROVE  Behind(s) \in Shown /\ Behind(s).age = s.age /\ Behind(s).state = s.state
BY DEF Behind, Shown, Least

LEMMA TwoKinds ==
  ASSUME NEW r \in Request
  PROVE  /\ r.what = "status" => r \in Status
         /\ r.what # "status" => r \in Post /\ r.what = "alert"
         /\ r \in Post => r.of \in Alert
BY DEF Request, Status, Post

\* One more wait takes one more timeout; the slowest post has one for each
\* address and one for the answer.
LEMMA WaitsIs ==
  ASSUME NEW k \in Nat
  PROVE  /\ Waits(k) \in Nat /\ Waits(k + 1) = Waits(k) + Timeout
         /\ Waits(Addresses) + Timeout = Slowest /\ Waits(Addresses) \in Nat
         /\ Slowest \in Nat /\ Slowest <= Linger
<1>1. /\ \A t, i \in Nat : t * i \in Nat /\ t * (i + 1) = (t * i) + t
                         /\ (i + 1) * t = (t * i) + t
      /\ Timeout \in Nat /\ Addresses \in Nat /\ Slowest <= Linger
  BY TimesAssumption
<1>2. Waits(k) \in Nat /\ Waits(k + 1) = Waits(k) + Timeout
  BY <1>1 DEF Waits
<1>3. Waits(Addresses) \in Nat /\ Slowest = Waits(Addresses) + Timeout
  BY <1>1 DEF Waits, Slowest
<1> QED BY <1>1, <1>2, <1>3

\* More waits take no less.
LEMMA WaitsGrow ==
  ASSUME NEW i \in Nat, NEW j \in Nat, i <= j
  PROVE  Waits(i) <= Waits(j)
<1>1. \A t \in Nat : t * i <= t * j
  OBVIOUS
<1> QED BY <1>1, TimesAssumption DEF Waits

\* A post that has not waited its timeout out is younger than the slowest.
LEMMA YoungPost ==
  ASSUME TypeOK, WaitsAddUp, awaited # None, awaited.waited < Timeout
  PROVE  awaited.age + 1 \in 0..Slowest /\ awaited.waited + 1 \in 0..Timeout
<1>1. awaited \in Awaited
  BY DEF TypeOK
<1>2. /\ awaited.age \in 0..Slowest /\ awaited.waited \in 0..Timeout
      /\ awaited.further \in 0..(Addresses - 1) /\ Addresses \in Nat /\ Timeout \in Nat
  BY <1>1, TimesAssumption DEF Awaited
<1>3. PICK k : k = IF awaited.stage = "connecting"
                   THEN (Addresses - 1) - awaited.further ELSE Addresses
  OBVIOUS
<1>4. k \in Nat /\ k <= Addresses
  BY <1>2, <1>3
<1>5. Waits(k) <= Waits(Addresses) /\ Waits(k) \in Nat /\ Waits(Addresses) \in Nat
      /\ Slowest = Waits(Addresses) + Timeout
  BY <1>2, <1>4, WaitsGrow, WaitsIs
<1>6. awaited.age <= Waits(k) + awaited.waited
  BY <1>3 DEF WaitsAddUp
<1> QED BY <1>2, <1>5, <1>6

LEMMA SlowestIs == Slowest \in Nat /\ Slowest <= Linger /\ Linger \in Nat
<1>1. 0 \in Nat
  OBVIOUS
<1> QED BY <1>1, WaitsIs, TimesAssumption

LEMMA TInit == Init => TInv
BY TimesAssumption DEF Init, TInv, TypeOK, WaitsInItsPlace, WaitsAddUp

LEMMA OvertakeType ==
  ASSUME TypeOK, Overtake
  PROVE  late' \subseteq [req : Request, age : 0..Linger] /\ shown' \in Shown \cup {None}
<1>1. ASSUME NEW l \in late
      PROVE  [l EXCEPT !.req = IF @.what = "status" THEN Behind(@) ELSE @]
               \in [req : Request, age : 0..Linger]
  <2>1. l \in [req : Request, age : 0..Linger]
    BY DEF TypeOK
  <2>2. (IF l.req.what = "status" THEN Behind(l.req) ELSE l.req) \in Request
    BY <2>1, TwoKinds, BehindIs DEF Request
  <2>3. QED
    BY <2>1, <2>2
<1>2. shown' \in Shown \cup {None}
  BY ShownBehind DEF Overtake, TypeOK
<1>3. QED
  BY <1>1, <1>2 DEF Overtake

LEMMA AbandonType ==
  ASSUME TypeOK, awaited # None, Abandon
  PROVE  /\ awaited' = None
         /\ late' \subseteq [req : Request, age : 0..Linger]
<1>1. /\ Slowest <= Linger /\ Linger \in Nat /\ awaited \in Awaited
      /\ awaited' = None /\ late \subseteq [req : Request, age : 0..Linger]
  BY TimesAssumption DEF TypeOK, Abandon
<1>2. Slowest \in Nat
  BY SlowestIs
<1>3. awaited.req \in Request /\ awaited.age \in 0..Linger
  BY <1>1, <1>2 DEF Awaited
<1>4. late' = late \/ late' = late \cup {[req |-> awaited.req, age |-> awaited.age]}
  BY DEF Abandon
<1> QED BY <1>1, <1>3, <1>4

LEMMA ReceiveType ==
  ASSUME TypeOK, NEW r \in Request, Receive(r)
  PROVE  /\ shown' \in Shown \cup {None}
         /\ tally' \in [sent : 0..MaxCount, failed : 0..MaxCount, posted : 0..MaxCount,
                        stored : 0..MaxCount, turn : 0..MaxCount]
         /\ storedAge' \in [Alert -> 0..Suppress]
<1>1. CASE r.what = "status"
  <2>1. r.of \in {"ok", "alert"} /\ r.lag \in 0..2
    BY <1>1, TwoKinds DEF Status
  <2>2. shown' = [state |-> r.of, lag |-> r.lag, age |-> 0] /\ tally' = tally /\ storedAge' = storedAge
    BY <1>1 DEF Receive
  <2>3. 0 \in 0..(Stale + 1)
    BY TimesAssumption
  <2>4. shown' \in Shown
    BY <2>1, <2>2, <2>3 DEF Shown
  <2> QED BY <2>2, <2>4 DEF TypeOK
<1>2. CASE r.what # "status"
  <2>1. r.of \in Alert
    BY <1>2, TwoKinds
  <2>2. storedAge' \in [Alert -> 0..Suppress]
    <3>1. storedAge' = [storedAge EXCEPT ![r.of] = 0]
      BY <1>2 DEF Receive
    <3>2. QED
      BY <2>1, <3>1, TimesAssumption DEF TypeOK
  <2>3. Count(tally.stored) \in 0..MaxCount
    BY CountIs DEF TypeOK
  <2>4. tally' \in [sent : 0..MaxCount, failed : 0..MaxCount, posted : 0..MaxCount,
                     stored : 0..MaxCount, turn : 0..MaxCount]
    BY <1>2, <2>3 DEF TypeOK, Receive
  <2>5. QED
    BY <1>2, <2>2, <2>4 DEF TypeOK, Receive
<1>3. QED
  BY <1>1, <1>2

LEMMA PassType ==
  ASSUME TypeOK, WaitsAddUp, Pass, awaited # None => awaited.waited < Timeout,
         \A l \in late : l.age < Linger
  PROVE  TypeOK'
<1>1. timer' \in 0..SweepTime
  <2>1. SweepTime \in Nat /\ timer \in 0..SweepTime
    BY TimesAssumption DEF TypeOK
  <2>2. timer' = IF timer = 0 THEN 0 ELSE timer - 1
    BY DEF Pass
  <2> QED BY <2>1, <2>2
<1>2. awaited' \in Awaited \cup {None}
  <2>1. CASE awaited = None
    BY <2>1 DEF Pass
  <2>2. CASE awaited # None
    <3>1. awaited \in Awaited /\ awaited.age + 1 \in 0..Slowest
          /\ awaited.waited + 1 \in 0..Timeout
      BY <2>2, YoungPost DEF TypeOK
    <3>2. awaited' = [awaited EXCEPT !.age = awaited.age + 1, !.waited = awaited.waited + 1]
      BY <2>2 DEF Pass
    <3>3. QED
      BY <3>1, <3>2 DEF Awaited
  <2>3. QED
    BY <2>1, <2>2
<1>3. late' \subseteq [req : Request, age : 0..Linger]
  <2>1. ASSUME NEW l \in late
        PROVE  [l EXCEPT !.age = @ + 1] \in [req : Request, age : 0..Linger]
    <3>1. l \in [req : Request, age : 0..Linger] /\ l.age + 1 \in 0..Linger
      BY TimesAssumption DEF TypeOK
    <3>2. QED
      BY <3>1
  <2>2. QED
    BY <2>1 DEF Pass
<1>4. shown' \in Shown \cup {None}
  <2>1. CASE shown = None
    BY <2>1 DEF Pass
  <2>2. CASE shown # None
    <3>0. Stale + 1 \in Nat /\ shown \in Shown /\ shown.age \in 0..(Stale + 1)
      BY <2>2, TimesAssumption DEF TypeOK, Shown
    <3>1. Older(shown.age, Stale + 1) \in 0..(Stale + 1)
      BY <3>0, OlderIs
    <3>2. shown' = [shown EXCEPT !.age = Older(shown.age, Stale + 1)]
      BY <2>2 DEF Pass
    <3>3. QED
      BY <3>0, <3>1, <3>2 DEF Shown
  <2>3. QED
    BY <2>1, <2>2
<1>5. lastSent' \in [Alert -> 0..Suppress] /\ storedAge' \in [Alert -> 0..Suppress]
  BY OlderIs, TimesAssumption DEF TypeOK, Pass
<1>6. silence' \in 0..(Stale + Linger + 1)
  <2>1. Stale + Linger + 1 \in Nat /\ silence \in 0..(Stale + Linger + 1)
    BY TimesAssumption DEF TypeOK
  <2>2. QED
    BY <2>1, OlderIs DEF Pass
<1>7. QED
  BY <1>1, <1>2, <1>3, <1>4, <1>5, <1>6 DEF TypeOK, Pass

\* What time passes for.
LEMMA TickIsPass ==
  ASSUME TInv, Tick
  PROVE  Pass /\ (awaited # None => awaited.waited < Timeout) /\ \A l \in late : l.age < Linger
BY DEF TInv, WaitsInItsPlace, Tick

LEMMA AwaitType ==
  ASSUME NEW r \in Request, Await(r)
  PROVE  awaited' \in Awaited
<1>1. 0 \in 0..Timeout /\ Addresses - 1 \in 0..(Addresses - 1)
  BY TimesAssumption
<1>2. 0 \in 0..Slowest
  BY SlowestIs
<1> QED BY <1>1, <1>2 DEF Await, Awaited

LEMMA ConnectType ==
  ASSUME TypeOK, Connect \/ NextAddress
  PROVE  /\ awaited # None /\ awaited \in Awaited /\ awaited' \in Awaited
         /\ awaited'.req = awaited.req /\ awaited'.age = awaited.age /\ awaited'.waited = 0
         /\ awaited.stage = "connecting" /\ awaited'.stage \in {"connecting", "wire"}
<1>1. awaited # None /\ awaited \in Awaited /\ awaited.stage = "connecting"
  BY DEF TypeOK, Connect, NextAddress
<1>2. 0 \in 0..Timeout
  BY TimesAssumption
<1>3. CASE Connect
  BY <1>1, <1>2, <1>3 DEF Connect, Awaited
<1>4. CASE NextAddress
  <2>1. awaited.further - 1 \in 0..(Addresses - 1)
    BY <1>1, <1>4, TimesAssumption DEF NextAddress, Awaited
  <2>2. awaited' = [awaited EXCEPT !.further = awaited.further - 1, !.waited = 0]
    BY <1>4 DEF NextAddress
  <2> QED BY <1>1, <1>2, <2>1, <2>2 DEF Awaited
<1> QED BY <1>3, <1>4

LEMMA TypedStep ==
  ASSUME TInv, [Next]_vars
  PROVE  (TypeOK /\ WaitsInItsPlace)'
<1> USE DEF TInv
<1>1. ASSUME NEW found \in Sweep, Analyse(found) PROVE  (TypeOK /\ WaitsInItsPlace)'
  BY <1>1, SweepAssumption DEF Analyse, TypeOK, WaitsInItsPlace
<1>2. CASE SendStatus
  <2>1. awaited' \in Awaited
    BY <1>2, AwaitType DEF SendStatus, State, Request, Status
  <2>2. QED
    BY <1>2, <2>1, OvertakeType, TimesAssumption DEF SendStatus, TypeOK, WaitsInItsPlace
<1>3. CASE SkipRepeat
  BY <1>3, HeadTailProperties DEF SkipRepeat, TypeOK, WaitsInItsPlace
<1>4. CASE SendAlert
  <2>1. Head(todo) \in Alert /\ Tail(todo) \in Seq(Alert)
    BY <1>4, HeadTailProperties DEF SendAlert, TypeOK
  <2>2. awaited' \in Awaited
    BY <1>4, <2>1, AwaitType DEF SendAlert, Request, Post
  <2>3. lastSent' \in [Alert -> 0..Suppress]
    BY <1>4, <2>1, TimesAssumption DEF SendAlert, TypeOK
  <2>4. tally' \in [sent : 0..MaxCount, failed : 0..MaxCount, posted : 0..MaxCount,
                    stored : 0..MaxCount, turn : 0..MaxCount]
    <3>1. Count(tally.posted) \in 0..MaxCount /\ Count(tally.turn) \in 0..MaxCount
      BY CountIs DEF TypeOK
    <3>2. QED
      BY <1>4, <3>1 DEF SendAlert, TypeOK
  <2>5. QED
    BY <1>4, <2>1, <2>2, <2>3, <2>4 DEF SendAlert, TypeOK, WaitsInItsPlace
<1>5. CASE NextSweep
  BY <1>5, TimesAssumption DEF NextSweep, TypeOK, WaitsInItsPlace
<1>6. CASE Accepted
  <2>1. tally' \in [sent : 0..MaxCount, failed : 0..MaxCount, posted : 0..MaxCount,
                    stored : 0..MaxCount, turn : 0..MaxCount]
    <3>1. Count(tally.sent) \in 0..MaxCount /\ Count(tally.failed) \in 0..MaxCount
          /\ 0 \in 0..MaxCount
      BY CountIs, TimesAssumption DEF TypeOK
    <3> QED BY <1>6, <3>1 DEF Accepted, TypeOK
  <2>2. QED
    BY <1>6, <2>1 DEF Accepted, TypeOK, WaitsInItsPlace
<1>7. CASE GiveUp
  <2>1. tally' \in [sent : 0..MaxCount, failed : 0..MaxCount, posted : 0..MaxCount,
                    stored : 0..MaxCount, turn : 0..MaxCount]
    <3>1. Count(tally.sent) \in 0..MaxCount /\ Count(tally.failed) \in 0..MaxCount
          /\ 0 \in 0..MaxCount
      BY CountIs, TimesAssumption DEF TypeOK
    <3> QED BY <1>7, <3>1 DEF GiveUp, TypeOK
  <2>2. QED
    BY <1>7, <2>1, AbandonType DEF GiveUp, TypeOK, WaitsInItsPlace
<1>8. CASE StopMonitor
  BY <1>8, AbandonType, TimesAssumption, EmptySeq DEF StopMonitor, TypeOK, WaitsInItsPlace
<1>9. CASE Handle
  <2>1. awaited \in Awaited /\ awaited.req \in Request
    BY <1>9 DEF Handle, TypeOK, Awaited
  <2>2. awaited' \in Awaited
    BY <1>9, <2>1 DEF Handle, Awaited
  <2>3. QED
    BY <1>9, <2>1, <2>2, ReceiveType DEF Handle, Receive, TypeOK, WaitsInItsPlace
<1>10. ASSUME NEW l \in late, HandleLate(l) PROVE  (TypeOK /\ WaitsInItsPlace)'
  <2>1. l.req \in Request
    BY DEF TypeOK
  <2>2. QED
    BY <1>10, <2>1, ReceiveType DEF HandleLate, Receive, TypeOK, WaitsInItsPlace
<1>11. ASSUME NEW l \in late, LoseLate(l) PROVE  (TypeOK /\ WaitsInItsPlace)'
  BY <1>11 DEF LoseLate, TypeOK, WaitsInItsPlace
<1>12. CASE StopReceiver
  BY <1>12 DEF StopReceiver, TypeOK, WaitsInItsPlace, Awaited
<1>13. CASE StartReceiver
  BY <1>13 DEF StartReceiver, TypeOK, WaitsInItsPlace
<1>14. CASE Tick
  BY <1>14, TickIsPass, PassType DEF Pass, WaitsInItsPlace
<1>15. CASE UNCHANGED vars
  BY <1>15 DEF vars, TypeOK, WaitsInItsPlace
<1>16. CASE Connect
  BY <1>16, ConnectType DEF Connect, TypeOK, WaitsInItsPlace
<1>17. CASE NextAddress
  BY <1>17, ConnectType DEF NextAddress, TypeOK, WaitsInItsPlace
<1>18. QED
  BY <1>1, <1>2, <1>3, <1>4, <1>5, <1>6, <1>7, <1>8, <1>9, <1>10, <1>11, <1>12, <1>13,
     <1>14, <1>15, <1>16, <1>17 DEF Next, Monitor, Faults, TimeOut, PostError

\* A step that ends no wait, or begins the next one, keeps the sum.
LEMMA WaitsStep ==
  ASSUME TInv, [Next]_vars
  PROVE  WaitsAddUp'
<1> USE DEF TInv
<1>0. \A k \in Nat : Waits(k) \in Nat /\ Waits(k + 1) = Waits(k) + Timeout
  BY WaitsIs
<1>1. ASSUME awaited' = None \/ awaited' = awaited PROVE WaitsAddUp'
  BY <1>1 DEF WaitsAddUp, Waits
<1>2. ASSUME NEW r \in Request, Await(r) PROVE WaitsAddUp'
  <2>1. awaited'.age = 0 /\ awaited'.waited = 0 /\ awaited'.stage = "connecting"
        /\ (Addresses - 1) - awaited'.further = 0
    BY <1>2, TimesAssumption DEF Await
  <2>2. Waits(0) \in Nat
    BY <1>0
  <2> QED BY <2>1, <2>2 DEF WaitsAddUp, Waits
<1>3. ASSUME awaited # None, awaited \in Awaited,
             awaited'.age = awaited.age, awaited'.waited = awaited.waited,
             awaited.stage # "connecting" /\ awaited'.stage # "connecting"
      PROVE  WaitsAddUp'
  BY <1>3 DEF WaitsAddUp, Waits
<1>4. CASE Connect \/ NextAddress
  <2>1. awaited # None /\ awaited \in Awaited /\ awaited.stage = "connecting"
        /\ awaited'.age = awaited.age /\ awaited'.waited = 0
    BY <1>4, ConnectType
  <2>2. /\ awaited.further \in 0..(Addresses - 1) /\ Addresses \in Nat /\ Timeout \in Nat
        /\ awaited.waited \in 0..Timeout /\ awaited.age \in Nat
    BY <2>1, TimesAssumption, WaitsIs DEF Awaited
  <2>3. PICK k : k = (Addresses - 1) - awaited.further
    OBVIOUS
  <2>4. k \in Nat /\ k + 1 <= Addresses
    BY <2>2, <2>3
  <2>5. awaited.age <= Waits(k) + awaited.waited
    BY <2>1, <2>3 DEF WaitsAddUp
  <2>6. awaited'.age <= Waits(k + 1) + awaited'.waited
    <3>1. Waits(k) \in Nat /\ Waits(k + 1) = Waits(k) + Timeout
      BY <1>0, <2>4
    <3> QED BY <2>1, <2>2, <2>5, <3>1
  <2>7. CASE Connect
    <3>1. awaited'.stage = "wire"
      BY <2>1, <2>7 DEF Connect, Awaited
    <3>2. Waits(k + 1) <= Waits(Addresses) /\ Waits(k + 1) \in Nat /\ Waits(Addresses) \in Nat
      <4>1. k + 1 \in Nat /\ Addresses \in Nat
        BY <2>2, <2>4
      <4> QED BY <1>0, <2>4, <4>1, WaitsGrow
    <3>3. awaited'.age <= Waits(Addresses) + awaited'.waited
      BY <2>1, <2>2, <2>6, <3>2
    <3> QED BY <3>1, <3>3 DEF WaitsAddUp, Waits
  <2>8. CASE NextAddress
    <3>1. awaited' = [awaited EXCEPT !.further = awaited.further - 1, !.waited = 0]
      BY <2>8 DEF NextAddress
    <3>2. awaited'.stage = "connecting" /\ awaited'.further = awaited.further - 1
      BY <2>1, <3>1 DEF Awaited
    <3>3. (Addresses - 1) - awaited'.further = k + 1
      BY <2>2, <2>3, <3>2
    <3> QED BY <2>6, <3>2, <3>3 DEF WaitsAddUp, Waits
  <2> QED BY <1>4, <2>7, <2>8
<1>5. CASE Tick
  <2>1. Pass /\ (awaited # None => awaited.waited < Timeout)
    BY <1>5, TickIsPass
  <2>2. CASE awaited = None
    BY <1>1, <2>1, <2>2 DEF Pass
  <2>3. CASE awaited # None
    <3>1. awaited \in Awaited /\ awaited' = [awaited EXCEPT !.age = @ + 1, !.waited = @ + 1]
      BY <2>1, <2>3 DEF Pass, TypeOK
    <3>2. awaited'.age = awaited.age + 1 /\ awaited'.waited = awaited.waited + 1
          /\ awaited'.stage = awaited.stage /\ awaited'.further = awaited.further
      BY <3>1 DEF Awaited
    <3>3. PICK k : k = IF awaited.stage = "connecting"
                       THEN (Addresses - 1) - awaited.further ELSE Addresses
      OBVIOUS
    <3>4. k \in Nat /\ awaited.age \in Nat /\ awaited.waited \in Nat
      BY <3>1, <3>3, TimesAssumption, WaitsIs DEF Awaited
    <3>5. Waits(k) \in Nat /\ awaited.age <= Waits(k) + awaited.waited
      BY <1>0, <2>3, <3>3, <3>4 DEF WaitsAddUp
    <3>6. awaited'.age <= Waits(k) + awaited'.waited
      BY <3>2, <3>4, <3>5
    <3> QED BY <3>2, <3>3, <3>6 DEF WaitsAddUp, Waits
  <2> QED BY <2>2, <2>3
<1>6. CASE SendStatus
  <2>1. [what |-> "status", of |-> State, lag |-> 0] \in Request
    BY DEF State, Request, Status
  <2> QED BY <1>2, <1>6, <2>1 DEF SendStatus
<1>7. CASE SendAlert
  <2>1. Head(todo) \in Alert
    BY <1>7, HeadTailProperties DEF SendAlert, TypeOK
  <2>2. [what |-> "alert", of |-> Head(todo)] \in Request
    BY <2>1 DEF Request, Post
  <2> QED BY <1>2, <1>7, <2>2 DEF SendAlert
<1>8. CASE Handle
  <2>1. awaited # None /\ awaited \in Awaited /\ awaited.stage = "wire"
        /\ awaited' = [awaited EXCEPT !.stage = "answered"]
    BY <1>8 DEF Handle, TypeOK
  <2>2. awaited'.age = awaited.age /\ awaited'.waited = awaited.waited
        /\ awaited'.stage = "answered"
    BY <2>1 DEF Awaited
  <2> QED BY <1>3, <2>1, <2>2
<1>9. CASE StopReceiver
  <2>1. CASE awaited # None /\ awaited.stage = "wire"
    <3>1. awaited \in Awaited /\ awaited' = [awaited EXCEPT !.stage = "reset"]
      BY <1>9, <2>1 DEF StopReceiver, TypeOK
    <3>2. awaited'.age = awaited.age /\ awaited'.waited = awaited.waited
          /\ awaited'.stage = "reset"
      BY <3>1 DEF Awaited
    <3> QED BY <1>3, <2>1, <3>1, <3>2
  <2>2. CASE ~(awaited # None /\ awaited.stage = "wire")
    BY <1>1, <1>9, <2>2 DEF StopReceiver
  <2> QED BY <2>1, <2>2
<1>10. QED
  BY <1>1, <1>4, <1>5, <1>6, <1>7, <1>8, <1>9
  DEF Next, Monitor, Faults, TimeOut, PostError, Analyse, SkipRepeat, NextSweep, Accepted,
      GiveUp, Abandon, StopMonitor, HandleLate, Receive, LoseLate, StartReceiver, vars

LEMMA TStep ==
  ASSUME TInv, [Next]_vars
  PROVE  TInv'
BY TypedStep, WaitsStep DEF TInv

THEOREM TypedAlways == Spec => []TInv
BY TInit, TStep, PTL DEF Spec

\* Types, and ages within the limits they are kept to.
THEOREM TypeCorrect == Spec => []TypeOK
BY TypedAlways, PTL DEF TInv

----------------------------------------------------------------------------
(* The lane *)

\* Each heartbeat there is is at least as old as the monitor's silence, but
\* for the time it lay unread before it was stamped.
HeartbeatsDated ==
  /\ awaited # None /\ awaited.req.what = "status" => silence <= awaited.age
  /\ \A l \in late : l.req.what = "status" => silence <= l.age
  /\ shown # None /\ shown.age <= Stale => silence <= shown.age + Linger

LEMMA FreshAbandon ==
  ASSUME TypeOK, HeartbeatsDated, awaited # None, Abandon, UNCHANGED <<shown, silence>>
  PROVE  HeartbeatsDated'
BY DEF TypeOK, HeartbeatsDated, Abandon, Awaited

\* A heartbeat is stamped when it is read, at most Linger after it was sent.
LEMMA FreshReceive ==
  ASSUME TypeOK, NEW r \in Request, Receive(r), HeartbeatsDated,
         r.what = "status" => silence <= Linger
  PROVE  shown' # None /\ shown'.age <= Stale => silence' <= shown'.age + Linger
<1>1. CASE r.what = "status"
  BY <1>1, TimesAssumption DEF TypeOK, Receive
<1>2. CASE r.what # "status"
  BY <1>2 DEF Receive, HeartbeatsDated
<1>3. QED
  BY <1>1, <1>2

LEMMA FreshPass ==
  ASSUME TypeOK, HeartbeatsDated, Pass
  PROVE  HeartbeatsDated'
<1>1. Stale + Linger + 1 \in Nat /\ silence \in 0..(Stale + Linger + 1)
  BY TimesAssumption DEF TypeOK
<1>2. silence' <= silence + 1 /\ silence' \in Nat
  BY <1>1, OlderIs DEF Pass
<1>3. ASSUME awaited' # None, awaited'.req.what = "status" PROVE silence' <= awaited'.age
  <2>1. awaited # None /\ awaited \in Awaited
        /\ awaited' = [awaited EXCEPT !.age = @ + 1, !.waited = @ + 1]
    BY <1>3 DEF Pass, TypeOK
  <2>2. awaited'.req = awaited.req /\ awaited'.age = awaited.age + 1 /\ awaited.age \in Nat
    BY <2>1, SlowestIs DEF Awaited
  <2>3. QED
    BY <1>1, <1>2, <1>3, <2>1, <2>2 DEF HeartbeatsDated
<1>4. ASSUME NEW k \in late', k.req.what = "status" PROVE silence' <= k.age
  <2>1. PICK l \in late : k = [l EXCEPT !.age = @ + 1]
    BY <1>4 DEF Pass
  <2>2. l \in [req : Request, age : 0..Linger]
    BY DEF TypeOK
  <2>3. k.req = l.req /\ k.age = l.age + 1 /\ l.age \in Nat
    BY <2>1, <2>2, TimesAssumption
  <2>4. QED
    BY <1>1, <1>2, <1>4, <2>3 DEF HeartbeatsDated
<1>5. ASSUME shown' # None, shown'.age <= Stale PROVE silence' <= shown'.age + Linger
  <2>1. shown # None /\ shown \in Shown
        /\ shown' = [shown EXCEPT !.age = Older(shown.age, Stale + 1)]
    BY <1>5 DEF Pass, TypeOK
  <2>2. shown'.age = Older(shown.age, Stale + 1) /\ shown.age \in 0..(Stale + 1)
    BY <2>1 DEF Shown
  <2>3. Stale + 1 \in Nat
    BY TimesAssumption
  <2>4. shown'.age = shown.age + 1
    <3>1. shown'.age = shown.age + 1 \/ shown'.age = Stale + 1
      BY <2>2, <2>3, OlderIs
    <3>2. QED
      BY <1>5, <3>1, TimesAssumption
  <2>5. shown.age <= Stale
    BY <1>5, <2>2, <2>4, TimesAssumption
  <2>6. silence <= shown.age + Linger
    BY <2>1, <2>5 DEF HeartbeatsDated
  <2>7. QED
    BY <1>1, <1>2, <2>2, <2>4, <2>6, TimesAssumption
<1>6. QED
  BY <1>3, <1>4, <1>5 DEF HeartbeatsDated

LEMMA FreshStep ==
  ASSUME TInv, HeartbeatsDated, [Next]_vars
  PROVE  HeartbeatsDated'
<1> USE DEF TInv
<1>1. ASSUME NEW found \in Sweep, Analyse(found) PROVE HeartbeatsDated'
  BY <1>1 DEF Analyse, HeartbeatsDated
<1>2. CASE SendStatus
  <2>1. silence' = 0 /\ awaited'.age = 0
    BY <1>2 DEF SendStatus, Await
  <2>2. \A l \in late' : l.age \in Nat
    BY <1>2, OvertakeType, TimesAssumption DEF SendStatus
  <2>3. shown' # None => shown'.age \in Nat
    BY <1>2, OvertakeType, TimesAssumption DEF SendStatus, Shown
  <2>4. QED
    BY <2>1, <2>2, <2>3, TimesAssumption DEF HeartbeatsDated
<1>3. CASE SkipRepeat
  BY <1>3 DEF SkipRepeat, HeartbeatsDated
<1>4. CASE SendAlert
  <2>1. awaited'.req.what = "alert"
    BY <1>4 DEF SendAlert, Await
  <2>2. QED
    BY <1>4, <2>1 DEF SendAlert, HeartbeatsDated
<1>5. CASE NextSweep
  BY <1>5 DEF NextSweep, HeartbeatsDated
<1>6. CASE Accepted
  BY <1>6 DEF Accepted, HeartbeatsDated
<1>7. CASE GiveUp
  BY <1>7, FreshAbandon DEF GiveUp
<1>8. CASE StopMonitor
  <2>1. CASE awaited = None
    BY <1>8, <2>1 DEF StopMonitor, HeartbeatsDated
  <2>2. CASE awaited # None
    BY <1>8, <2>2, FreshAbandon DEF StopMonitor
  <2>3. QED
    BY <2>1, <2>2
<1>9. CASE Handle
  <2>1. awaited \in Awaited /\ awaited.req \in Request /\ awaited.age <= Linger
    <3>1. awaited \in Awaited
      BY <1>9 DEF Handle, TypeOK
    <3>2. awaited.req \in Request /\ awaited.age \in 0..Slowest
      BY <3>1 DEF Awaited
    <3> QED BY <3>1, <3>2, SlowestIs
  <2>2. awaited.req.what = "status" => silence <= Linger
    <3>1. silence \in Int /\ awaited.age \in Int /\ Linger \in Int
      BY <2>1, TimesAssumption DEF TypeOK, Awaited
    <3>2. awaited.req.what = "status" => silence <= awaited.age
      BY <1>9 DEF Handle, HeartbeatsDated
    <3> QED BY <2>1, <3>1, <3>2
  <2>3. awaited'.req = awaited.req /\ awaited'.age = awaited.age /\ awaited # None
        /\ UNCHANGED <<late, silence>>
    BY <1>9, <2>1 DEF Handle, Receive, Awaited
  <2>4. shown' # None /\ shown'.age <= Stale => silence' <= shown'.age + Linger
    BY <1>9, <2>1, <2>2, FreshReceive DEF Handle
  <2>5. QED
    BY <2>3, <2>4 DEF HeartbeatsDated
<1>10. ASSUME NEW l \in late, HandleLate(l) PROVE HeartbeatsDated'
  <2>1. l.req \in Request /\ l.age \in 0..Linger
    BY DEF TypeOK
  <2>2. l.req.what = "status" => silence <= Linger
    BY <2>1, TimesAssumption DEF HeartbeatsDated, TypeOK
  <2>3. shown' # None /\ shown'.age <= Stale => silence' <= shown'.age + Linger
    BY <1>10, <2>1, <2>2, FreshReceive DEF HandleLate
  <2>4. QED
    BY <1>10, <2>3 DEF HandleLate, Receive, HeartbeatsDated
<1>11. ASSUME NEW l \in late, LoseLate(l) PROVE HeartbeatsDated'
  BY <1>11 DEF LoseLate, HeartbeatsDated
<1>12. CASE StopReceiver
  BY <1>12 DEF StopReceiver, TypeOK, Awaited, HeartbeatsDated
<1>13. CASE StartReceiver
  BY <1>13 DEF StartReceiver, HeartbeatsDated
<1>14. CASE Tick
  BY <1>14, TickIsPass, FreshPass
<1>15. CASE UNCHANGED vars
  BY <1>15 DEF vars, HeartbeatsDated
<1>16. CASE Connect \/ NextAddress
  <2>1. awaited # None /\ awaited'.req = awaited.req /\ awaited'.age = awaited.age
    BY <1>16, ConnectType
  <2>2. UNCHANGED <<late, shown, silence>>
    BY <1>16 DEF Connect, NextAddress
  <2> QED BY <2>1, <2>2 DEF HeartbeatsDated
<1>17. QED
  BY <1>1, <1>2, <1>3, <1>4, <1>5, <1>6, <1>7, <1>8, <1>9, <1>10, <1>11, <1>12, <1>13,
     <1>14, <1>15, <1>16 DEF Next, Monitor, Faults, TimeOut, PostError

LEMMA FreshBecauseDated ==
  ASSUME TypeOK, HeartbeatsDated
  PROVE  FreshMeansAlive
<1>1. SUFFICES ASSUME shown # None, ~(shown.age > Stale)
               PROVE  silence <= Stale + Linger
  BY DEF FreshMeansAlive, Condition
<1>2. shown.age \in Nat /\ shown.age <= Stale
  BY <1>1, TimesAssumption DEF TypeOK, Shown
<1>3. QED
  BY <1>1, <1>2, TimesAssumption DEF HeartbeatsDated, TypeOK

\* A lane that is not offline had a living monitor at most the stale time and
\* the time a request may lie unread ago, whatever fails and whenever either
\* program stops or starts (alert_receiver.py:31-33, 77, 599).
THEOREM FreshLanesAreAlive == Spec => []FreshMeansAlive
<1>1. Init => HeartbeatsDated
  BY TimesAssumption DEF Init, HeartbeatsDated
<1>2. TInv /\ HeartbeatsDated /\ [Next]_vars => HeartbeatsDated'
  BY FreshStep
<1>3. TInv /\ HeartbeatsDated => FreshMeansAlive
  BY FreshBecauseDated DEF TInv
<1>4. QED
  BY <1>1, <1>2, <1>3, TypedAlways, PTL DEF Spec

----------------------------------------------------------------------------
(* The counters *)

LateAlerts == {l \in late : l.req.what = "alert"}
Unread == Waiting /\ awaited.stage \in {"connecting", "wire"}
Answered == Waiting /\ awaited.stage = "answered"

One(b) == IF b THEN 1 ELSE 0

\* Every alert posted is counted by the monitor once, or is waited for; what
\* the receiver stored and what it may yet store were all posted.
Balanced ==
  /\ tally.sent + tally.failed + One(Waiting) = tally.posted
  /\ tally.sent + One(Answered) <= tally.stored
  /\ tally.stored + Cardinality(LateAlerts) + One(Unread) <= tally.posted

\* From MaxCount on the counters are not exact.
Counting == tally.posted < MaxCount /\ pc # "stopped"

CInv == IsFiniteSet(late) /\ (Counting => Balanced)

LEMMA ImageSmaller ==
  ASSUME NEW S, IsFiniteSet(S), NEW f
  PROVE  LET T == {f[x] : x \in S}
         IN  IsFiniteSet(T) /\ Cardinality(T) <= Cardinality(S)
<1> DEFINE T == {f[x] : x \in S}
<1> DEFINE g == [x \in S |-> f[x]]
<1>1. g \in Surjection(S, T)
  BY DEF Surjection
<1>2. QED
  BY <1>1, FS_Surjection

LEMMA FewAlerts ==
  ASSUME IsFiniteSet(late)
  PROVE  IsFiniteSet(LateAlerts) /\ Cardinality(LateAlerts) \in Nat
<1>1. LateAlerts \in SUBSET late
  BY DEF LateAlerts
<1>2. QED
  BY <1>1, FS_Subset, FS_CardinalityType

LEMMA OvertakeKeepsAlerts ==
  ASSUME TypeOK, Overtake
  PROVE  /\ LateAlerts' = LateAlerts
         /\ IsFiniteSet(late) => IsFiniteSet(late')
<1>0. PICK f : f = [l \in late |->
                     [l EXCEPT !.req = IF @.what = "status" THEN Behind(@) ELSE @]]
  OBVIOUS
<1>1. late' = {f[l] : l \in late}
  BY <1>0 DEF Overtake
<1>2. ASSUME NEW l \in late
      PROVE  /\ l.req.what = "alert" => f[l] = l
             /\ l.req.what # "alert" => f[l].req.what # "alert"
  <2>1. l \in [req : Request, age : 0..Linger]
    BY DEF TypeOK
  <2>2. CASE l.req.what = "alert"
    BY <1>0, <2>1, <2>2
  <2>3. CASE l.req.what # "alert"
    <3>1. l.req.what = "status" /\ l.req \in Status
      BY <2>1, <2>3, TwoKinds
    <3>2. f[l].req = Behind(l.req)
      BY <1>0, <2>1, <3>1
    <3>3. Behind(l.req).what = "status"
      BY <3>1, BehindIs DEF Status
    <3>4. QED
      BY <2>3, <3>2, <3>3
  <2>4. QED
    BY <2>2, <2>3
<1>3. LateAlerts' = LateAlerts
  BY <1>1, <1>2 DEF LateAlerts
<1>4. QED
  BY <1>1, <1>3, ImageSmaller

LEMMA PassKeepsAlerts ==
  ASSUME TypeOK, Pass, IsFiniteSet(late)
  PROVE  /\ LateAlerts' = {[l EXCEPT !.age = @ + 1] : l \in LateAlerts}
         /\ Cardinality(LateAlerts') <= Cardinality(LateAlerts)
         /\ IsFiniteSet(late')
<1>0. PICK f : f = [l \in late |-> [l EXCEPT !.age = @ + 1]]
  OBVIOUS
<1>1. late' = {f[l] : l \in late}
  BY <1>0 DEF Pass
<1>2. ASSUME NEW l \in late PROVE f[l].req = l.req
  BY <1>0 DEF TypeOK
<1>3. LateAlerts' = {f[l] : l \in LateAlerts}
  BY <1>1, <1>2 DEF LateAlerts
<1>4. {f[l] : l \in LateAlerts} = {[l EXCEPT !.age = @ + 1] : l \in LateAlerts}
  BY <1>0 DEF LateAlerts
<1>5. QED
  BY <1>1, <1>3, <1>4, FewAlerts, ImageSmaller

LEMMA OneFewer ==
  ASSUME IsFiniteSet(late), NEW l \in late, late' = late \ {l}
  PROVE  /\ LateAlerts' = LateAlerts \ {l}
         /\ Cardinality(LateAlerts') = Cardinality(LateAlerts) - One(l.req.what = "alert")
         /\ IsFiniteSet(late')
<1>1. LateAlerts' = LateAlerts \ {l}
  BY DEF LateAlerts
<1>2. (l \in LateAlerts) <=> l.req.what = "alert"
  BY DEF LateAlerts
<1>3. QED
  BY <1>1, <1>2, FewAlerts, FS_RemoveElement, FS_CardinalityType DEF One

\* What is given up on becomes late, or is lost.
LEMMA AbandonBalance ==
  ASSUME TInv, IsFiniteSet(late), awaited # None, Abandon
  PROVE  /\ IsFiniteSet(late')
         /\ Cardinality(LateAlerts') <= Cardinality(LateAlerts) + One(Unread)
         /\ ~Waiting' /\ ~Unread' /\ ~Answered'
<1>1. ~Waiting' /\ ~Unread' /\ ~Answered'
  BY DEF Abandon, Waiting, Unread, Answered
<1>2. CASE late' = late
  BY <1>1, <1>2, FewAlerts DEF LateAlerts, One
<1>3. CASE late' # late
  <2> DEFINE l == [req |-> awaited.req, age |-> awaited.age]
  <2>1. awaited.stage = "wire" /\ late' = late \cup {l}
    BY <1>3 DEF Abandon
  <2>2. IsFiniteSet(late')
    BY <2>1, FS_AddElement
  <2>3. CASE awaited.req.what = "alert"
    <3>1. Unread /\ LateAlerts' = LateAlerts \cup {l}
      BY <2>1, <2>3 DEF LateAlerts, Unread, Waiting
    <3>2. QED
      <4>1. Cardinality(LateAlerts') <= Cardinality(LateAlerts) + 1
        <5>1. IsFiniteSet(LateAlerts) /\ Cardinality(LateAlerts) \in Nat
          BY FewAlerts
        <5>2. Cardinality(LateAlerts \cup {l})
                = IF l \in LateAlerts THEN Cardinality(LateAlerts) ELSE Cardinality(LateAlerts) + 1
          BY <5>1, FS_AddElement
        <5>3. QED
          BY <3>1, <5>1, <5>2
      <4>2. QED
        BY <1>1, <2>2, <3>1, <4>1 DEF One
  <2>4. CASE awaited.req.what # "alert"
    <3>1. LateAlerts' = LateAlerts
      BY <2>1, <2>4 DEF LateAlerts
    <3>2. QED
      BY <1>1, <2>2, <3>1, FewAlerts DEF One
  <2>5. QED
    BY <2>3, <2>4
<1>4. QED
  BY <1>2, <1>3

LEMMA CountUp ==
  ASSUME NEW n \in Nat, n < MaxCount
  PROVE  Count(n) = n + 1
BY TimesAssumption DEF Count, Least

\* Whatever happens, the counters stay in balance.
LEMMA BalanceStep ==
  ASSUME TInv, CInv, [Next]_vars
  PROVE  CInv'
<1> USE DEF TInv
<1> DEFINE c == tally
<1>0. /\ c.sent \in 0..MaxCount /\ c.failed \in 0..MaxCount
      /\ c.posted \in 0..MaxCount /\ c.stored \in 0..MaxCount
      /\ c = [sent |-> c.sent, failed |-> c.failed, posted |-> c.posted, stored |-> c.stored,
              turn |-> c.turn]
      /\ IsFiniteSet(late) /\ Cardinality(LateAlerts) \in Nat
  BY FewAlerts DEF TypeOK, CInv
<1>1. ASSUME NEW found \in Sweep, Analyse(found) PROVE CInv'
  BY <1>1 DEF Analyse, CInv, Counting, Balanced, One, Waiting, Unread, Answered, LateAlerts
<1>2. CASE SendStatus
  <2>1. ~Waiting /\ ~Unread /\ ~Answered /\ ~Waiting' /\ ~Unread' /\ ~Answered'
    BY <1>2 DEF SendStatus, Await, Waiting, Unread, Answered
  <2>2. LateAlerts' = LateAlerts /\ IsFiniteSet(late')
    BY <1>0, <1>2, OvertakeKeepsAlerts DEF SendStatus
  <2>3. QED
    BY <1>2, <2>1, <2>2 DEF SendStatus, CInv, Counting, Balanced, One
<1>3. CASE SkipRepeat
  BY <1>3 DEF SkipRepeat, CInv, Counting, Balanced, One, Waiting, Unread, Answered, LateAlerts
<1>4. CASE SendAlert
  <2>1. Head(todo) \in Alert
    BY <1>4, HeadTailProperties DEF SendAlert, TypeOK
  <2>2. awaited' \in Awaited /\ awaited'.req.what = "alert" /\ awaited'.stage = "connecting"
    BY <1>4, <2>1, AwaitType DEF SendAlert, Await, Request, Post
  <2>3. ~Waiting /\ ~Unread /\ ~Answered /\ Waiting' /\ Unread' /\ ~Answered'
    BY <1>4, <2>2, NoneAssumption DEF SendAlert, Waiting, Unread, Answered
  <2>4. LateAlerts' = LateAlerts /\ IsFiniteSet(late')
    BY <1>0, <1>4 DEF SendAlert, LateAlerts
  <2>5. tally'.sent = c.sent /\ tally'.failed = c.failed /\ tally'.stored = c.stored
        /\ tally'.posted = Count(c.posted)
    BY <1>0, <1>4 DEF SendAlert
  <2>6. Counting' => Counting /\ tally'.posted = c.posted + 1
    <3>1. c.posted = MaxCount \/ Count(c.posted) = c.posted + 1
      BY <1>0, CountUp, TimesAssumption
    <3>2. c.posted = MaxCount => Count(c.posted) = MaxCount
      BY TimesAssumption DEF Count, Least
    <3>3. QED
      BY <1>0, <1>4, <2>5, <3>1, <3>2, TimesAssumption DEF SendAlert, Counting
  <2>7. QED
    BY <1>0, <2>3, <2>4, <2>5, <2>6 DEF CInv, Balanced, One
<1>5. CASE NextSweep
  BY <1>5 DEF NextSweep, CInv, Counting, Balanced, One, Waiting, Unread, Answered, LateAlerts
<1>6. CASE Accepted
  <2>1. ~Waiting' /\ ~Unread' /\ ~Answered' /\ ~Unread /\ (Answered <=> Waiting)
    BY <1>6 DEF Accepted, Waiting, Unread, Answered
  <2>2. LateAlerts' = LateAlerts /\ late' = late
    BY <1>6 DEF Accepted, LateAlerts
  <2>3. CASE ~Waiting
    <3>1. /\ pc' = pc /\ tally'.sent = c.sent /\ tally'.failed = c.failed
          /\ tally'.stored = c.stored /\ tally'.posted = c.posted
      BY <1>0, <1>6, <2>3 DEF Accepted, Waiting
    <3>2. QED
      BY <1>0, <2>1, <2>2, <2>3, <3>1 DEF CInv, Counting, Balanced, One
  <2>4. CASE Waiting
    <3>1. tally'.sent = Count(c.sent) /\ tally'.failed = c.failed
          /\ tally'.stored = c.stored /\ tally'.posted = c.posted /\ pc' = pc
      BY <1>0, <1>6, <2>4 DEF Accepted, Waiting
    <3>2. ASSUME Counting' PROVE Balanced'
      <4>1. Counting /\ Balanced
        BY <3>1, <3>2 DEF Counting, CInv
      <4>2. c.sent < MaxCount
        BY <1>0, <2>4, <4>1, TimesAssumption DEF Counting, Balanced, One
      <4>3. tally'.sent = c.sent + 1
        BY <1>0, <3>1, <4>2, CountUp
      <4>4. QED
        BY <1>0, <2>1, <2>2, <2>4, <3>1, <4>1, <4>3 DEF Balanced, One
    <3>3. QED
      BY <1>0, <2>2, <3>2 DEF CInv
  <2>5. QED
    BY <2>3, <2>4
<1>7. CASE GiveUp
  <2>1. /\ IsFiniteSet(late')
        /\ Cardinality(LateAlerts') <= Cardinality(LateAlerts) + One(Unread)
        /\ ~Waiting' /\ ~Unread' /\ ~Answered'
    BY <1>0, <1>7, AbandonBalance DEF GiveUp
  <2>2. Cardinality(LateAlerts') \in Nat
    <3>1. LateAlerts' \in SUBSET late'
      BY DEF LateAlerts
    <3>2. QED
      BY <2>1, <3>1, FS_Subset, FS_CardinalityType
  <2>3. CASE ~Waiting
    <3>1. /\ pc' = pc /\ tally'.sent = c.sent /\ tally'.failed = c.failed
          /\ tally'.stored = c.stored /\ tally'.posted = c.posted
      BY <1>0, <1>7, <2>3 DEF GiveUp, Waiting
    <3>2. ~Unread /\ ~Answered
      BY <2>3 DEF Unread, Answered
    <3>3. QED
      BY <1>0, <2>1, <2>2, <2>3, <3>1, <3>2 DEF CInv, Counting, Balanced, One
  <2>4. CASE Waiting
    <3>1. tally'.sent = c.sent /\ tally'.failed = Count(c.failed)
          /\ tally'.stored = c.stored /\ tally'.posted = c.posted /\ pc' = pc
      BY <1>0, <1>7, <2>4 DEF GiveUp, Waiting
    <3>2. ASSUME Counting' PROVE Balanced'
      <4>1. Counting /\ Balanced
        BY <3>1, <3>2 DEF Counting, CInv
      <4>2. c.failed < MaxCount
        BY <1>0, <2>4, <4>1, TimesAssumption DEF Counting, Balanced, One
      <4>3. tally'.failed = c.failed + 1
        BY <1>0, <3>1, <4>2, CountUp
      <4>4. QED
        BY <1>0, <2>1, <2>2, <2>4, <3>1, <4>1, <4>3 DEF Balanced, One
    <3>3. QED
      BY <2>1, <3>2 DEF CInv
  <2>5. QED
    BY <2>3, <2>4
<1>8. CASE StopMonitor
  <2>1. ~Counting'
    BY <1>8 DEF StopMonitor, Counting
  <2>2. IsFiniteSet(late')
    BY <1>0, <1>8, AbandonBalance DEF StopMonitor
  <2>3. QED
    BY <2>1, <2>2 DEF CInv
<1>9. CASE Handle
  <2>1. awaited \in Awaited /\ awaited.req \in Request /\ awaited.stage = "wire"
    BY <1>9 DEF Handle, TypeOK, Awaited
  <2>2. awaited' \in Awaited /\ awaited'.req = awaited.req /\ awaited'.stage = "answered"
    BY <1>9, <2>1 DEF Handle, Awaited
  <2>3. ~Unread' /\ ~Answered /\ (Waiting <=> Waiting') /\ (Answered' <=> Waiting)
        /\ (Unread <=> Waiting)
    BY <2>1, <2>2, NoneAssumption DEF Waiting, Unread, Answered
  <2>4. LateAlerts' = LateAlerts /\ late' = late /\ pc' = pc
    BY <1>9 DEF Handle, Receive, LateAlerts
  <2>5. CASE awaited.req.what = "status"
    <3>1. ~Waiting /\ tally' = tally
      BY <1>9, <2>5 DEF Handle, Receive, Waiting
    <3>2. QED
      BY <1>0, <2>3, <2>4, <3>1 DEF CInv, Counting, Balanced, One
  <2>6. CASE awaited.req.what # "status"
    <3>1. Waiting
      BY <2>1, <2>6, TwoKinds, NoneAssumption DEF Waiting
    <3>2. tally'.sent = c.sent /\ tally'.failed = c.failed
          /\ tally'.stored = Count(c.stored) /\ tally'.posted = c.posted
      BY <1>0, <1>9, <2>6 DEF Handle, Receive
    <3>3. ASSUME Counting' PROVE Balanced'
      <4>1. Counting /\ Balanced
        BY <2>4, <3>2, <3>3 DEF Counting, CInv
      <4>2. c.stored < MaxCount
        BY <1>0, <2>3, <3>1, <4>1, TimesAssumption DEF Counting, Balanced, One
      <4>3. tally'.stored = c.stored + 1
        BY <1>0, <3>2, <4>2, CountUp
      <4>4. QED
        BY <1>0, <2>3, <2>4, <3>1, <3>2, <4>1, <4>3 DEF Balanced, One
    <3>4. QED
      BY <1>0, <2>4, <3>3 DEF CInv
  <2>7. QED
    BY <2>5, <2>6
<1>10. ASSUME NEW l \in late, HandleLate(l) PROVE CInv'
  <2>1. l.req \in Request
    BY DEF TypeOK
  <2>2. UNCHANGED <<awaited, pc>> /\ late' = late \ {l}
    BY <1>10 DEF HandleLate, Receive
  <2>3. (Waiting <=> Waiting') /\ (Unread <=> Unread') /\ (Answered <=> Answered')
    BY <2>2 DEF Waiting, Unread, Answered
  <2>4. Cardinality(LateAlerts') = Cardinality(LateAlerts) - One(l.req.what = "alert")
        /\ IsFiniteSet(late')
    BY <1>0, <2>2, OneFewer
  <2>5. CASE l.req.what = "status"
    <3>1. tally' = tally /\ Cardinality(LateAlerts') = Cardinality(LateAlerts)
      BY <1>0, <1>10, <2>4, <2>5 DEF HandleLate, Receive, One
    <3>2. QED
      BY <1>0, <2>2, <2>3, <2>4, <3>1 DEF CInv, Counting, Balanced, One
  <2>6. CASE l.req.what # "status"
    <3>1. Cardinality(LateAlerts') = Cardinality(LateAlerts) - 1
          /\ l \in LateAlerts
      BY <2>1, <2>4, <2>6, TwoKinds DEF One, LateAlerts
    <3>2. tally'.sent = c.sent /\ tally'.failed = c.failed
          /\ tally'.stored = Count(c.stored) /\ tally'.posted = c.posted
      BY <1>0, <1>10, <2>6 DEF HandleLate, Receive
    <3>3. Cardinality(LateAlerts) >= 1
      <4>1. LateAlerts # {} /\ IsFiniteSet(LateAlerts)
        BY <1>0, <3>1, FewAlerts
      <4>2. QED
        BY <1>0, <4>1, FS_EmptySet
    <3>4. ASSUME Counting' PROVE Balanced'
      <4>1. Counting /\ Balanced
        BY <2>2, <3>2, <3>4 DEF Counting, CInv
      <4>2. c.stored < MaxCount
        BY <1>0, <3>3, <4>1, TimesAssumption DEF Counting, Balanced, One
      <4>3. tally'.stored = c.stored + 1
        BY <1>0, <3>2, <4>2, CountUp
      <4>4. QED
        BY <1>0, <2>3, <3>1, <3>2, <4>1, <4>3 DEF Balanced, One
    <3>5. QED
      BY <2>4, <3>4 DEF CInv
  <2>7. QED
    BY <2>5, <2>6
<1>11. ASSUME NEW l \in late, LoseLate(l) PROVE CInv'
  <2>1. UNCHANGED <<awaited, pc, tally>> /\ late' = late \ {l}
    BY <1>11 DEF LoseLate
  <2>2. (Waiting <=> Waiting') /\ (Unread <=> Unread') /\ (Answered <=> Answered')
    BY <2>1 DEF Waiting, Unread, Answered
  <2>3. Cardinality(LateAlerts') = Cardinality(LateAlerts) - One(l.req.what = "alert")
        /\ IsFiniteSet(late')
    BY <1>0, <2>1, OneFewer
  <2>4. QED
    BY <1>0, <2>1, <2>2, <2>3 DEF CInv, Counting, Balanced, One
<1>12. CASE StopReceiver
  <2>1. UNCHANGED <<pc, tally>> /\ late' = {}
    BY <1>12 DEF StopReceiver
  <2>2. LateAlerts' = {} /\ IsFiniteSet(late') /\ Cardinality(LateAlerts') = 0
    BY <2>1, FS_EmptySet DEF LateAlerts
  <2>3. (Unread' => Unread) /\ (Waiting <=> Waiting') /\ (Answered <=> Answered')
    BY <1>12, NoneAssumption DEF StopReceiver, TypeOK, Awaited, Unread, Waiting, Answered
  <2>4. QED
    BY <1>0, <2>1, <2>2, <2>3 DEF CInv, Counting, Balanced, One
<1>13. CASE StartReceiver
  BY <1>13 DEF StartReceiver, CInv, Counting, Balanced, One, Waiting, Unread, Answered,
               LateAlerts
<1>14. CASE Tick
  <2>1. Pass /\ UNCHANGED <<pc, tally>>
    BY <1>14, TickIsPass DEF Pass
  <2>2. Cardinality(LateAlerts') <= Cardinality(LateAlerts) /\ IsFiniteSet(late')
    BY <1>0, <2>1, PassKeepsAlerts
  <2>3. Cardinality(LateAlerts') \in Nat
    <3>1. LateAlerts' \in SUBSET late'
      BY DEF LateAlerts
    <3>2. QED
      BY <2>2, <3>1, FS_Subset, FS_CardinalityType
  <2>4. (Waiting <=> Waiting') /\ (Unread <=> Unread') /\ (Answered <=> Answered')
    <3>1. CASE awaited = None
      BY <2>1, <3>1 DEF Pass, Waiting, Unread, Answered
    <3>2. CASE awaited # None
      <4>1. awaited \in Awaited /\ TypeOK'
            /\ awaited' = [awaited EXCEPT !.age = @ + 1, !.waited = @ + 1]
        BY <2>1, <3>2, TStep DEF Pass, TypeOK
      <4>2. awaited'.req = awaited.req /\ awaited'.stage = awaited.stage
        BY <4>1 DEF Awaited
      <4>3. awaited' # None
        <5>1. awaited.age + 1 \in 0..Slowest /\ awaited.waited + 1 \in 0..Timeout
          BY <1>14, <3>2, TickIsPass, YoungPost
        <5>2. awaited' \in Awaited
          BY <4>1, <5>1 DEF Awaited
        <5>3. QED
          BY <5>2, NoneAssumption
      <4>4. QED
        BY <3>2, <4>2, <4>3 DEF Waiting, Unread, Answered
    <3>3. QED
      BY <3>1, <3>2
  <2>5. QED
    BY <1>0, <2>1, <2>2, <2>3, <2>4 DEF CInv, Counting, Balanced, One
<1>15. CASE UNCHANGED vars
  BY <1>15 DEF vars, CInv, Counting, Balanced, One, Waiting, Unread, Answered, LateAlerts
<1>16. CASE Connect \/ NextAddress
  <2>1. /\ awaited # None /\ awaited' # None /\ awaited'.req = awaited.req
        /\ awaited.stage = "connecting" /\ awaited'.stage \in {"connecting", "wire"}
    BY <1>16, ConnectType, NoneAssumption
  <2>2. UNCHANGED <<late, pc, tally>>
    BY <1>16 DEF Connect, NextAddress
  <2>3. (Waiting <=> Waiting') /\ (Unread <=> Unread') /\ (Answered <=> Answered')
    BY <2>1 DEF Waiting, Unread, Answered
  <2> QED BY <1>0, <2>2, <2>3 DEF CInv, Counting, Balanced, One, LateAlerts
<1>17. QED
  BY <1>1, <1>2, <1>3, <1>4, <1>5, <1>6, <1>7, <1>8, <1>9, <1>10, <1>11, <1>12, <1>13,
     <1>14, <1>15, <1>16 DEF Next, Monitor, Faults, TimeOut, PostError

LEMMA CInit == Init => CInv
<1>1. SUFFICES ASSUME Init PROVE CInv
  OBVIOUS
<1>2. LateAlerts = {} /\ ~Waiting /\ ~Unread /\ ~Answered
  BY <1>1 DEF Init, LateAlerts, Waiting, Unread, Answered
<1>3. IsFiniteSet(late) /\ Cardinality(LateAlerts) = 0
  BY <1>1, <1>2, FS_EmptySet DEF Init
<1>4. QED
  BY <1>1, <1>2, <1>3 DEF Init, CInv, Balanced, One

\* As long as the counters are exact: every alert the monitor posted is counted
\* once as delivered or failed, what is counted as delivered was stored, and
\* nothing is stored that was not posted (webhook.py:115-123, 177-189).
THEOREM CountersSound == Spec => []CountsAgree
<1>1. TInv /\ CInv => CountsAgree
  <2>1. SUFFICES ASSUME TInv, CInv, Counting PROVE CountsAgree
    BY DEF CountsAgree, Counting
  <2>2. Balanced /\ Cardinality(LateAlerts) \in Nat
    BY <2>1, FewAlerts DEF CInv
  <2>3. /\ tally.sent \in Nat /\ tally.failed \in Nat /\ tally.posted \in Nat
        /\ tally.stored \in Nat /\ pc # "stopped"
    BY <2>1, TimesAssumption DEF TInv, TypeOK, Counting
  <2>4. QED
    BY <2>2, <2>3 DEF CountsAgree, Balanced, One
<1>2. QED
  BY <1>1, CInit, BalanceStep, TypedAlways, PTL DEF Spec

----------------------------------------------------------------------------
(* Repeats *)

Late(l) == [of |-> l.req.of, age |-> l.age]

\* Where less may lie unread than repeats are held back for, what is on its
\* way was sent last, nothing of the same alert is on its way twice, and what
\* was stored before it is a suppression time older, less the lingering.
OneAtATime ==
  /\ \A p \in OnTheWay : p.age = lastSent[p.of] /\ storedAge[p.of] >= Suppress - Linger
  /\ Unread => \A l \in LateAlerts : l.req.of # awaited.req.of
  /\ \A a \in Alert : storedAge[a] >= lastSent[a] - Linger

SInv == Linger < Suppress => OneAtATime

\* What is on its way is late, or on the wire.
LEMMA OnTheWayIs ==
  OnTheWay = {Late(l) : l \in LateAlerts} \cup (IF Unread THEN {Late(awaited)} ELSE {})
BY DEF OnTheWay, LateAlerts, Unread, Late

LEMMA WayTyped ==
  ASSUME TypeOK
  PROVE  OnTheWay \subseteq [of : Alert, age : 0..Linger]
<1>1. ASSUME NEW l \in LateAlerts PROVE Late(l) \in [of : Alert, age : 0..Linger]
  <2>1. l.req \in Request /\ l.age \in 0..Linger /\ l.req.what = "alert"
    BY DEF LateAlerts, TypeOK
  <2>2. l.req.of \in Alert
    BY <2>1, TwoKinds
  <2>3. QED
    BY <2>1, <2>2 DEF Late
<1>2. Unread => Late(awaited) \in [of : Alert, age : 0..Linger]
  <2>1. SUFFICES ASSUME Unread PROVE Late(awaited) \in [of : Alert, age : 0..Linger]
    OBVIOUS
  <2>2. awaited \in Awaited /\ awaited.req.what = "alert"
    BY <2>1 DEF Unread, Waiting, TypeOK
  <2>3. awaited.req.of \in Alert /\ awaited.age \in 0..Linger
    BY <2>2, TwoKinds, SlowestIs DEF Awaited
  <2>4. QED
    BY <2>3 DEF Late
<1>3. QED
  BY <1>1, <1>2, OnTheWayIs

FeedStep == [Feed!Next]_(Feed!feedVars)

\* Nothing is sent or stored: what is on its way stays there or is lost.
LEMMA NothingHappens ==
  ASSUME OnTheWay' \subseteq OnTheWay, UNCHANGED <<lastSent, storedAge>>,
         Unread' => Unread /\ awaited'.req.of = awaited.req.of /\ LateAlerts' \subseteq LateAlerts
  PROVE  (SInv => SInv') /\ FeedStep
<1>1. SInv => SInv'
  BY DEF SInv, OneAtATime
<1>2. CASE OnTheWay' = OnTheWay
  BY <1>1, <1>2 DEF FeedStep, Feed!feedVars
<1>3. CASE OnTheWay' # OnTheWay
  <2> DEFINE lost == OnTheWay \ OnTheWay'
  <2>1. lost \in SUBSET OnTheWay /\ lost # {} /\ OnTheWay' = OnTheWay \ lost
    BY <1>3
  <2>2. Feed!Lose(lost)
    BY <2>1 DEF Feed!Lose
  <2>3. QED
    BY <1>1, <2>1, <2>2 DEF FeedStep, Feed!Next, Feed!Settle
<1>4. QED
  BY <1>1, <1>2, <1>3

LEMMA OneIsStored ==
  ASSUME TypeOK, SInv, Linger < Suppress, NEW p \in OnTheWay,
         OnTheWay' = OnTheWay \ {p}, storedAge' = [storedAge EXCEPT ![p.of] = 0],
         UNCHANGED lastSent,
         Unread' => Unread /\ awaited'.req.of = awaited.req.of /\ LateAlerts' \subseteq LateAlerts
  PROVE  SInv' /\ FeedStep
<1>1. OneAtATime
  BY DEF SInv
<1>2. /\ OnTheWay \subseteq [of : Alert, age : 0..Linger] /\ p.of \in Alert /\ p.age \in 0..Linger
      /\ lastSent \in [Alert -> 0..Suppress] /\ storedAge \in [Alert -> 0..Suppress]
  BY WayTyped DEF TypeOK
<1>3. \A q \in OnTheWay' : q.of # p.of
  BY <1>1, <1>2 DEF OneAtATime
<1>4. \A q \in OnTheWay' : q.age = lastSent'[q.of] /\ storedAge'[q.of] >= Suppress - Linger
  BY <1>1, <1>2, <1>3 DEF OneAtATime
<1>5. \A a \in Alert : storedAge'[a] >= lastSent'[a] - Linger
  <2>1. SUFFICES ASSUME NEW a \in Alert PROVE storedAge'[a] >= lastSent[a] - Linger
    OBVIOUS
  <2>2. CASE a = p.of
    BY <1>1, <1>2, <2>2, TimesAssumption DEF OneAtATime
  <2>3. CASE a # p.of
    BY <1>1, <1>2, <2>3 DEF OneAtATime
  <2>4. QED
    BY <2>2, <2>3
<1>6. Unread' => \A l \in LateAlerts' : l.req.of # awaited'.req.of
  BY <1>1 DEF OneAtATime
<1>7. SInv'
  BY <1>4, <1>5, <1>6 DEF SInv, OneAtATime
<1>8. Feed!Store(p)
  BY DEF Feed!Store
<1>9. QED
  BY <1>7, <1>8 DEF FeedStep, Feed!Next, Feed!Settle

LEMMA AbandonOnTheWay ==
  ASSUME TypeOK, awaited # None, Abandon
  PROVE  OnTheWay' \subseteq OnTheWay /\ ~Unread'
<1>1. ~Unread'
  BY DEF Abandon, Unread, Waiting
<1>2. CASE late' = late
  <2>1. LateAlerts' = LateAlerts
    BY <1>2 DEF LateAlerts
  <2>2. OnTheWay' = {Late(l) : l \in LateAlerts'}
    BY <1>1 DEF OnTheWay, Unread, Late, LateAlerts
  <2>3. QED
    BY <1>1, <2>1, <2>2, OnTheWayIs
<1>3. CASE late' # late
  <2> DEFINE k == [req |-> awaited.req, age |-> awaited.age]
  <2>1. awaited.stage = "wire" /\ late' = late \cup {k}
    BY <1>3 DEF Abandon
  <2>2. Late(k) = Late(awaited) /\ (k.req.what = "alert" => Unread)
    BY <2>1 DEF Late, Unread, Waiting
  <2>3. OnTheWay' = {Late(l) : l \in LateAlerts'}
    BY <1>1 DEF OnTheWay, Unread, Late, LateAlerts
  <2>4. \A l \in LateAlerts' : l \in LateAlerts \/ (l = k /\ Unread)
    BY <2>1, <2>2 DEF LateAlerts
  <2>5. \A l \in LateAlerts' : Late(l) \in OnTheWay
    BY <2>2, <2>4, OnTheWayIs
  <2>6. QED
    BY <1>1, <2>3, <2>5
<1>4. QED
  BY <1>2, <1>3

LEMMA OnTheWayLater ==
  OnTheWay' = {Late(l) : l \in LateAlerts'} \cup (IF Unread' THEN {Late(awaited')} ELSE {})
BY DEF OnTheWay, Unread, Late, LateAlerts

\* Late alerts are told apart by what they are about and their age.
LEMMA LateIsItself ==
  ASSUME TypeOK, NEW k \in LateAlerts, NEW l \in LateAlerts, Late(k) = Late(l)
  PROVE  k = l
<1>1. /\ k \in [req : Request, age : 0..Linger] /\ l \in [req : Request, age : 0..Linger]
      /\ k.req.what = "alert" /\ l.req.what = "alert"
  BY DEF LateAlerts, TypeOK
<1>2. k.req = [what |-> "alert", of |-> k.req.of] /\ l.req = [what |-> "alert", of |-> l.req.of]
  BY <1>1 DEF Request, Status, Post
<1>3. k.age = l.age /\ k.req.of = l.req.of
  BY DEF Late
<1>4. QED
  BY <1>1, <1>2, <1>3

\* An alert is read: it is stored, and no longer on its way.
LEMMA HandleTakesOne ==
  ASSUME TInv, SInv, Linger < Suppress, Handle, awaited.req.what # "status"
  PROVE  SInv' /\ FeedStep
<1>1. awaited \in Awaited /\ awaited.stage = "wire" /\ awaited.req.what = "alert"
  BY TwoKinds DEF TInv, TypeOK, Handle, Awaited
<1>2. Unread /\ awaited # None
  BY <1>1, NoneAssumption DEF Unread, Waiting
<1>3. awaited'.stage = "answered"
  BY <1>1 DEF Handle, Awaited
<1>4. ~Unread'
  BY <1>3 DEF Unread
<1>5. LateAlerts' = LateAlerts
  BY DEF Handle, LateAlerts
<1>6. Late(awaited) \notin {Late(l) : l \in LateAlerts}
  BY <1>2 DEF SInv, OneAtATime, Late
<1>7. OnTheWay' = OnTheWay \ {Late(awaited)} /\ Late(awaited) \in OnTheWay
  BY <1>2, <1>4, <1>5, <1>6, OnTheWayIs, OnTheWayLater
<1>8. storedAge' = [storedAge EXCEPT ![Late(awaited).of] = 0] /\ UNCHANGED lastSent
  BY DEF Handle, Receive, Late
<1>9. QED
  BY <1>4, <1>7, <1>8, OneIsStored DEF TInv

LEMMA HandleLateTakesOne ==
  ASSUME TInv, SInv, Linger < Suppress, NEW l \in late, HandleLate(l), l.req.what # "status"
  PROVE  SInv' /\ FeedStep
<1>1. l \in LateAlerts
  BY TwoKinds DEF TInv, TypeOK, LateAlerts
<1>2. LateAlerts' = LateAlerts \ {l} /\ awaited' = awaited
  BY DEF HandleLate, LateAlerts
<1>3. Unread' <=> Unread
  BY <1>2 DEF Unread, Waiting
<1>4. \A k \in LateAlerts : Late(k) = Late(l) => k = l
  BY <1>1, LateIsItself DEF TInv
<1>5. Unread => Late(awaited) # Late(l)
  BY <1>1 DEF SInv, OneAtATime, Late
<1>6. OnTheWay' = OnTheWay \ {Late(l)} /\ Late(l) \in OnTheWay
  BY <1>1, <1>2, <1>3, <1>4, <1>5, OnTheWayIs, OnTheWayLater
<1>7. storedAge' = [storedAge EXCEPT ![Late(l).of] = 0] /\ UNCHANGED lastSent
  BY DEF HandleLate, Receive, Late
<1>8. QED
  BY <1>2, <1>3, <1>6, <1>7, OneIsStored DEF TInv

LEMMA SendOffers ==
  ASSUME TInv, SInv, Linger < Suppress, SendAlert
  PROVE  SInv' /\ FeedStep
<1> DEFINE a == Head(todo)
<1>1. /\ a \in Alert /\ lastSent \in [Alert -> 0..Suppress] /\ storedAge \in [Alert -> 0..Suppress]
      /\ OnTheWay \subseteq [of : Alert, age : 0..Linger]
  BY HeadTailProperties, WayTyped DEF TInv, SendAlert, TypeOK
<1>2. lastSent[a] = Suppress
  BY <1>1, TimesAssumption DEF SendAlert, IsSuppressed
<1>3. OneAtATime
  BY DEF SInv
<1>4. \A p \in OnTheWay : p.of # a
  BY <1>1, <1>2, <1>3, TimesAssumption DEF OneAtATime
<1>5. awaited'.req = [what |-> "alert", of |-> a] /\ awaited'.age = 0
      /\ awaited'.stage = "connecting"
  BY DEF SendAlert, Await
<1>6. awaited' # None
  <2>1. awaited' \in Awaited
    BY <1>1, AwaitType DEF SendAlert, Request, Post
  <2>2. QED
    BY <2>1, NoneAssumption
<1>7. ~Unread /\ Unread' /\ LateAlerts' = LateAlerts
  BY <1>5, <1>6 DEF SendAlert, Unread, Waiting, LateAlerts
<1>8. OnTheWay' = OnTheWay \cup {[of |-> a, age |-> 0]}
  BY <1>5, <1>7, OnTheWayIs, OnTheWayLater DEF Late
<1>9. lastSent' = [lastSent EXCEPT ![a] = 0] /\ storedAge' = storedAge
  BY DEF SendAlert
<1>10. \A p \in OnTheWay' : p.age = lastSent'[p.of] /\ storedAge'[p.of] >= Suppress - Linger
  <2>1. SUFFICES ASSUME NEW p \in OnTheWay'
                 PROVE  p.age = lastSent'[p.of] /\ storedAge'[p.of] >= Suppress - Linger
    OBVIOUS
  <2>2. CASE p \in OnTheWay
    BY <1>1, <1>3, <1>4, <1>9, <2>2 DEF OneAtATime
  <2>3. CASE p = [of |-> a, age |-> 0]
    <3>1. storedAge[a] >= Suppress - Linger
      BY <1>1, <1>2, <1>3 DEF OneAtATime
    <3>2. QED
      BY <1>1, <1>9, <2>3, <3>1
  <2>4. QED
    BY <1>8, <2>2, <2>3
<1>11. \A l \in LateAlerts' : l.req.of # awaited'.req.of
  <2>1. \A l \in LateAlerts : Late(l) \in OnTheWay /\ Late(l).of = l.req.of
    BY OnTheWayIs DEF Late
  <2>2. QED
    BY <1>4, <1>5, <1>7, <2>1
<1>12. \A b \in Alert : storedAge'[b] >= lastSent'[b] - Linger
  <2>1. SUFFICES ASSUME NEW b \in Alert PROVE storedAge'[b] >= lastSent'[b] - Linger
    OBVIOUS
  <2>2. storedAge[b] >= lastSent[b] - Linger /\ storedAge[b] \in Nat
    BY <1>1, <1>3, TimesAssumption DEF OneAtATime
  <2>3. CASE b = a
    BY <1>1, <1>9, <2>2, <2>3, TimesAssumption
  <2>4. CASE b # a
    BY <1>1, <1>9, <2>2, <2>4
  <2>5. QED
    BY <2>3, <2>4
<1>13. SInv'
  BY <1>10, <1>11, <1>12 DEF SInv, OneAtATime
<1>14. Feed!Offer(a)
  BY <1>1, <1>2, <1>8, <1>9, TimesAssumption DEF Feed!Offer
<1>15. QED
  BY <1>1, <1>13, <1>14 DEF FeedStep, Feed!Next

LEMMA PassOnTheWay ==
  ASSUME TInv, Tick
  PROVE  /\ OnTheWay' = {[p EXCEPT !.age = @ + 1] : p \in OnTheWay}
         /\ \A p \in OnTheWay : p.age < Linger
         /\ Unread' => Unread /\ awaited'.req = awaited.req
         /\ LateAlerts' = {[l EXCEPT !.age = @ + 1] : l \in LateAlerts}
<1>1. /\ Pass /\ TypeOK
      /\ awaited # None => awaited.waited < Timeout
      /\ \A l \in late : l.age < Linger
  BY TickIsPass DEF TInv
<1>2. LateAlerts' = {[l EXCEPT !.age = @ + 1] : l \in LateAlerts}
  <2>1. late' = {[l EXCEPT !.age = @ + 1] : l \in late}
    BY <1>1 DEF Pass
  <2>2. \A l \in late : [l EXCEPT !.age = @ + 1].req = l.req
    BY <1>1 DEF TypeOK
  <2>3. QED
    BY <2>1, <2>2 DEF LateAlerts
<1>3. \A l \in LateAlerts : Late([l EXCEPT !.age = @ + 1]) = [Late(l) EXCEPT !.age = @ + 1]
  <2>1. SUFFICES ASSUME NEW l \in LateAlerts
                 PROVE  Late([l EXCEPT !.age = @ + 1]) = [Late(l) EXCEPT !.age = @ + 1]
    OBVIOUS
  <2>2. l \in [req : Request, age : 0..Linger]
    BY <1>1 DEF LateAlerts, TypeOK
  <2>3. QED
    BY <2>2 DEF Late
<1>4. {Late(l) : l \in LateAlerts'} = {[Late(l) EXCEPT !.age = @ + 1] : l \in LateAlerts}
  <2>1. ASSUME NEW k \in LateAlerts'
        PROVE  Late(k) \in {[Late(l) EXCEPT !.age = @ + 1] : l \in LateAlerts}
    <3>1. PICK l \in LateAlerts : k = [l EXCEPT !.age = @ + 1]
      BY <1>2
    <3>2. Late(k) = [Late(l) EXCEPT !.age = @ + 1]
      BY <1>3, <3>1
    <3>3. QED
      BY <3>2
  <2>2. ASSUME NEW l \in LateAlerts
        PROVE  [Late(l) EXCEPT !.age = @ + 1] \in {Late(k) : k \in LateAlerts'}
    <3>1. [l EXCEPT !.age = @ + 1] \in LateAlerts'
      BY <1>2
    <3>2. QED
      BY <1>3, <3>1
  <2>3. QED
    BY <2>1, <2>2
<1>5. awaited # None => /\ awaited' # None /\ awaited'.req = awaited.req
                        /\ awaited'.stage = awaited.stage /\ awaited'.age = awaited.age + 1
  <2>1. SUFFICES ASSUME awaited # None
                 PROVE  /\ awaited' # None /\ awaited'.req = awaited.req
                        /\ awaited'.stage = awaited.stage /\ awaited'.age = awaited.age + 1
    OBVIOUS
  <2>2. awaited \in Awaited /\ awaited' = [awaited EXCEPT !.age = @ + 1, !.waited = @ + 1]
    BY <1>1, <2>1 DEF Pass, TypeOK
  <2>3. awaited.age + 1 \in 0..Slowest /\ awaited.waited + 1 \in 0..Timeout
    BY <1>1, <2>1, YoungPost DEF TInv
  <2>4. awaited' \in Awaited
    BY <2>2, <2>3 DEF Awaited
  <2>5. QED
    BY <2>2, <2>4, NoneAssumption DEF Awaited
<1>6. awaited = None => awaited' = None
  BY <1>1 DEF Pass
<1>7. Unread' <=> Unread
  BY <1>5, <1>6 DEF Unread, Waiting
<1>8. Unread => Late(awaited') = [Late(awaited) EXCEPT !.age = @ + 1]
  BY <1>5 DEF Unread, Waiting, Late
<1>9. OnTheWay' = {[p EXCEPT !.age = @ + 1] : p \in OnTheWay}
  <2>1. CASE Unread
    BY <1>4, <1>7, <1>8, <2>1, OnTheWayIs, OnTheWayLater
  <2>2. CASE ~Unread
    BY <1>4, <1>7, <2>2, OnTheWayIs, OnTheWayLater
  <2>3. QED
    BY <2>1, <2>2
<1>10. \A p \in OnTheWay : p.age < Linger
  <2>1. \A l \in LateAlerts : Late(l).age < Linger
    BY <1>1 DEF LateAlerts, Late
  <2>2. ASSUME Unread PROVE Late(awaited).age < Linger
    <3>1. awaited # None /\ awaited \in Awaited /\ awaited.waited < Timeout
      BY <1>1, <2>2 DEF Unread, Waiting, TypeOK
    <3>2. awaited.age + 1 \in 0..Slowest /\ awaited.age \in 0..Slowest
      BY <3>1, YoungPost DEF TInv, Awaited
    <3>3. awaited.age < Linger
      BY <3>2, SlowestIs
    <3> QED BY <3>3 DEF Late
  <2>3. QED
    BY <2>1, <2>2, OnTheWayIs
<1>11. QED
  BY <1>2, <1>5, <1>7, <1>9, <1>10 DEF Unread, Waiting

LEMMA TimePasses ==
  ASSUME TInv, SInv, Linger < Suppress, Tick
  PROVE  SInv' /\ FeedStep
<1>1. /\ OneAtATime /\ Pass
      /\ OnTheWay' = {[p EXCEPT !.age = @ + 1] : p \in OnTheWay}
      /\ \A p \in OnTheWay : p.age < Linger
      /\ OnTheWay \subseteq [of : Alert, age : 0..Linger]
      /\ lastSent \in [Alert -> 0..Suppress] /\ storedAge \in [Alert -> 0..Suppress]
  BY PassOnTheWay, TickIsPass, WayTyped DEF SInv, TInv, TypeOK
<1>2. \A a \in Alert : /\ lastSent'[a] = Older(lastSent[a], Suppress)
                       /\ storedAge'[a] = Older(storedAge[a], Suppress)
  BY <1>1 DEF Pass
<1>3. \A q \in OnTheWay' : q.age = lastSent'[q.of] /\ storedAge'[q.of] >= Suppress - Linger
  <2>1. SUFFICES ASSUME NEW p \in OnTheWay, NEW q, q = [p EXCEPT !.age = @ + 1]
                 PROVE  q.age = lastSent'[q.of] /\ storedAge'[q.of] >= Suppress - Linger
    BY <1>1
  <2>2. p.of \in Alert /\ p.age \in 0..Linger /\ q.of = p.of /\ q.age = p.age + 1
        /\ p.age = lastSent[p.of] /\ storedAge[p.of] >= Suppress - Linger
    BY <1>1, <2>1 DEF OneAtATime
  <2>3. Older(lastSent[p.of], Suppress) = lastSent[p.of] + 1
    BY <2>2, TimesAssumption DEF Older, Least
  <2>4. Older(storedAge[p.of], Suppress) >= storedAge[p.of]
        /\ Older(storedAge[p.of], Suppress) \in 0..Suppress
    BY <1>1, <2>2, OlderIs, TimesAssumption
  <2>5. QED
    BY <1>1, <1>2, <2>2, <2>3, <2>4, TimesAssumption
<1>4. Unread' => \A l \in LateAlerts' : l.req.of # awaited'.req.of
  <2>1. SUFFICES ASSUME Unread', NEW l \in LateAlerts, NEW k, k = [l EXCEPT !.age = @ + 1]
                 PROVE  k.req.of # awaited'.req.of
    BY PassOnTheWay
  <2>2. k.req = l.req
    BY <2>1 DEF LateAlerts, TInv, TypeOK
  <2>3. Unread /\ awaited'.req = awaited.req
    BY <2>1, PassOnTheWay
  <2>4. QED
    BY <1>1, <2>1, <2>2, <2>3 DEF OneAtATime
<1>5. \A a \in Alert : storedAge'[a] >= lastSent'[a] - Linger
  <2>1. SUFFICES ASSUME NEW a \in Alert
                 PROVE  Older(storedAge[a], Suppress) >= Older(lastSent[a], Suppress) - Linger
    BY <1>2
  <2>2. storedAge[a] \in 0..Suppress /\ lastSent[a] \in 0..Suppress
        /\ storedAge[a] >= lastSent[a] - Linger
    BY <1>1 DEF OneAtATime
  <2>3. QED
    BY <2>2, TimesAssumption DEF Older, Least
<1>6. SInv'
  BY <1>3, <1>4, <1>5 DEF SInv, OneAtATime
<1>7. Feed!Pass
  <2>1. lastSent' = [a \in Alert |-> IF lastSent[a] < Suppress THEN lastSent[a] + 1 ELSE Suppress]
    <3>1. \A a \in Alert : Older(lastSent[a], Suppress)
                             = IF lastSent[a] < Suppress THEN lastSent[a] + 1 ELSE Suppress
      BY <1>1, TimesAssumption DEF Older, Least
    <3>2. QED
      BY <1>1, <3>1 DEF Pass
  <2>2. storedAge' = [a \in Alert |-> IF storedAge[a] < Suppress THEN storedAge[a] + 1 ELSE Suppress]
    <3>1. \A a \in Alert : Older(storedAge[a], Suppress)
                             = IF storedAge[a] < Suppress THEN storedAge[a] + 1 ELSE Suppress
      BY <1>1, TimesAssumption DEF Older, Least
    <3>2. QED
      BY <1>1, <3>1 DEF Pass
  <2>3. \A p \in OnTheWay : p.age < Linger
    BY <1>1
  <2>4. QED
    BY <1>1, <2>1, <2>2, <2>3 DEF Feed!Pass
<1>8. QED
  BY <1>6, <1>7 DEF FeedStep, Feed!Next

\* Each step of the lane is one of AlertFeed, or nothing there.
LEMMA LaneStep ==
  ASSUME TInv, SInv, Linger < Suppress, [Next]_vars
  PROVE  SInv' /\ FeedStep
<1>1. ASSUME NEW found \in Sweep, Analyse(found) PROVE SInv' /\ FeedStep
  <2>1. UNCHANGED <<late, awaited, lastSent, storedAge>>
    BY <1>1 DEF Analyse
  <2>2. QED
    BY <2>1, NothingHappens DEF OnTheWay, Unread, Waiting, LateAlerts
<1>2. CASE SendStatus
  <2>1. ~Unread /\ ~Unread'
    BY <1>2 DEF SendStatus, Await, Unread, Waiting
  <2>2. LateAlerts' = LateAlerts /\ UNCHANGED <<lastSent, storedAge>>
    BY <1>2, OvertakeKeepsAlerts DEF SendStatus, TInv
  <2>3. OnTheWay' = OnTheWay
    BY <2>1, <2>2, OnTheWayIs, OnTheWayLater
  <2>4. QED
    BY <2>1, <2>2, <2>3, NothingHappens
<1>3. CASE SkipRepeat
  <2>1. UNCHANGED <<late, awaited, lastSent, storedAge>>
    BY <1>3 DEF SkipRepeat
  <2>2. QED
    BY <2>1, NothingHappens DEF OnTheWay, Unread, Waiting, LateAlerts
<1>4. CASE SendAlert
  BY <1>4, SendOffers
<1>5. CASE NextSweep
  <2>1. UNCHANGED <<late, awaited, lastSent, storedAge>>
    BY <1>5 DEF NextSweep
  <2>2. QED
    BY <2>1, NothingHappens DEF OnTheWay, Unread, Waiting, LateAlerts
<1>6. CASE Accepted
  <2>1. ~Unread /\ ~Unread' /\ LateAlerts' = LateAlerts /\ UNCHANGED <<lastSent, storedAge>>
    BY <1>6 DEF Accepted, Unread, Waiting, LateAlerts
  <2>2. OnTheWay' = OnTheWay
    BY <2>1, OnTheWayIs, OnTheWayLater
  <2>3. QED
    BY <2>1, <2>2, NothingHappens
<1>7. CASE GiveUp
  <2>1. OnTheWay' \subseteq OnTheWay /\ ~Unread' /\ UNCHANGED <<lastSent, storedAge>>
    BY <1>7, AbandonOnTheWay DEF GiveUp, TInv
  <2>2. QED
    BY <2>1, NothingHappens
<1>8. CASE StopMonitor
  <2>1. CASE awaited = None
    <3>1. UNCHANGED <<late, awaited, lastSent, storedAge>>
      BY <1>8, <2>1 DEF StopMonitor
    <3>2. QED
      BY <3>1, NothingHappens DEF OnTheWay, Unread, Waiting, LateAlerts
  <2>2. CASE awaited # None
    <3>1. OnTheWay' \subseteq OnTheWay /\ ~Unread' /\ UNCHANGED <<lastSent, storedAge>>
      BY <1>8, <2>2, AbandonOnTheWay DEF StopMonitor, TInv
    <3>2. QED
      BY <3>1, NothingHappens
  <2>3. QED
    BY <2>1, <2>2
<1>9. CASE Handle
  <2>1. CASE awaited.req.what = "status"
    <3>1. awaited \in Awaited /\ awaited' = [awaited EXCEPT !.stage = "answered"]
      BY <1>9 DEF Handle, TInv, TypeOK
    <3>2. awaited'.stage = "answered"
      BY <3>1 DEF Awaited
    <3>3. ~Unread /\ ~Unread' /\ LateAlerts' = LateAlerts /\ UNCHANGED <<lastSent, storedAge>>
      BY <1>9, <2>1, <3>2 DEF Handle, Receive, Unread, Waiting, LateAlerts
    <3>4. OnTheWay' = OnTheWay
      BY <3>3, OnTheWayIs, OnTheWayLater
    <3>5. QED
      BY <3>3, <3>4, NothingHappens
  <2>2. CASE awaited.req.what # "status"
    BY <1>9, <2>2, HandleTakesOne
  <2>3. QED
    BY <2>1, <2>2
<1>10. ASSUME NEW l \in late, HandleLate(l) PROVE SInv' /\ FeedStep
  <2>1. CASE l.req.what = "status"
    <3>1. LateAlerts' = LateAlerts /\ UNCHANGED <<awaited, lastSent, storedAge>>
      BY <1>10, <2>1 DEF HandleLate, Receive, LateAlerts
    <3>2. (Unread' <=> Unread) /\ OnTheWay' = OnTheWay
      BY <3>1, OnTheWayIs, OnTheWayLater DEF Unread, Waiting
    <3>3. QED
      BY <3>1, <3>2, NothingHappens
  <2>2. CASE l.req.what # "status"
    BY <1>10, <2>2, HandleLateTakesOne
  <2>3. QED
    BY <2>1, <2>2
<1>11. ASSUME NEW l \in late, LoseLate(l) PROVE SInv' /\ FeedStep
  <2>1. LateAlerts' \subseteq LateAlerts /\ UNCHANGED <<awaited, lastSent, storedAge>>
    BY <1>11 DEF LoseLate, LateAlerts
  <2>2. (Unread' <=> Unread) /\ OnTheWay' \subseteq OnTheWay
    BY <2>1, OnTheWayIs, OnTheWayLater DEF Unread, Waiting
  <2>3. QED
    BY <2>1, <2>2, NothingHappens
<1>12. CASE StopReceiver
  <2>1. LateAlerts' = {} /\ UNCHANGED <<lastSent, storedAge>>
    BY <1>12 DEF StopReceiver, LateAlerts
  <2>2. Unread' => Unread /\ awaited' = awaited
    BY <1>12 DEF StopReceiver, Unread, Waiting, TInv, TypeOK, Awaited
  <2>3. OnTheWay' \subseteq OnTheWay
    <3>1. OnTheWay' = (IF Unread' THEN {Late(awaited')} ELSE {})
      BY <2>1, OnTheWayLater
    <3> QED BY <2>2, <3>1, OnTheWayIs
  <2>4. QED
    BY <2>1, <2>2, <2>3, NothingHappens
<1>13. CASE StartReceiver
  <2>1. UNCHANGED <<late, awaited, lastSent, storedAge>>
    BY <1>13 DEF StartReceiver
  <2>2. QED
    BY <2>1, NothingHappens DEF OnTheWay, Unread, Waiting, LateAlerts
<1>14. CASE Tick
  BY <1>14, TimePasses
<1>15. CASE UNCHANGED vars
  <2>1. UNCHANGED <<late, awaited, lastSent, storedAge>>
    BY <1>15 DEF vars
  <2>2. QED
    BY <2>1, NothingHappens DEF OnTheWay, Unread, Waiting, LateAlerts
<1>16. CASE Connect \/ NextAddress
  <2>1. /\ awaited # None /\ awaited' # None /\ awaited'.req = awaited.req
        /\ awaited'.age = awaited.age
        /\ awaited.stage = "connecting" /\ awaited'.stage \in {"connecting", "wire"}
    BY <1>16, ConnectType, NoneAssumption DEF TInv
  <2>2. UNCHANGED <<late, lastSent, storedAge>>
    BY <1>16 DEF Connect, NextAddress
  <2>3. (Unread <=> Unread') /\ LateAlerts' = LateAlerts /\ Late(awaited') = Late(awaited)
    BY <2>1, <2>2 DEF Waiting, Unread, LateAlerts, Late
  <2>4. OnTheWay' = OnTheWay
    BY <2>3, OnTheWayIs, OnTheWayLater
  <2> QED BY <2>1, <2>2, <2>3, <2>4, NothingHappens
<1>17. QED
  BY <1>1, <1>2, <1>3, <1>4, <1>5, <1>6, <1>7, <1>8, <1>9, <1>10, <1>11, <1>12, <1>13,
     <1>14, <1>15, <1>16 DEF Next, Monitor, Faults, TimeOut, PostError

LEMMA LaneInit == Init => SInv /\ Feed!Init
<1>1. SUFFICES ASSUME Init PROVE SInv /\ Feed!Init
  OBVIOUS
<1>2. OnTheWay = {} /\ LateAlerts = {} /\ ~Unread
  BY <1>1 DEF Init, OnTheWay, LateAlerts, Unread, Waiting
<1>3. QED
  BY <1>1, <1>2, TimesAssumption DEF Init, SInv, OneAtATime, Feed!Init

LEMMA SStep ==
  ASSUME TInv, SInv, [Next]_vars
  PROVE  SInv'
BY LaneStep DEF SInv

\* What is stored was on its way, and came from the last sending of it.
LEMMA StoresSpaced ==
  ASSUME TInv, SInv, NEW a \in Alert, Stores(a)
  PROVE  storedAge[a] >= Suppress - Linger
<1>1. CASE ~(Linger < Suppress)
  BY <1>1, TimesAssumption DEF TInv, TypeOK
<1>2. CASE Linger < Suppress
  <2>1. OneAtATime
    BY <1>2 DEF SInv
  <2>2. CASE Handle /\ awaited.req.what = "alert" /\ awaited.req.of = a
    <3>1. Unread
      BY <2>2 DEF Handle, Unread, Waiting
    <3>2. Late(awaited) \in OnTheWay /\ Late(awaited).of = a
      BY <2>2, <3>1, OnTheWayIs DEF Late
    <3>3. QED
      BY <2>1, <3>2 DEF OneAtATime
  <2>3. ASSUME NEW l \in late, l.req.what = "alert", l.req.of = a
        PROVE  storedAge[a] >= Suppress - Linger
    <3>1. Late(l) \in OnTheWay /\ Late(l).of = a
      BY <2>3, OnTheWayIs DEF Late, LateAlerts
    <3>2. QED
      BY <2>1, <3>1 DEF OneAtATime
  <2>4. QED
    BY <2>2, <2>3 DEF Stores
<1>3. QED
  BY <1>1, <1>2

\* However posts fail or arrive late, the receiver is not given one alert twice
\* within the suppression time less the time the first may have lain unread
\* (webhook.py:93-123).
THEOREM RepeatsAreSpaced == Spec => RepeatsSpaced
<1>1. TInv /\ SInv /\ [Next]_vars => SInv'
  BY SStep
<1>2. TInv /\ SInv /\ [Next]_vars =>
        [\A a \in Alert : Stores(a) => storedAge[a] >= Suppress - Linger]_vars
  BY StoresSpaced
<1>3. QED
  BY <1>1, <1>2, LaneInit, TypedAlways, PTL DEF Spec, RepeatsSpaced

\* Where a request lies unread for less time than repeats are held back, the
\* lane implements AlertFeed: it starts as that does, and each of its steps,
\* faults included, is a step of it or leaves it as it is.
THEOREM FeedImplemented ==
  ASSUME Linger < Suppress
  PROVE  Spec => Feed!Init /\ [][Feed!Next]_(Feed!feedVars)
<1>1. TInv /\ SInv /\ [Next]_vars => SInv' /\ [Feed!Next]_(Feed!feedVars)
  BY LaneStep DEF FeedStep
<1>2. QED
  BY <1>1, LaneInit, TypedAlways, PTL DEF Spec

----------------------------------------------------------------------------
(* The running monitor *)

\* The time from a heartbeat's arrival to when the monitor has posted k alerts
\* after it, at its slowest.
Posted(k) == Timeout + k * Slowest

AwaitsStatus == awaited # None /\ ~Waiting

\* The age of the last heartbeat that arrived, in each part of the turn it
\* begins; and that of the one before it, while the next is on its way.
SeenInTime ==
  /\ shown.lag = 0 =>
       /\ pc = "alerting" /\ awaited = None => shown.age <= Posted(tally.turn)
       /\ Waiting => shown.age <= Posted(tally.turn - 1) + awaited.age
       /\ pc = "sweeping" => shown.age + timer <= Posted(tally.turn) + SweepTime
       /\ pc = "reporting" => shown.age <= Posted(tally.turn) + SweepTime
  /\ shown.lag = 1 /\ AwaitsStatus =>
       shown.age <= Posted(tally.turn) + SweepTime + awaited.age

\* While a heartbeat is waited for, it is the last one posted, and the screen
\* shows it only when it has been answered, and for as long as the answer takes.
LastInTurn ==
  AwaitsStatus =>
    /\ shown # None /\ shown.lag = 0 =>
         awaited.stage = "answered" /\ shown.age <= awaited.waited
    /\ \A l \in late : l.req.what = "status" => l.req.lag # 0

\* The turn is counted exactly.
Exact == pc # "stopped" /\ tally.turn < MaxCount

TouchInv ==
  /\ pc # "stopped" => LastInTurn
  /\ Exact => /\ Waiting => tally.turn > 0
              /\ shown # None => SeenInTime

LEMMA PostedIs ==
  ASSUME NEW k \in Nat
  PROVE  /\ Posted(k) \in Nat /\ Posted(k + 1) = Posted(k) + Slowest
         /\ Timeout <= Posted(k) /\ Posted(0) = Timeout
         /\ TurnTime(k) = Posted(k) + SweepTime + Slowest
<1>1. /\ \A t, i \in Nat : i * t \in Nat /\ (i + 1) * t = (i * t) + t /\ 0 * t = 0
      /\ Timeout \in Nat /\ SweepTime \in Nat /\ Slowest \in Nat
  BY SlowestIs, TimesAssumption
<1> HIDE DEF Slowest
<1>2. k * Slowest \in Nat /\ (k + 1) * Slowest = (k * Slowest) + Slowest /\ 0 * Slowest = 0
  BY <1>1
<1>3. PICK p, q : p = k * Slowest /\ q = (k + 1) * Slowest
  OBVIOUS
<1> QED BY <1>1, <1>2, <1>3 DEF Posted, TurnTime

\* The parts of the types that matter here.
LEMMA TouchTypes ==
  ASSUME TInv
  PROVE  /\ timer \in Nat /\ tally.turn \in Nat /\ tally.turn <= MaxCount
         /\ Slowest \in Nat /\ Timeout \in Nat /\ SweepTime \in Nat /\ Stale \in Nat
         /\ awaited # None => /\ awaited.age \in Nat /\ awaited.age <= Slowest
                              /\ awaited.waited \in Nat /\ awaited.waited <= Timeout
                              /\ (Waiting <=> awaited.req.what # "status")
                              /\ awaited.req \in Request
                              /\ pc = "alerting" /\ awaited \in Awaited
         /\ shown # None => /\ shown \in Shown /\ shown.age \in Nat /\ shown.lag \in 0..2
                            /\ shown.age \in 0..(Stale + 1)
<1>1. /\ timer \in Nat /\ tally.turn \in Nat /\ tally.turn <= MaxCount
      /\ Slowest \in Nat /\ Timeout \in Nat /\ SweepTime \in Nat /\ Stale \in Nat
  BY TimesAssumption, SlowestIs DEF TInv, TypeOK
<1>2. ASSUME awaited # None
      PROVE  /\ awaited.age \in Nat /\ awaited.age <= Slowest
             /\ awaited.waited \in Nat /\ awaited.waited <= Timeout
             /\ (Waiting <=> awaited.req.what # "status")
             /\ awaited.req \in Request
             /\ pc = "alerting" /\ awaited \in Awaited
  <2>1. awaited \in Awaited /\ pc = "alerting"
    BY <1>2 DEF TInv, TypeOK, WaitsInItsPlace
  <2>2. awaited.req \in Request /\ awaited.age \in 0..Slowest /\ awaited.waited \in 0..Timeout
    BY <2>1 DEF Awaited
  <2>3. awaited.age \in Nat /\ awaited.age <= Slowest
        /\ awaited.waited \in Nat /\ awaited.waited <= Timeout
    BY <1>1, <2>2
  <2>4. Waiting <=> awaited.req.what # "status"
    BY <1>2, <2>2, TwoKinds DEF Waiting
  <2> QED BY <2>1, <2>2, <2>3, <2>4
<1>3. ASSUME shown # None
      PROVE  shown \in Shown /\ shown.age \in 0..(Stale + 1) /\ shown.age \in Nat
             /\ shown.lag \in 0..2
  <2>1. shown \in Shown
    BY <1>3 DEF TInv, TypeOK
  <2>2. shown.age \in 0..(Stale + 1) /\ shown.lag \in 0..2
    BY <2>1 DEF Shown
  <2> QED BY <1>1, <2>1, <2>2
<1> QED BY <1>1, <1>2, <1>3

\* A step that leaves the lane and the counters as they are, while the monitor
\* does not wait.
LEMMA TouchIdle ==
  ASSUME TInv, TouchInv, awaited = None, awaited' = None, shown' = shown,
         tally' = tally, timer' \in Nat,
         \/ pc' = pc /\ timer' = timer
         \/ pc = "sweeping" /\ timer = 0 /\ pc' = "reporting"
         \/ pc = "alerting" /\ timer' = SweepTime /\ pc' = "sweeping"
         \/ pc' = "stopped"
  PROVE  TouchInv'
<1>1. ~Waiting /\ ~Waiting' /\ ~AwaitsStatus /\ ~AwaitsStatus'
  BY DEF Waiting, AwaitsStatus
<1>2. LastInTurn'
  BY <1>1 DEF LastInTurn
<1>3. ASSUME Exact', shown # None PROVE SeenInTime'
  <2>1. Exact /\ SeenInTime
    <3>1. pc # "stopped"
      BY <1>3 DEF Exact
    <3> QED BY <1>3, <3>1 DEF Exact, TouchInv
  <2>2. PICK p : p = Posted(tally.turn)
    OBVIOUS
  <2>3. p \in Nat /\ shown.age \in Nat /\ SweepTime \in Nat /\ Posted(tally.turn)' = p
        /\ timer \in Nat
    BY <1>3, <2>2, TouchTypes, PostedIs DEF Posted
  <2>4. shown.lag = 0 =>
          /\ pc = "alerting" => shown.age <= p
          /\ pc = "sweeping" => shown.age + timer <= p + SweepTime
          /\ pc = "reporting" => shown.age <= p + SweepTime
    BY <2>1, <2>2 DEF SeenInTime
  <2>5. shown.lag = 0 =>
          /\ pc' = "alerting" => shown.age <= p
          /\ pc' = "sweeping" => shown.age + timer' <= p + SweepTime
          /\ pc' = "reporting" => shown.age <= p + SweepTime
    BY <2>3, <2>4
  <2> QED BY <1>1, <2>3, <2>5 DEF SeenInTime
<1> QED BY <1>1, <1>2, <1>3 DEF TouchInv

\* A request read by the receiver: a heartbeat starts the lane's age anew, an
\* alert leaves it.
LEMMA TouchReceive ==
  ASSUME TInv, TouchInv, NEW r \in Request, Receive(r), late' \subseteq late,
         \/ /\ awaited' = awaited
            /\ AwaitsStatus => (r.what = "status" => r.lag # 0)
         \/ /\ awaited # None /\ awaited.req = r
            /\ awaited' = [awaited EXCEPT !.stage = "answered"]
  PROVE  TouchInv'
<1>1. pc' = pc /\ timer' = timer /\ tally'.turn = tally.turn
  BY DEF Receive, TInv, TypeOK
<1>2. /\ awaited' # None <=> awaited # None
      /\ awaited # None => awaited'.req = awaited.req /\ awaited'.age = awaited.age
                           /\ awaited'.waited = awaited.waited
                           /\ (awaited'.stage = awaited.stage \/ awaited'.stage = "answered")
  BY TouchTypes, NoneAssumption DEF Awaited
<1>3. (Waiting' <=> Waiting) /\ (AwaitsStatus' <=> AwaitsStatus)
  BY <1>2 DEF Waiting, AwaitsStatus
<1>4. (Exact' <=> Exact) /\ Posted(tally.turn)' = Posted(tally.turn)
      /\ Posted(tally.turn - 1)' = Posted(tally.turn - 1)
  BY <1>1 DEF Exact, Posted
<1>5. CASE r.what = "status"
  <2>1. shown' = [state |-> r.of, lag |-> r.lag, age |-> 0]
    BY <1>5 DEF Receive
  <2>2. shown'.lag = r.lag /\ shown'.age = 0
    BY <2>1
  <2>3. ASSUME pc # "stopped" PROVE LastInTurn'
    <3>1. ASSUME AwaitsStatus, r.lag = 0
          PROVE  awaited'.stage = "answered" /\ shown'.age <= awaited'.waited
      <4>1. awaited' = [awaited EXCEPT !.stage = "answered"] /\ awaited # None
            /\ awaited \in Awaited
        BY <1>5, <3>1, TouchTypes DEF AwaitsStatus
      <4>2. awaited'.stage = "answered" /\ awaited'.waited \in Nat
        BY <4>1, TouchTypes DEF Awaited
      <4> QED BY <2>2, <4>2
    <3> QED BY <1>3, <2>2, <2>3, <3>1 DEF LastInTurn, TouchInv
  <2>4. ASSUME Exact PROVE SeenInTime'
    <3>1. tally.turn \in Nat /\ (Waiting => tally.turn - 1 \in Nat)
      BY <2>4, TouchTypes DEF TouchInv
    <3>2. PICK p, q, n : p = Posted(tally.turn) /\ q = Posted(tally.turn - 1) /\ n = shown'.age
      OBVIOUS
    <3>3. p \in Nat /\ (Waiting => q \in Nat) /\ SweepTime \in Nat /\ timer \in Nat /\ n = 0
      BY <2>2, <3>1, <3>2, PostedIs, TouchTypes
    <3>4. awaited # None => awaited'.age \in Nat /\ awaited'.waited \in Nat
      BY <1>2, TouchTypes
    <3>5. /\ n <= p /\ n <= p + SweepTime
          /\ Waiting => n <= q + awaited'.age
          /\ AwaitsStatus => n <= p + SweepTime + awaited'.age
      BY <3>3, <3>4 DEF Waiting, AwaitsStatus
    <3>6. ASSUME pc = "sweeping" PROVE n + timer <= p + SweepTime
      <4>1. timer <= SweepTime
        BY TimesAssumption DEF TInv, TypeOK
      <4> QED BY <3>3, <4>1
    <3> QED BY <1>1, <1>3, <1>4, <3>2, <3>5, <3>6 DEF SeenInTime
  <2> QED BY <1>1, <1>3, <1>4, <2>3, <2>4 DEF TouchInv
<1>6. CASE r.what # "status"
  <2>1. shown' = shown
    BY <1>6 DEF Receive
  <2>2. LastInTurn => LastInTurn'
    BY <1>2, <1>3, <2>1 DEF LastInTurn, AwaitsStatus
  <2>3. SeenInTime => SeenInTime'
    BY <1>1, <1>2, <1>3, <1>4, <2>1 DEF SeenInTime, Waiting, AwaitsStatus
  <2> QED BY <1>1, <1>3, <1>4, <2>1, <2>2, <2>3 DEF TouchInv
<1> QED BY <1>5, <1>6

\* The post is over: an alert's has taken its share of the turn, and with a
\* heartbeat's the turn begins.
LEMMA TouchDone ==
  ASSUME TInv, TouchInv, awaited # None, awaited' = None,
         UNCHANGED <<pc, timer, shown>>,
         tally'.turn = IF awaited.req.what = "alert" THEN tally.turn ELSE 0
  PROVE  TouchInv'
<1>1. pc = "alerting" /\ ~Waiting' /\ ~AwaitsStatus'
  BY TouchTypes DEF Waiting, AwaitsStatus
<1>2. LastInTurn'
  BY <1>1 DEF LastInTurn
<1>3. ASSUME Exact', shown # None, shown.lag = 0 PROVE shown.age <= Posted(tally'.turn)
  <2>1. shown.age \in Nat /\ awaited.age \in Nat /\ awaited.age <= Slowest
        /\ awaited.waited \in Nat /\ awaited.waited <= Timeout /\ Slowest \in Nat
        /\ Timeout \in Nat
    BY <1>3, TouchTypes
  <2>2. CASE Waiting
    <3>1. tally'.turn = tally.turn /\ Exact
      BY <1>3, <2>2 DEF Waiting, Exact
    <3>2. tally.turn \in Nat /\ tally.turn > 0 /\ tally.turn - 1 \in Nat
          /\ shown.age <= Posted(tally.turn - 1) + awaited.age
      BY <1>3, <2>2, <3>1, TouchTypes DEF TouchInv, SeenInTime
    <3>3. PICK k : k = tally.turn - 1
      OBVIOUS
    <3>4. k \in Nat /\ k + 1 = tally.turn /\ shown.age <= Posted(k) + awaited.age
      BY <3>2, <3>3
    <3>5. Posted(k) \in Nat /\ Posted(k + 1) = Posted(k) + Slowest
      BY <3>4, PostedIs
    <3>6. shown.age <= Posted(k + 1)
      BY <2>1, <3>4, <3>5
    <3> QED BY <3>1, <3>4, <3>6
  <2>3. CASE ~Waiting
    <3>1. AwaitsStatus /\ tally'.turn = 0
      BY <2>3, TouchTypes DEF AwaitsStatus, Waiting
    <3>2. shown.age <= Timeout
      <4>1. shown.age <= awaited.waited
        BY <1>1, <1>3, <3>1 DEF TouchInv, LastInTurn
      <4> QED BY <2>1, <4>1
    <3>3. Posted(0) = Timeout
      BY PostedIs
    <3> QED BY <3>1, <3>2, <3>3
  <2> QED BY <2>2, <2>3
<1>4. ASSUME Exact', shown # None PROVE SeenInTime'
  BY <1>1, <1>3, <1>4 DEF SeenInTime, Posted
<1> QED BY <1>1, <1>2, <1>4 DEF TouchInv

\* Time passes: what is shown ages with what is waited for.
LEMMA TouchPass ==
  ASSUME TInv, TouchInv, Tick
  PROVE  TouchInv'
<1>1. Pass /\ (awaited # None => awaited.waited < Timeout)
  BY TickIsPass
<1>2. /\ timer' = IF timer = 0 THEN 0 ELSE timer - 1
      /\ awaited' = IF awaited = None THEN None
                    ELSE [awaited EXCEPT !.age = @ + 1, !.waited = @ + 1]
      /\ shown' = IF shown = None THEN None ELSE [shown EXCEPT !.age = Older(@, Stale + 1)]
      /\ late' = {[l EXCEPT !.age = @ + 1] : l \in late}
      /\ pc' = pc /\ tally' = tally
  BY <1>1 DEF Pass
<1>3. ASSUME awaited # None
      PROVE  /\ awaited' # None /\ awaited'.req = awaited.req /\ awaited'.age = awaited.age + 1
             /\ awaited'.waited = awaited.waited + 1 /\ awaited'.stage = awaited.stage
  <2>1. awaited \in Awaited /\ awaited.waited < Timeout
    BY <1>1, <1>3, TouchTypes
  <2>2. awaited' = [awaited EXCEPT !.age = awaited.age + 1, !.waited = awaited.waited + 1]
    BY <1>2, <1>3
  <2>3. awaited.age + 1 \in 0..Slowest /\ awaited.waited + 1 \in 0..Timeout
    BY <1>3, <2>1, YoungPost DEF TInv
  <2>4. awaited' \in Awaited /\ awaited'.req = awaited.req /\ awaited'.age = awaited.age + 1
        /\ awaited'.waited = awaited.waited + 1 /\ awaited'.stage = awaited.stage
    BY <2>1, <2>2, <2>3 DEF Awaited
  <2> QED BY <2>4, NoneAssumption
<1>4. (Waiting' <=> Waiting) /\ (AwaitsStatus' <=> AwaitsStatus) /\ (Exact' <=> Exact)
      /\ Posted(tally.turn)' = Posted(tally.turn)
      /\ Posted(tally.turn - 1)' = Posted(tally.turn - 1)
  BY <1>2, <1>3 DEF Waiting, AwaitsStatus, Exact, Posted
<1>5. ASSUME shown # None
      PROVE  /\ shown' # None => shown'.lag = shown.lag
             /\ shown'.age \in Nat /\ shown'.age <= shown.age + 1
  <2>1. shown \in Shown /\ shown.age \in 0..(Stale + 1) /\ Stale + 1 \in Nat
    BY <1>5, TouchTypes, TimesAssumption
  <2>2. shown' = [shown EXCEPT !.age = Older(shown.age, Stale + 1)]
    BY <1>2, <1>5
  <2>3. /\ Older(shown.age, Stale + 1) \in 0..(Stale + 1)
        /\ Older(shown.age, Stale + 1) <= shown.age + 1
    BY <2>1, OlderIs
  <2>4. shown'.lag = shown.lag /\ shown'.age = Older(shown.age, Stale + 1)
    BY <2>1, <2>2 DEF Shown
  <2> QED BY <2>1, <2>3, <2>4
<1>6. shown = None => shown' = None
  BY <1>2
<1>7. ASSUME pc # "stopped" PROVE LastInTurn'
  <2>1. SUFFICES ASSUME AwaitsStatus PROVE LastInTurn'
    BY <1>4 DEF LastInTurn
  <2>2. awaited # None /\ LastInTurn
    BY <1>7, <2>1 DEF AwaitsStatus, TouchInv
  <2>3. shown' # None /\ shown'.lag = 0 =>
          awaited'.stage = "answered" /\ shown'.age <= awaited'.waited
    <3>1. SUFFICES ASSUME shown' # None, shown'.lag = 0
                   PROVE  awaited'.stage = "answered" /\ shown'.age <= awaited'.waited
      OBVIOUS
    <3>2. shown # None /\ shown.lag = 0 /\ shown'.age \in Nat /\ shown'.age <= shown.age + 1
      BY <1>5, <1>6, <3>1
    <3>3. awaited.stage = "answered" /\ shown.age <= awaited.waited
      BY <2>1, <2>2, <3>2 DEF LastInTurn
    <3>4. awaited'.stage = awaited.stage /\ awaited'.waited = awaited.waited + 1
      BY <1>3, <2>2
    <3>5. shown.age \in Nat /\ awaited.waited \in Nat
      BY <2>2, <3>2, TouchTypes
    <3> QED BY <3>2, <3>3, <3>4, <3>5
  <2>4. ASSUME NEW l \in late', l.req.what = "status" PROVE l.req.lag # 0
    <3>1. PICK k \in late : l = [k EXCEPT !.age = @ + 1]
      BY <1>2
    <3>2. l.req = k.req
      BY <3>1 DEF TInv, TypeOK
    <3> QED BY <2>1, <2>2, <2>4, <3>2 DEF LastInTurn
  <2> QED BY <2>3, <2>4 DEF LastInTurn
<1>8. ASSUME Exact, shown' # None PROVE SeenInTime'
  <2>1. shown # None /\ SeenInTime /\ shown'.lag = shown.lag /\ shown'.age \in Nat
        /\ shown'.age <= shown.age + 1 /\ shown.age \in Nat
    BY <1>5, <1>6, <1>8, TouchTypes DEF TouchInv
  <2>2. PICK p, q : p = Posted(tally.turn) /\ q = Posted(tally.turn - 1)
    OBVIOUS
  <2>3. p \in Nat /\ (Waiting => q \in Nat) /\ SweepTime \in Nat /\ timer \in Nat
    <3>1. tally.turn \in Nat /\ (Waiting => tally.turn - 1 \in Nat)
      BY <1>8, TouchTypes DEF TouchInv
    <3> QED BY <2>2, <3>1, PostedIs, TouchTypes
  <2>4. CASE awaited = None
    <3>1. pc = "sweeping" /\ timer > 0 /\ ~Waiting /\ ~AwaitsStatus
      BY <1>8, <2>4 DEF Tick, Exact, Waiting, AwaitsStatus
    <3>2. shown.lag = 0 => shown.age + timer <= p + SweepTime
      BY <2>1, <2>2, <3>1 DEF SeenInTime
    <3>3. timer' = timer - 1
      BY <1>2, <3>1
    <3>4. shown.lag = 0 => shown'.age + timer' <= p + SweepTime
      BY <2>1, <2>3, <3>1, <3>2, <3>3
    <3> QED BY <1>2, <1>4, <2>1, <2>2, <3>1, <3>4 DEF SeenInTime
  <2>5. CASE awaited # None
    <3>1. awaited' # None /\ awaited'.age = awaited.age + 1 /\ awaited.age \in Nat
          /\ pc = "alerting"
      BY <1>3, <2>5, TouchTypes
    <3>2. shown.lag = 0 /\ Waiting => shown.age <= q + awaited.age
      BY <2>1, <2>2 DEF SeenInTime
    <3>3. shown.lag = 1 /\ AwaitsStatus => shown.age <= p + SweepTime + awaited.age
      BY <2>1, <2>2 DEF SeenInTime
    <3>4. PICK m, n, i, j : m = shown.age /\ n = shown'.age /\ i = awaited.age /\ j = awaited'.age
      OBVIOUS
    <3>5. /\ shown.lag = 0 /\ Waiting => n <= q + j
          /\ shown.lag = 1 /\ AwaitsStatus => n <= p + SweepTime + j
      BY <2>1, <2>3, <3>1, <3>2, <3>3, <3>4
    <3> QED BY <1>2, <1>4, <2>1, <2>2, <3>1, <3>4, <3>5 DEF SeenInTime
  <2> QED BY <2>4, <2>5
<1>9. Exact => (Waiting' => tally'.turn > 0)
  BY <1>2, <1>4 DEF TouchInv
<1> QED BY <1>2, <1>4, <1>7, <1>8, <1>9 DEF TouchInv

\* A heartbeat is sent: what the screen shows is the one before it.
LEMMA TouchStatus ==
  ASSUME TInv, TouchInv, SendStatus
  PROVE  TouchInv'
<1>1. /\ pc = "reporting" /\ awaited = None /\ pc' = "alerting" /\ tally' = tally
      /\ shown' = IF shown = None THEN None ELSE Behind(shown)
      /\ late' = {[l EXCEPT !.req = IF @.what = "status" THEN Behind(@) ELSE @] : l \in late}
  BY DEF SendStatus, Overtake
<1>2. awaited'.age = 0 /\ awaited'.req.what = "status"
  BY DEF SendStatus, Await
<1>3. ~Waiting'
  BY <1>2 DEF Waiting
<1>4. ASSUME shown' # None
      PROVE  /\ shown # None /\ shown'.age = shown.age /\ shown'.lag # 0
             /\ shown'.lag = 1 => shown.lag = 0
  <2>1. shown # None /\ shown' = Behind(shown)
    BY <1>1, <1>4
  <2>2. shown \in Shown /\ shown.lag \in 0..2
    BY <2>1, TouchTypes
  <2>3. shown'.lag = Least(shown.lag + 1, 2) /\ shown'.age = shown.age
    BY <2>1, <2>2 DEF Behind, Shown
  <2>4. shown'.lag # 0 /\ (shown'.lag = 1 => shown.lag = 0)
    BY <2>2, <2>3 DEF Least
  <2> QED BY <2>1, <2>3, <2>4
<1>5. ASSUME NEW l \in late', l.req.what = "status" PROVE l.req.lag # 0
  <2>1. PICK k \in late : l = [k EXCEPT !.req = IF @.what = "status" THEN Behind(@) ELSE @]
    BY <1>1
  <2>2. k \in [req : Request, age : 0..Linger]
    BY DEF TInv, TypeOK
  <2>3. l.req = IF k.req.what = "status" THEN Behind(k.req) ELSE k.req
    BY <2>1, <2>2
  <2>4. k.req \in Status /\ l.req = Behind(k.req)
    BY <1>5, <2>2, <2>3, TwoKinds
  <2>5. l.req.lag = Least(k.req.lag + 1, 2) /\ k.req.lag \in 0..2
    BY <2>4 DEF Behind, Status
  <2> QED BY <2>5 DEF Least
<1>6. LastInTurn'
  BY <1>4, <1>5 DEF LastInTurn
<1>7. ASSUME Exact', shown' # None PROVE SeenInTime'
  <2>1. Exact /\ shown # None
    BY <1>1, <1>4, <1>7 DEF Exact
  <2>2. shown'.lag = 1 => shown.age <= Posted(tally.turn) + SweepTime
    BY <1>1, <1>4, <1>7, <2>1 DEF TouchInv, SeenInTime
  <2>3. tally.turn \in Nat /\ SweepTime \in Nat /\ shown.age \in Nat
    BY <2>1, TouchTypes
  <2>4. PICK p : p = Posted(tally.turn)
    OBVIOUS
  <2>5. p \in Nat
    BY <2>3, <2>4, PostedIs
  <2>6. shown'.lag = 1 => shown'.age <= p + SweepTime + awaited'.age
    BY <1>2, <1>4, <1>7, <2>2, <2>3, <2>4, <2>5
  <2>7. Posted(tally.turn)' = p
    BY <1>1, <2>4 DEF Posted
  <2> QED BY <1>1, <1>3, <1>4, <1>7, <2>6, <2>7 DEF SeenInTime
<1> QED BY <1>3, <1>6, <1>7 DEF TouchInv

\* An alert is sent: one more in this turn.
LEMMA TouchAlert ==
  ASSUME TInv, TouchInv, SendAlert
  PROVE  TouchInv'
<1>1. /\ pc = "alerting" /\ awaited = None /\ pc' = "alerting" /\ shown' = shown
      /\ tally'.turn = Count(tally.turn)
  BY DEF SendAlert, TInv, TypeOK
<1>2. awaited'.age = 0 /\ awaited'.req.what = "alert"
  BY DEF SendAlert, Await
<1>3. awaited' # None
  <2>1. Head(todo) \in Alert
    BY HeadTailProperties DEF SendAlert, TInv, TypeOK
  <2>2. awaited' \in Awaited
    BY <2>1, AwaitType DEF SendAlert, Request, Post
  <2> QED BY <2>2, NoneAssumption
<1>4. Waiting' /\ ~AwaitsStatus' /\ ~Waiting
  BY <1>1, <1>2, <1>3 DEF Waiting, AwaitsStatus
<1>5. LastInTurn'
  BY <1>4 DEF LastInTurn
<1>6. ASSUME Exact' PROVE Exact /\ tally'.turn = tally.turn + 1 /\ tally.turn \in Nat
  <2>1. tally.turn \in Nat /\ tally.turn <= MaxCount /\ tally'.turn < MaxCount /\ MaxCount \in Nat
    BY <1>6, TouchTypes, TimesAssumption DEF Exact
  <2> QED BY <1>1, <2>1 DEF Exact, Count, Least
<1>7. ASSUME Exact', shown # None PROVE SeenInTime'
  <2>1. Exact /\ tally'.turn - 1 = tally.turn
    BY <1>6, <1>7
  <2>2. shown.lag = 0 => shown.age <= Posted(tally.turn)
    BY <1>1, <1>7, <2>1 DEF TouchInv, SeenInTime
  <2>3. PICK p : p = Posted(tally.turn)
    OBVIOUS
  <2>4. Posted(tally.turn - 1)' = p
    BY <2>1, <2>3 DEF Posted
  <2>5. p \in Nat /\ shown.age \in Nat
    BY <1>6, <1>7, <2>3, PostedIs, TouchTypes
  <2>6. shown.lag = 0 => shown'.age <= p + awaited'.age
    BY <1>1, <1>2, <2>2, <2>3, <2>5
  <2> QED BY <1>1, <1>3, <1>4, <2>4, <2>6 DEF SeenInTime
<1>8. Exact' => tally'.turn > 0
  BY <1>6
<1> QED BY <1>1, <1>5, <1>7, <1>8 DEF TouchInv

\* The wait goes on at another address, or for the answer: the heartbeat waited
\* for has not been answered yet.
LEMMA TouchConnect ==
  ASSUME TInv, TouchInv, Connect \/ NextAddress
  PROVE  TouchInv'
<1>1. /\ awaited # None /\ awaited' # None /\ awaited'.req = awaited.req
      /\ awaited'.age = awaited.age /\ awaited.stage = "connecting"
  BY ConnectType, NoneAssumption DEF TInv
<1>2. UNCHANGED <<pc, timer, tally, late, shown>>
  BY DEF Connect, NextAddress
<1>3. (Waiting' <=> Waiting) /\ (AwaitsStatus' <=> AwaitsStatus) /\ (Exact' <=> Exact)
      /\ Posted(tally.turn)' = Posted(tally.turn)
      /\ Posted(tally.turn - 1)' = Posted(tally.turn - 1)
  BY <1>1, <1>2 DEF Waiting, AwaitsStatus, Exact, Posted
<1>4. LastInTurn => LastInTurn'
  BY <1>1, <1>2, <1>3 DEF LastInTurn
<1>5. SeenInTime => SeenInTime'
  BY <1>1, <1>2, <1>3 DEF SeenInTime
<1> QED BY <1>2, <1>3, <1>4, <1>5 DEF TouchInv

\* Every step keeps the lane within the turn.
LEMMA TouchStep ==
  ASSUME TInv, TouchInv, [Next]_vars
  PROVE  TouchInv'
<1>1. ASSUME NEW found \in Sweep, Analyse(found) PROVE TouchInv'
  <2>1. awaited = None
    BY <1>1 DEF Analyse, TInv, WaitsInItsPlace
  <2> QED BY <1>1, <2>1, TouchIdle, TouchTypes DEF Analyse
<1>2. CASE SkipRepeat
  BY <1>2, TouchIdle, TouchTypes DEF SkipRepeat
<1>3. CASE NextSweep
  BY <1>3, TouchIdle, TouchTypes DEF NextSweep
<1>4. CASE Accepted
  <2>1. tally'.turn = IF awaited.req.what = "alert" THEN tally.turn ELSE 0
    BY <1>4 DEF Accepted, TInv, TypeOK
  <2> QED BY <1>4, <2>1, TouchDone DEF Accepted
<1>5. CASE GiveUp
  <2>1. tally'.turn = IF awaited.req.what = "alert" THEN tally.turn ELSE 0
    BY <1>5 DEF GiveUp, TInv, TypeOK
  <2> QED BY <1>5, <2>1, TouchDone DEF GiveUp, Abandon
<1>6. CASE StopMonitor
  <2>1. pc' = "stopped" /\ awaited' = None
    BY <1>6 DEF StopMonitor, Abandon
  <2>2. ~Exact'
    BY <2>1 DEF Exact
  <2> QED BY <2>1, <2>2 DEF TouchInv
<1>7. CASE Handle
  <2>1. awaited # None /\ awaited.req \in Request /\ late' = late
    BY <1>7, TouchTypes DEF Handle
  <2> QED BY <1>7, <2>1, TouchReceive DEF Handle
<1>8. ASSUME NEW l \in late, HandleLate(l) PROVE TouchInv'
  <2>1. l.req \in Request
    BY DEF TInv, TypeOK
  <2>2. CASE pc = "stopped"
    BY <1>8, <2>2 DEF HandleLate, Receive, TouchInv, Exact
  <2>3. CASE pc # "stopped"
    <3>1. AwaitsStatus => (l.req.what = "status" => l.req.lag # 0)
      BY <2>3 DEF TouchInv, LastInTurn
    <3> QED BY <1>8, <2>1, <3>1, TouchReceive DEF HandleLate
  <2> QED BY <2>2, <2>3
<1>9. CASE StopReceiver
  <2>1. /\ shown' = None /\ late' = {} /\ UNCHANGED <<pc, timer, tally>>
        /\ awaited' = IF awaited # None /\ awaited.stage = "wire"
                      THEN [awaited EXCEPT !.stage = "reset"] ELSE awaited
    BY <1>9 DEF StopReceiver
  <2>2. /\ awaited' # None <=> awaited # None
        /\ awaited # None => awaited'.req = awaited.req
    BY <2>1, TouchTypes, NoneAssumption DEF Awaited
  <2>3. (Waiting' <=> Waiting) /\ (Exact' <=> Exact)
    BY <2>1, <2>2 DEF Waiting, Exact
  <2> QED BY <2>1, <2>3 DEF TouchInv, LastInTurn
<1>10. CASE Tick
  BY <1>10, TouchPass
<1>11. ASSUME UNCHANGED <<pc, timer, tally, awaited, shown>>, late' \subseteq late
       PROVE  TouchInv'
  BY <1>11 DEF TouchInv, LastInTurn, SeenInTime, Exact, Waiting, AwaitsStatus, Posted
<1>12. CASE StartReceiver \/ (\E l \in late : LoseLate(l)) \/ UNCHANGED vars
  BY <1>11, <1>12 DEF StartReceiver, LoseLate, vars
<1> QED
  BY <1>1, <1>2, <1>3, <1>4, <1>5, <1>6, <1>7, <1>8, <1>9, <1>10, <1>12, TouchStatus,
     TouchAlert, TouchConnect DEF Next, Monitor, Faults, TimeOut, PostError

LEMMA InTouchBecauseSeen ==
  ASSUME TInv, TouchInv
  PROVE  InTouch
<1>1. SUFFICES ASSUME Exact, shown # None, TurnTime(tally.turn) <= Stale,
                      shown.lag = 0 \/ (shown.lag = 1 /\ AwaitsStatus)
               PROVE  shown.age <= Stale
  <2>1. shown # None => shown.age \in Nat /\ Stale \in Nat
    BY TouchTypes
  <2>2. awaited # None /\ awaited.req.what = "status" => AwaitsStatus
    BY DEF AwaitsStatus, Waiting
  <2> QED BY <2>1, <2>2 DEF InTouch, Condition, Exact
<1>2. tally.turn \in Nat /\ Slowest \in Nat /\ SweepTime \in Nat /\ Timeout \in Nat
      /\ Stale \in Nat /\ shown.age \in Nat /\ timer \in Nat
      /\ (Waiting => tally.turn - 1 \in Nat) /\ SeenInTime
  BY <1>1, TouchTypes DEF TouchInv
<1>3. PICK p, q : p = Posted(tally.turn) /\ q = Posted(tally.turn - 1)
  OBVIOUS
<1>4. p \in Nat /\ Timeout <= p /\ p + SweepTime + Slowest <= Stale
  BY <1>1, <1>2, <1>3, PostedIs
<1>5. CASE awaited # None
  <2>1. awaited.age \in Nat /\ awaited.age <= Slowest
        /\ awaited.waited \in Nat /\ awaited.waited <= Timeout
    BY <1>5, TouchTypes
  <2>2. CASE Waiting
    <3>1. q \in Nat /\ q + Slowest = p
      <4>1. PICK k : k = tally.turn - 1
        OBVIOUS
      <4>2. k \in Nat /\ k + 1 = tally.turn /\ q = Posted(k)
        BY <1>2, <1>3, <2>2, <4>1
      <4>3. Posted(k) \in Nat /\ Posted(k + 1) = Posted(k) + Slowest
        BY <4>2, PostedIs
      <4> QED BY <1>3, <4>2, <4>3
    <3>2. shown.lag = 0
      BY <1>1, <2>2 DEF AwaitsStatus
    <3>3. shown.age <= q + awaited.age
      BY <1>2, <1>3, <2>2, <3>2 DEF SeenInTime
    <3> QED BY <1>2, <1>4, <2>1, <3>1, <3>3
  <2>3. CASE ~Waiting
    <3>1. AwaitsStatus /\ pc # "stopped"
      BY <1>1, <1>5, <2>3 DEF AwaitsStatus, Exact
    <3>2. CASE shown.lag = 0
      <4>1. shown.age <= awaited.waited
        BY <1>1, <3>1, <3>2 DEF TouchInv, LastInTurn
      <4> QED BY <1>2, <1>4, <2>1, <4>1
    <3>3. CASE shown.lag = 1
      <4>1. shown.age <= p + SweepTime + awaited.age
        BY <1>2, <1>3, <3>1, <3>3 DEF SeenInTime
      <4> QED BY <1>2, <1>4, <2>1, <4>1
    <3> QED BY <1>1, <3>2, <3>3
  <2> QED BY <2>2, <2>3
<1>6. CASE awaited = None
  <2>1. shown.lag = 0 /\ ~Waiting
    BY <1>1, <1>6 DEF AwaitsStatus, Waiting
  <2>2. /\ pc = "alerting" => shown.age <= p
        /\ pc = "sweeping" => shown.age + timer <= p + SweepTime
        /\ pc = "reporting" => shown.age <= p + SweepTime
    BY <1>2, <1>3, <1>6, <2>1 DEF SeenInTime
  <2>3. pc \in {"alerting", "sweeping", "reporting"}
    BY <1>1 DEF TInv, TypeOK, Exact
  <2> QED BY <1>2, <1>4, <2>2, <2>3
<1> QED BY <1>5, <1>6

\* A running monitor whose last heartbeat arrived is not called offline as long
\* as what it has done since, at its slowest, and a sweep and the next
\* heartbeat's post, at their slowest, fit in the stale time: a post takes one
\* timeout for each address of the receiver's host and one for the answer
\* (webhook.py:150, 178; alert_receiver.py:31-33, 77; rf_monitor.py:230-253).
THEOREM RunningIsInTouch == Spec => []InTouch
<1>1. Init => TouchInv
  BY DEF Init, TouchInv, LastInTurn, AwaitsStatus, Waiting
<1>2. TInv /\ TouchInv /\ [Next]_vars => TouchInv'
  BY TouchStep
<1>3. TInv /\ TouchInv => InTouch
  BY InTouchBecauseSeen
<1> QED BY <1>1, <1>2, <1>3, TypedAlways, PTL DEF Spec

=============================================================================
