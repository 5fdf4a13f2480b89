------------------------- MODULE AlertReceiverProofs -------------------------
(***************************************************************************)
(* The safety properties of AlertReceiver, for every number of requests,   *)
(* every cap and every number of threads up to the cap.                    *)
(*                                                                         *)
(* The argument counts threads.  A thread about to pop stands for an alert *)
(* the list is about to lose, and it came there when the list was over its *)
(* cap: the length less the threads about to pop stays above Cap minus the *)
(* number of threads.  A thread that has appended and not yet found the    *)
(* list short enough stands for one alert the list may hold over its cap.  *)
(***************************************************************************)
EXTENDS AlertReceiver, FiniteSetTheorems, SequenceTheorems, TLAPS

Popping == {r \in Request : at[r] = "pop"}
Trimming == {r \in Request : at[r] \in {"check", "pop"}}

AppendedOnce == \A i \in DOMAIN arrived : at[arrived[i]] \notin {"unread", "append"}

ThreadsBounded == Cardinality(Running) <= Threads

\* The list is the end of what arrived.
Suffix ==
  /\ Len(received_alerts) <= Len(arrived)
  /\ \A i \in 1..Len(received_alerts) :
       received_alerts[i] = arrived[Len(arrived) - Len(received_alerts) + i]

NotTooShort ==
  \/ Len(received_alerts) = Len(arrived) /\ Popping = {}
  \/ Len(received_alerts) - Cardinality(Popping) >= Cap + 1 - Threads

NotTooLong == Len(received_alerts) <= Cap + Cardinality(Trimming)

RInv ==
  /\ TypeOK
  /\ AppendedOnce
  /\ ThreadsBounded
  /\ Suffix
  /\ NotTooShort
  /\ NotTooLong

----------------------------------------------------------------------------
(* Sets of requests are finite, and what moving one thread does to them. *)

LEMMA FiniteRequests ==
  ASSUME NEW S, S \subseteq Request
  PROVE  IsFiniteSet(S) /\ Cardinality(S) \in Nat
<1>1. IsFiniteSet(Request)
  BY FS_Interval, CapAssumption DEF Request
<1>2. QED
  BY <1>1, FS_Subset, FS_CardinalityType

LEMMA Joins ==
  ASSUME NEW S, S \subseteq Request, NEW r \in Request, r \notin S
  PROVE  Cardinality(S \cup {r}) = Cardinality(S) + 1
BY FiniteRequests, FS_AddElement

LEMMA Leaves ==
  ASSUME NEW S, S \subseteq Request, NEW r \in S
  PROVE  Cardinality(S \ {r}) = Cardinality(S) - 1
BY FiniteRequests, FS_RemoveElement

LEMMA AtLeastOne ==
  ASSUME NEW S, S \subseteq Request, NEW r \in S
  PROVE  Cardinality(S) >= 1
<1>1. Cardinality(S \ {r}) \in Nat /\ Cardinality(S) \in Nat
  BY FiniteRequests
<1>2. QED
  BY <1>1, Leaves

LEMMA Inside ==
  ASSUME NEW T, T \subseteq Request, NEW S, S \subseteq T
  PROVE  Cardinality(S) <= Cardinality(T)
BY FiniteRequests, FS_Subset

LEMMA SetsOfRequests ==
  /\ Popping \subseteq Trimming
  /\ Trimming \subseteq Running
  /\ Running \subseteq Request
BY DEF Popping, Trimming, Running

LEMMA Counts ==
  /\ Cardinality(Popping) \in Nat
  /\ Cardinality(Trimming) \in Nat
  /\ Cardinality(Running) \in Nat
BY SetsOfRequests, FiniteRequests

\* The three sets after a thread has moved.
LEMMA Moves ==
  ASSUME TypeOK, NEW r \in Request, NEW from, NEW to, Goto(r, from, to)
  PROVE  /\ Popping' = IF to = "pop" THEN Popping \cup {r} ELSE Popping \ {r}
         /\ Trimming' = IF to \in {"check", "pop"}
                        THEN Trimming \cup {r} ELSE Trimming \ {r}
         /\ Running' = IF to \notin {"unread", "answered"}
                       THEN Running \cup {r} ELSE Running \ {r}
         /\ at'[r] = to
         /\ \A q \in Request \ {r} : at'[q] = at[q]
BY DEF Goto, TypeOK, Popping, Trimming, Running

----------------------------------------------------------------------------
(* The invariant is inductive *)

LEMMA InitRInv == Init => RInv
<1> SUFFICES ASSUME Init PROVE RInv
  OBVIOUS
<1>1. Popping = {} /\ Trimming = {} /\ Running = {}
  BY DEF Init, Popping, Trimming, Running
<1>2. received_alerts = <<>> /\ arrived = <<>>
  BY DEF Init
<1>3. Len(received_alerts) = 0 /\ Len(arrived) = 0 /\ DOMAIN arrived = {}
  BY <1>2
<1>4. TypeOK
  BY <1>3 DEF Init, TypeOK
<1>5. AppendedOnce /\ Suffix /\ NotTooShort
  BY <1>1, <1>3 DEF AppendedOnce, Suffix, NotTooShort
<1>6. ThreadsBounded /\ NotTooLong
  BY <1>1, <1>3, FS_EmptySet, CapAssumption DEF ThreadsBounded, NotTooLong
<1>7. QED
  BY <1>4, <1>5, <1>6 DEF RInv

\* A thread at pop(0) finds the list longer than the threads that pop.
LEMMA PopNeverFails ==
  ASSUME RInv, NEW r \in Request, at[r] = "pop"
  PROVE  received_alerts # <<>>
<1>1. r \in Popping
  BY DEF Popping
<1>2. Cardinality(Popping) >= 1
  BY <1>1, SetsOfRequests, AtLeastOne
<1>3. Len(received_alerts) > 0
  BY <1>1, <1>2, Counts, CapAssumption DEF RInv, NotTooShort, TypeOK
<1>4. QED
  BY <1>3, EmptySeq

LEMMA TypeStep ==
  ASSUME RInv, NEW r \in Request,
         \/ Accept(r) \/ AppendAlert(r) \/ CheckLong(r)
         \/ CheckShort(r) \/ Pop(r) \/ Respond(r)
  PROVE  TypeOK' /\ AppendedOnce'
<1> USE DEF RInv
<1>1. at' \in [Request -> {"unread", "append", "check", "pop", "respond", "answered"}]
  BY DEF Accept, AppendAlert, CheckLong, CheckShort, Pop, Respond, Goto, TypeOK
<1>2. CASE UNCHANGED <<received_alerts, arrived>>
  <2>1. ~(at[r] # "unread" /\ at[r] # "append" /\ at'[r] \in {"unread", "append"})
    BY DEF Accept, AppendAlert, CheckLong, CheckShort, Pop, Respond, Goto, TypeOK
  <2>2. \A q \in Request \ {r} : at'[q] = at[q]
    BY DEF Accept, AppendAlert, CheckLong, CheckShort, Pop, Respond, Goto, TypeOK
  <2>3. \A i \in DOMAIN arrived : arrived[i] \in Request
    BY DEF TypeOK
  <2>4. QED
    BY <1>1, <1>2, <2>1, <2>2, <2>3 DEF TypeOK, AppendedOnce
<1>3. CASE AppendAlert(r)
  <2>1. arrived' = Append(arrived, r) /\ received_alerts' = Append(received_alerts, r)
    BY <1>3 DEF AppendAlert
  <2>2. at[r] = "append" /\ at'[r] = "check" /\ \A q \in Request \ {r} : at'[q] = at[q]
    BY <1>3 DEF AppendAlert, Goto, TypeOK
  <2>3. arrived \in Seq(Request) /\ received_alerts \in Seq(Request)
    BY DEF TypeOK
  <2>4. arrived' \in Seq(Request) /\ received_alerts' \in Seq(Request)
    BY <2>1, <2>3
  <2>5. /\ DOMAIN arrived = 1..Len(arrived) /\ Len(arrived) \in Nat
        /\ DOMAIN arrived' = 1..(Len(arrived) + 1)
        /\ \A i \in DOMAIN arrived : arrived'[i] = arrived[i] /\ arrived[i] \in Request
        /\ arrived'[Len(arrived) + 1] = r
    BY <2>1, <2>3
  <2>6. \A i \in DOMAIN arrived : arrived[i] # r
    BY <2>2 DEF AppendedOnce
  <2>7. AppendedOnce'
    BY <2>2, <2>5, <2>6 DEF AppendedOnce
  <2>8. \A i, j \in DOMAIN arrived' : arrived'[i] = arrived'[j] => i = j
    BY <2>5, <2>6 DEF TypeOK
  <2>9. QED
    BY <1>1, <2>4, <2>7, <2>8 DEF TypeOK
<1>4. CASE Pop(r)
  <2>1. arrived' = arrived /\ received_alerts' = Tail(received_alerts)
    BY <1>4 DEF Pop
  <2>2. at[r] = "pop" /\ at'[r] = "check" /\ \A q \in Request \ {r} : at'[q] = at[q]
    BY <1>4 DEF Pop, Goto, TypeOK
  <2>3. received_alerts # <<>>
    BY <2>2, PopNeverFails
  <2>4. received_alerts' \in Seq(Request)
    BY <2>1, <2>3 DEF TypeOK
  <2>5. \A i \in DOMAIN arrived : arrived[i] \in Request
    BY DEF TypeOK
  <2>6. AppendedOnce'
    BY <2>1, <2>2, <2>5 DEF AppendedOnce
  <2>7. QED
    BY <1>1, <2>1, <2>4, <2>6 DEF TypeOK
<1>5. QED
  BY <1>2, <1>3, <1>4 DEF Accept, CheckLong, CheckShort, Respond

LEMMA ThreadsStep ==
  ASSUME RInv, NEW r \in Request,
         \/ Accept(r) \/ AppendAlert(r) \/ CheckLong(r)
         \/ CheckShort(r) \/ Pop(r) \/ Respond(r)
  PROVE  ThreadsBounded'
<1> USE DEF RInv
<1>1. CASE Accept(r)
  <2>1. Goto(r, "unread", "append")
    BY <1>1 DEF Accept
  <2>2. Running' = Running \cup {r}
    BY <2>1, Moves
  <2>3. r \notin Running
    BY <2>1 DEF Goto, Running
  <2>4. Cardinality(Running') = Cardinality(Running) + 1
    BY <2>2, <2>3, Joins, SetsOfRequests
  <2>5. QED
    BY <1>1, <2>4, Counts, CapAssumption DEF Accept, ThreadsBounded
<1>2. CASE ~Accept(r)
  <2>1. Running' \subseteq Running
    BY <1>2 DEF Running, AppendAlert, CheckLong, CheckShort, Pop, Respond, Goto, TypeOK
  <2>2. Cardinality(Running') <= Cardinality(Running) /\ Cardinality(Running') \in Nat
    BY <2>1, Inside, FiniteRequests, SetsOfRequests
  <2>3. QED
    BY <2>2, Counts, CapAssumption DEF ThreadsBounded
<1>3. QED
  BY <1>1, <1>2

LEMMA SuffixStep ==
  ASSUME RInv, NEW r \in Request,
         \/ Accept(r) \/ AppendAlert(r) \/ CheckLong(r)
         \/ CheckShort(r) \/ Pop(r) \/ Respond(r)
  PROVE  Suffix'
<1> USE DEF RInv
<1>0. arrived \in Seq(Request) /\ received_alerts \in Seq(Request)
  BY DEF TypeOK
<1>1. CASE UNCHANGED <<received_alerts, arrived>>
  BY <1>1 DEF Suffix
<1>2. CASE AppendAlert(r)
  <2>1. arrived' = Append(arrived, r) /\ received_alerts' = Append(received_alerts, r)
    BY <1>2 DEF AppendAlert
  <2>2. /\ Len(arrived') = Len(arrived) + 1
        /\ Len(received_alerts') = Len(received_alerts) + 1
        /\ Len(arrived) \in Nat /\ Len(received_alerts) \in Nat
        /\ \A i \in 1..Len(arrived) : arrived'[i] = arrived[i]
        /\ \A i \in 1..Len(received_alerts) : received_alerts'[i] = received_alerts[i]
        /\ arrived'[Len(arrived) + 1] = r
        /\ received_alerts'[Len(received_alerts) + 1] = r
    BY <1>0, <2>1, AppendProperties
  <2>3. ASSUME NEW i \in 1..(Len(received_alerts) + 1)
        PROVE  received_alerts'[i] = arrived'[Len(arrived) - Len(received_alerts) + i]
    <3>1. CASE i \in 1..Len(received_alerts)
      <4>1. Len(arrived) - Len(received_alerts) + i \in 1..Len(arrived)
        BY <2>2, <3>1 DEF Suffix
      <4>2. QED
        BY <2>2, <3>1, <4>1 DEF Suffix
    <3>2. CASE i = Len(received_alerts) + 1
      <4>1. Len(arrived) - Len(received_alerts) + i = Len(arrived) + 1
        BY <2>2, <3>2
      <4>2. QED
        BY <2>2, <3>2, <4>1
    <3>3. QED
      BY <2>2, <2>3, <3>1, <3>2
  <2>4. Len(arrived') - Len(received_alerts') = Len(arrived) - Len(received_alerts)
    BY <2>2
  <2>5. QED
    BY <2>2, <2>3, <2>4 DEF Suffix
<1>3. CASE Pop(r)
  <2>1. arrived' = arrived /\ received_alerts' = Tail(received_alerts)
    BY <1>3 DEF Pop
  <2>2. received_alerts # <<>>
    BY <1>3, PopNeverFails DEF Pop, Goto
  <2>3. /\ Len(received_alerts') = Len(received_alerts) - 1
        /\ Len(arrived) \in Nat /\ Len(received_alerts) \in Nat
        /\ Len(received_alerts) > 0
        /\ \A i \in 1..(Len(received_alerts) - 1) : received_alerts'[i] = received_alerts[i+1]
    BY <1>0, <2>1, <2>2, HeadTailProperties, LenProperties
  <2>4. ASSUME NEW i \in 1..(Len(received_alerts) - 1)
        PROVE  received_alerts'[i] = arrived[Len(arrived) - (Len(received_alerts) - 1) + i]
    <3>1. i + 1 \in 1..Len(received_alerts)
      BY <2>3
    <3>2. /\ received_alerts[i+1] = arrived[Len(arrived) - Len(received_alerts) + (i + 1)]
          /\ Len(arrived) - Len(received_alerts) + (i + 1)
               = Len(arrived) - (Len(received_alerts) - 1) + i
      BY <2>3, <3>1 DEF Suffix
    <3>3. QED
      BY <2>3, <3>2
  <2>5. Len(received_alerts') <= Len(arrived')
    BY <2>1, <2>3 DEF Suffix
  <2>6. \A i \in 1..Len(received_alerts') :
          received_alerts'[i] = arrived'[Len(arrived') - Len(received_alerts') + i]
    BY <2>1, <2>3, <2>4
  <2>7. QED
    BY <2>5, <2>6 DEF Suffix
<1>4. QED
  BY <1>1, <1>2, <1>3 DEF Accept, CheckLong, CheckShort, Respond

LEMMA NotTooShortStep ==
  ASSUME RInv, NEW r \in Request,
         \/ Accept(r) \/ AppendAlert(r) \/ CheckLong(r)
         \/ CheckShort(r) \/ Pop(r) \/ Respond(r)
  PROVE  NotTooShort'
<1> USE DEF RInv
<1>0. /\ arrived \in Seq(Request) /\ received_alerts \in Seq(Request)
      /\ Len(arrived) \in Nat /\ Len(received_alerts) \in Nat
  BY DEF TypeOK
<1>1. CASE Accept(r) \/ CheckShort(r) \/ Respond(r)
  <2>1. Popping' = Popping
    BY <1>1, Moves DEF Accept, CheckShort, Respond, Goto, Popping
  <2>2. QED
    BY <1>1, <2>1 DEF Accept, CheckShort, Respond, NotTooShort
<1>2. CASE AppendAlert(r)
  <2>1. Popping' = Popping
    BY <1>2, Moves DEF AppendAlert, Goto, Popping
  <2>2. /\ Len(arrived') = Len(arrived) + 1
        /\ Len(received_alerts') = Len(received_alerts) + 1
    BY <1>0, <1>2, AppendProperties DEF AppendAlert
  <2>3. QED
    BY <1>0, <2>1, <2>2, Counts, CapAssumption DEF NotTooShort
<1>3. CASE CheckLong(r)
  <2>1. Popping' = Popping \cup {r} /\ r \notin Popping
    BY <1>3, Moves DEF CheckLong, Goto, Popping
  <2>2. Popping \cup {r} \subseteq Running
    BY <1>3, SetsOfRequests DEF CheckLong, Goto, Running
  <2>3. /\ Cardinality(Popping') <= Cardinality(Running)
        /\ Cardinality(Popping') \in Nat
    BY <2>1, <2>2, Inside, FiniteRequests, SetsOfRequests
  <2>4. Len(received_alerts) > Cap /\ received_alerts' = received_alerts
    BY <1>3 DEF CheckLong, TooLong
  <2>5. QED
    BY <1>0, <2>3, <2>4, Counts, CapAssumption DEF NotTooShort, ThreadsBounded
<1>4. CASE Pop(r)
  <2>1. Popping' = Popping \ {r} /\ r \in Popping
    BY <1>4, Moves DEF Pop, Goto, Popping
  <2>2. Cardinality(Popping') = Cardinality(Popping) - 1
    BY <2>1, Leaves, SetsOfRequests
  <2>3. received_alerts # <<>>
    BY <1>4, PopNeverFails DEF Pop, Goto
  <2>4. Len(received_alerts') = Len(received_alerts) - 1
    BY <1>0, <1>4, <2>3, HeadTailProperties DEF Pop
  <2>5. Popping # {}
    BY <2>1
  <2>6. QED
    BY <1>0, <2>2, <2>4, <2>5, Counts, CapAssumption DEF NotTooShort
<1>5. QED
  BY <1>1, <1>2, <1>3, <1>4

LEMMA NotTooLongStep ==
  ASSUME RInv, NEW r \in Request,
         \/ Accept(r) \/ AppendAlert(r) \/ CheckLong(r)
         \/ CheckShort(r) \/ Pop(r) \/ Respond(r)
  PROVE  NotTooLong'
<1> USE DEF RInv
<1>0. received_alerts \in Seq(Request) /\ Len(received_alerts) \in Nat
  BY DEF TypeOK
<1>1. CASE Accept(r) \/ CheckLong(r) \/ Respond(r)
  <2>1. Trimming' = Trimming
    BY <1>1, Moves DEF Accept, CheckLong, Respond, Goto, Trimming
  <2>2. QED
    BY <1>1, <2>1 DEF Accept, CheckLong, Respond, NotTooLong
<1>2. CASE AppendAlert(r)
  <2>1. Trimming' = Trimming \cup {r} /\ r \notin Trimming
    BY <1>2, Moves DEF AppendAlert, Goto, Trimming
  <2>2. Cardinality(Trimming') = Cardinality(Trimming) + 1
    BY <2>1, Joins, SetsOfRequests
  <2>3. Len(received_alerts') = Len(received_alerts) + 1
    BY <1>0, <1>2, AppendProperties DEF AppendAlert
  <2>4. QED
    BY <1>0, <2>2, <2>3, Counts, CapAssumption DEF NotTooLong
<1>3. CASE CheckShort(r)
  <2>1. Cardinality(Trimming') \in Nat
    BY <1>3, FiniteRequests DEF Trimming
  <2>2. Len(received_alerts) <= Cap /\ received_alerts' = received_alerts
    BY <1>0, <1>3, CapAssumption DEF CheckShort, TooLong
  <2>3. QED
    BY <1>0, <2>1, <2>2, CapAssumption DEF NotTooLong
<1>4. CASE Pop(r)
  <2>1. Trimming' = Trimming
    BY <1>4, Moves DEF Pop, Goto, Trimming
  <2>2. received_alerts # <<>>
    BY <1>4, PopNeverFails DEF Pop, Goto
  <2>3. Len(received_alerts') = Len(received_alerts) - 1
    BY <1>0, <1>4, <2>2, HeadTailProperties DEF Pop
  <2>4. QED
    BY <1>0, <2>1, <2>3, Counts, CapAssumption DEF NotTooLong
<1>5. QED
  BY <1>1, <1>2, <1>3, <1>4

LEMMA Inductive == RInv /\ [Next]_vars => RInv'
<1> SUFFICES ASSUME RInv, [Next]_vars PROVE RInv'
  OBVIOUS
<1>1. CASE Next
  <2>1. PICK r \in Request :
          \/ Accept(r) \/ AppendAlert(r) \/ CheckLong(r)
          \/ CheckShort(r) \/ Pop(r) \/ Respond(r)
    BY <1>1 DEF Next
  <2>2. QED
    BY <2>1, TypeStep, ThreadsStep, SuffixStep, NotTooShortStep, NotTooLongStep DEF RInv
<1>2. CASE UNCHANGED vars
  BY <1>2 DEF vars, RInv, TypeOK, AppendedOnce, ThreadsBounded, Suffix, NotTooShort,
     NotTooLong, Running, Popping, Trimming
<1>3. QED
  BY <1>1, <1>2

LEMMA Invariance == Spec => []RInv
BY InitRInv, Inductive, PTL DEF Spec

----------------------------------------------------------------------------
(* The theorems *)

\* The list and the handlers are always what their types say, and no alert is
\* appended twice (alert_receiver.py:610).
THEOREM TypeCorrect == Spec => []TypeOK
<1>1. RInv => TypeOK
  BY DEF RInv
<1>2. QED
  BY <1>1, Invariance, PTL

\* No handler ever pops from an empty list (alert_receiver.py:612).
THEOREM PopsFind == Spec => []PopFinds
<1>1. RInv => PopFinds
  BY PopNeverFails DEF PopFinds
<1>2. QED
  BY <1>1, Invariance, PTL

\* What the list holds is the newest alerts, and enough of them
\* (alert_receiver.py:610-612).
THEOREM NewestAreRetained == Spec => []NewestRetained
<1>1. ASSUME RInv PROVE NewestRetained
  <2> USE <1>1 DEF RInv
  <2> DEFINE n == Len(received_alerts)
             m == Len(arrived)
  <2>1. /\ received_alerts \in Seq(Request) /\ arrived \in Seq(Request)
        /\ n \in Nat /\ m \in Nat /\ n <= m
    BY DEF TypeOK, Suffix
  <2>2. \A i \in (m - n + 1)..m : arrived[i] \in Request
    BY <2>1
  <2>3. /\ Newest(n) \in Seq(Request)
        /\ Len(Newest(n)) = n
        /\ \A i \in 1..n : Newest(n)[i] = arrived[m - n + i]
    BY <2>1, <2>2, SubSeqProperties DEF Newest
  <2>4. received_alerts = Newest(n)
    BY <2>1, <2>3, SeqEqual DEF Suffix
  <2>5. n = m => received_alerts = arrived
    BY <2>1, SeqEqual DEF Suffix
  <2>6. received_alerts = arrived \/ n >= Cap + 1 - Threads
    BY <2>1, <2>5, Counts, CapAssumption DEF NotTooShort
  <2>7. QED
    BY <2>1, <2>4, <2>6 DEF NewestRetained
<1>2. QED
  BY <1>1, Invariance, PTL

\* When no handler runs, the list is within its cap (alert_receiver.py:611).
THEOREM WithinCapAtRest == Spec => []CappedAtRest
<1>1. ASSUME RInv, Running = {} PROVE Len(received_alerts) <= Cap
  <2>1. Trimming = {}
    BY <1>1, SetsOfRequests
  <2>2. QED
    BY <1>1, <2>1, FS_EmptySet, CapAssumption DEF RInv, NotTooLong, TypeOK
<1>2. RInv => CappedAtRest
  BY <1>1 DEF CappedAtRest
<1>3. QED
  BY <1>2, Invariance, PTL

=============================================================================
