------------------------- MODULE FlowAssemblyProofs -------------------------
(***************************************************************************)
(* Theorems about FlowAssembly, for every set of endpoints, every grace    *)
(* period and every capture file.                                          *)
(***************************************************************************)
EXTENDS FlowAssembly, FiniteSetTheorems, WellFoundedInduction, TLAPS

USE InstantAssumption, ShapeAssumption, NoneAssumption, GraceAssumption

LEMMA AtIsPacket ==
  ASSUME NEW shape \in Shape, NEW t \in Instant
  PROVE  At(shape, t) \in Packet
BY DEF At, Packet, PacketShape

\* Both directions of a connection fold to one key (tls_egress.py:119-126),
\* as long as the client does not use the monitored port itself.
THEOREM FoldsBothDirections ==
  ASSUME NEW p \in Packet, NEW q \in Packet,
         q.src = p.dst, q.dst = p.src,
         OnPort(p), ~(p.src.port = Port /\ p.dst.port = Port)
  PROVE  KeyOf(p) = KeyOf(q)
BY DEF KeyOf, OnPort

LEMMA KeyOfIsKey ==
  ASSUME NEW p \in Packet, OnPort(p)
  PROVE  KeyOf(p) \in Key
BY DEF KeyOf, OnPort, Key, Packet

LEMMA ReportType ==
  ASSUME NEW x \in Session
  PROVE  Report(x) \in Observation
<1>1. /\ x.key[1] \in Endpoint
      /\ x.key[2] \in Endpoint
      /\ x.key[2].port = Port
      /\ x.key \in Key
  BY DEF Session, Key
<1>a. x.start \in Instant /\ x.last \in Instant
  BY DEF Session
<1>b. x.last - x.start \in Int
  <2>1. x.start \in Nat /\ x.last \in Nat
    BY <1>a
  <2>2. ASSUME NEW a \in Nat, NEW b \in Nat PROVE a - b \in Int
    OBVIOUS
  <2>3. QED
    BY <2>1, <2>2
<1>2. /\ x.bytes \in Nat
      /\ x.sni \in Name \cup {None}
      /\ x.members \in SUBSET Nat
  BY DEF Session
<1>3. QED
  BY <1>1, <1>2, <1>a, <1>b DEF Report, Observation

\* What packet p does to a session of its key.
LEMMA SessionWithType ==
  ASSUME TypeOK, NEW p \in Packet, OnPort(p)
  PROVE  /\ SessionWith(p) \in Session
         /\ Report(SessionWith(p)) \in Observation
         /\ SessionWith(p).members =
              (IF open[KeyOf(p)] = None THEN {} ELSE open[KeyOf(p)].members)
                \cup {Len(capture) + 1}
         /\ open[KeyOf(p)] = None => SessionWith(p).key = KeyOf(p)
         /\ open[KeyOf(p)] # None => SessionWith(p).key = open[KeyOf(p)].key
<1> DEFINE k == KeyOf(p)
           s == IF open[k] = None THEN NewSession(k, p.ts) ELSE open[k]
<1>1. k \in Key
  BY KeyOfIsKey
<1>2. s \in Session
  BY <1>1 DEF TypeOK, NewSession, Session, Packet
<1>3. Len(capture) + 1 \in Nat
  BY DEF TypeOK
<1>4. NameIn(p.payload) \in Name \cup {None}
  BY DEF NameIn
<1>5. SessionWith(p) = Counted(s, p, Len(capture) + 1)
  BY DEF SessionWith
<1> HIDE DEF s, k
<1>a. /\ p.ts \in Instant
      /\ p.len \in Nat
  BY DEF Packet
<1>b. PICK name \in Name \cup {None} :
        SessionWith(p) =
          [s EXCEPT !.last = p.ts, !.bytes = @ + p.len, !.sni = name,
                    !.members = @ \cup {Len(capture) + 1}]
  <2>1. (IF s.sni = None /\ p.payload # None THEN NameIn(p.payload) ELSE s.sni)
          \in Name \cup {None}
    BY <1>2, <1>4 DEF Session
  <2>2. QED
    BY <2>1, <1>5 DEF Counted
<1>6. /\ SessionWith(p) \in Session
      /\ SessionWith(p).members = s.members \cup {Len(capture) + 1}
      /\ SessionWith(p).key = s.key
  <2>1. /\ s.bytes \in Nat
        /\ s.members \in SUBSET Nat
        /\ s.key \in Key
        /\ s.start \in Instant
        /\ s = [key |-> s.key, start |-> s.start, last |-> s.last,
               bytes |-> s.bytes, sni |-> s.sni, members |-> s.members]
    BY <1>2 DEF Session
  <2>2. SessionWith(p) =
          [key |-> s.key, start |-> s.start, last |-> p.ts,
           bytes |-> s.bytes + p.len, sni |-> name,
           members |-> s.members \cup {Len(capture) + 1}]
    BY <2>1, <1>b
  <2>3. s.bytes + p.len \in Nat
    BY <2>1, <1>a
  <2>4. s.members \cup {Len(capture) + 1} \in SUBSET Nat
    BY <2>1, <1>3
  <2>5. SessionWith(p) \in Session
    BY <2>1, <2>2, <2>3, <2>4, <1>a DEF Session
  <2>6. QED
    BY <2>2, <2>5
<1>7. QED
  BY <1>6, ReportType DEF s, k, NewSession

----------------------------------------------------------------------------
(* The end of the file *)

LEMMA ListingOfInterval ==
  ASSUME NEW n \in Nat, NEW p \in Listings(1..n)
  PROVE  /\ p \in [1..n -> 1..n]
         /\ \A i, j \in 1..n : p[i] = p[j] => i = j
         /\ \A x \in 1..n : \E i \in 1..n : p[i] = x
<1>1. Cardinality(1..n) = n
  BY FS_Interval
<1>2. QED
  BY <1>1 DEF Listings

\* A session open under a key carries that key.
KeysMatch == \A k \in Key : open[k] # None => open[k].key = k

LEMMA SlotCases ==
  ASSUME NEW slot \in Slot
  PROVE  \/ \E n \in DOMAIN observations : slot = <<"reported", n>>
         \/ \E k \in Key : open[k] # None /\ slot = <<"open", k>>
<1>1. CASE slot \in {"reported"} \X (DOMAIN observations)
  BY <1>1
<1>2. CASE slot \in {"open"} \X {k \in Key : open[k] # None}
  BY <1>2
<1>3. QED
  BY <1>1, <1>2 DEF Slot

\* What a slot will say once the file has ended.
Said(slot) == IF slot[1] = "open" THEN Report(open[slot[2]])
                                  ELSE observations[slot[2]]

\* The sessions reported at the end are those there were, reported or open,
\* each once: `from' says which one each position of the list comes from.
LEMMA EndOrigin ==
  ASSUME TypeOK, KeysMatch, EndOfCapture
  PROVE  \E from \in [DOMAIN observations' -> Slot] :
           /\ \A i, j \in DOMAIN observations' : from[i] = from[j] => i = j
           /\ \A slot \in Slot : \E i \in DOMAIN observations' : from[i] = slot
           /\ \A i \in DOMAIN observations' : observations'[i] = Said(from[i])
           /\ \E n \in Nat :
                observations' = [i \in 1..n |-> observations'[i]]
<1> DEFINE opened == {x \in Key : open[x] # None}
           reports == {Report(open[k]) : k \in opened}
<1>1. PICK rest \in Listings(reports) :
        observations' \in
          {s \in Rearrangements(observations \o rest) : InStartOrder(s)}
  BY DEF EndOfCapture
<1> DEFINE all == observations \o rest
           m == Len(observations)
           r == Cardinality(reports)
<1>2. /\ r \in Nat
      /\ rest \in [1..r -> reports]
      /\ \A i, j \in 1..r : rest[i] = rest[j] => i = j
      /\ \A x \in reports : \E i \in 1..r : rest[i] = x
  <2>1. IsFiniteSet(reports)
    BY <1>1 DEF Listings
  <2>2. r \in Nat
    BY <2>1, FS_CardinalityType
  <2>3. QED
    BY <1>1, <2>2 DEF Listings
<1> HIDE DEF r
<1>3. /\ m \in Nat
      /\ observations \in [1..m -> Observation]
  BY DEF TypeOK
<1>4. /\ rest \in Seq(reports)
      /\ Len(rest) = r
  BY <1>2
<1>5. /\ Len(all) = m + r
      /\ DOMAIN all = 1..(m + r)
      /\ \A i \in 1..m : all[i] = observations[i]
      /\ \A i \in (m+1)..(m + r) : all[i] = rest[i - m]
  BY <1>2, <1>3, <1>4
<1>6. PICK p \in Listings(1..(m + r)) :
        observations' = [i \in 1..(m + r) |-> all[p[i]]]
  BY <1>1, <1>5 DEF Rearrangements
<1> HIDE DEF all, m, reports
<1>7. /\ m + r \in Nat
      /\ p \in [1..(m + r) -> 1..(m + r)]
      /\ \A i, j \in 1..(m + r) : p[i] = p[j] => i = j
      /\ \A x \in 1..(m + r) : \E i \in 1..(m + r) : p[i] = x
  <2>1. m + r \in Nat
    BY <1>2, <1>3
  <2>2. QED
    BY <2>1, ListingOfInterval
\* The key an entry of `rest' was open under.
<1> DEFINE keyOf(i) == rest[i].key
<1>8. \A i \in 1..r : /\ keyOf(i) \in opened
                      /\ rest[i] = Report(open[keyOf(i)])
  <2>1. ASSUME NEW k \in opened PROVE Report(open[k]).key = k
    BY DEF KeysMatch, Report
  <2>2. QED
    BY <1>2, <2>1 DEF reports
<1>9. \A k \in opened : \E i \in 1..r : keyOf(i) = k
  <2>1. ASSUME NEW k \in opened PROVE Report(open[k]).key = k
    BY DEF KeysMatch, Report
  <2>2. QED
    BY <1>2, <2>1 DEF reports
<1>10. \A i, j \in 1..r : keyOf(i) = keyOf(j) => i = j
  BY <1>2, <1>8
<1> DEFINE place(x) == IF x \in 1..m THEN <<"reported", x>>
                                     ELSE <<"open", keyOf(x - m)>>
           from == [i \in 1..(m + r) |-> place(p[i])]
<1>11. \A x \in 1..(m + r) : /\ place(x) \in Slot
                             /\ all[x] = Said(place(x))
  <2>1. ASSUME NEW x \in 1..m
        PROVE  place(x) \in Slot /\ all[x] = Said(place(x))
    <3>1. place(x) = <<"reported", x>>
      OBVIOUS
    <3>2. x \in DOMAIN observations
      BY <1>3
    <3>3. <<"reported", x>> \in Slot
      BY <3>2 DEF Slot
    <3>4. Said(<<"reported", x>>) = observations[x]
      BY DEF Said
    <3>5. QED
      BY <3>1, <3>3, <3>4, <1>5
  <2>2. ASSUME NEW x \in (m+1)..(m + r)
        PROVE  place(x) \in Slot /\ all[x] = Said(place(x))
    <3>1. x - m \in 1..r /\ x \notin 1..m
      BY <1>2, <1>3
    <3>2. place(x) = <<"open", keyOf(x - m)>>
      BY <3>1
    <3>3. <<"open", keyOf(x - m)>> \in Slot
      BY <3>1, <1>8 DEF Slot
    <3>4. Said(<<"open", keyOf(x - m)>>) = Report(open[keyOf(x - m)])
      BY DEF Said
    <3>5. all[x] = rest[x - m]
      BY <1>5
    <3>6. QED
      BY <3>1, <3>2, <3>3, <3>4, <3>5, <1>8
  <2>3. \A x \in 1..(m + r) : x \in 1..m \/ x \in (m+1)..(m + r)
    BY <1>2, <1>3
  <2>4. QED
    BY <2>1, <2>2, <2>3
<1>12. \A x, y \in 1..(m + r) : place(x) = place(y) => x = y
  BY <1>2, <1>3, <1>10
<1>13. \A slot \in Slot : \E x \in 1..(m + r) : place(x) = slot
  <2>1. ASSUME NEW n \in DOMAIN observations
        PROVE  \E x \in 1..(m + r) : place(x) = <<"reported", n>>
    <3>1. n \in 1..m /\ n \in 1..(m + r)
      BY <1>2, <1>3
    <3>2. place(n) = <<"reported", n>>
      BY <3>1
    <3>3. QED
      BY <3>1, <3>2
  <2>2. ASSUME NEW k \in opened
        PROVE  \E x \in 1..(m + r) : place(x) = <<"open", k>>
    <3>1. PICK i \in 1..r : keyOf(i) = k
      BY <1>9
    <3>2. /\ m + i \in 1..(m + r)
          /\ m + i \notin 1..m
          /\ (m + i) - m = i
      BY <1>2, <1>3
    <3>3. place(m + i) = <<"open", k>>
      BY <3>1, <3>2
    <3>4. QED
      BY <3>2, <3>3
  <2>3. SUFFICES ASSUME NEW slot \in Slot
                 PROVE  \E x \in 1..(m + r) : place(x) = slot
    OBVIOUS
  <2>4. CASE \E n \in DOMAIN observations : slot = <<"reported", n>>
    BY <2>1, <2>4
  <2>5. CASE \E k \in Key : open[k] # None /\ slot = <<"open", k>>
    BY <2>2, <2>5
  <2>6. QED
    BY <2>4, <2>5, SlotCases
<1> HIDE DEF place
<1>14. DOMAIN observations' = 1..(m + r)
  BY <1>6
<1>15. from \in [DOMAIN observations' -> Slot]
  BY <1>7, <1>11, <1>14
<1>16. \A i, j \in DOMAIN observations' : from[i] = from[j] => i = j
  BY <1>7, <1>12, <1>14
<1>17. \A slot \in Slot : \E i \in DOMAIN observations' : from[i] = slot
  BY <1>7, <1>13, <1>14
<1>18. \A i \in DOMAIN observations' : observations'[i] = Said(from[i])
  BY <1>6, <1>7, <1>11, <1>14
<1> HIDE DEF from
<1>19. observations' = [i \in 1..(m + r) |-> observations'[i]]
  BY <1>6
<1>20. QED
  BY <1>7, <1>14, <1>15, <1>16, <1>17, <1>18, <1>19

\* The same, in terms of the slots of the next state.
LEMMA EndSlots ==
  ASSUME TypeOK, KeysMatch, EndOfCapture
  PROVE  /\ Slot' = {"reported"} \X (DOMAIN observations')
         /\ \E from \in [DOMAIN observations' -> Slot] :
              /\ \A i, j \in DOMAIN observations' : from[i] = from[j] => i = j
              /\ \A slot \in Slot : \E i \in DOMAIN observations' : from[i] = slot
              /\ \A i \in DOMAIN observations' :
                   /\ observations'[i].members = MembersOf(from[i])
                   /\ observations'[i].key = KeyOfSlot(from[i])
<1>1. \A k \in Key : open'[k] = None
  BY DEF EndOfCapture
<1>2. Slot' = {"reported"} \X (DOMAIN observations')
  BY <1>1 DEF Slot
<1>3. ASSUME NEW slot \in Slot
      PROVE  Said(slot).members = MembersOf(slot) /\ Said(slot).key = KeyOfSlot(slot)
  <2>1. CASE \E n \in DOMAIN observations : slot = <<"reported", n>>
    BY <2>1 DEF Said, MembersOf, KeyOfSlot
  <2>2. CASE \E k \in Key : open[k] # None /\ slot = <<"open", k>>
    BY <2>2 DEF Said, MembersOf, KeyOfSlot, Report, KeysMatch
  <2>3. QED
    BY <2>1, <2>2, SlotCases
<1>4. QED
  BY <1>2, <1>3, EndOrigin

----------------------------------------------------------------------------
(* A packet that is counted *)

Before(k) == IF open[k] = None THEN {} ELSE open[k].members

\* A counted packet changes one session only: the one open under its key, if
\* any, gives way to session t, which has one packet more.
LEMMA CountedSlots ==
  ASSUME TypeOK, KeysMatch, NEW p \in Packet, Extend(p) \/ Close(p),
         NEW k, k = KeyOf(p)
  PROVE  \E t :
           /\ Slot' = (Slot \ {<<"open", k>>}) \cup {t}
           /\ t \notin Slot \ {<<"open", k>>}
           /\ \A s \in Slot \ {<<"open", k>>} : /\ MembersOf(s)' = MembersOf(s)
                                                /\ KeyOfSlot(s)' = KeyOfSlot(s)
           /\ MembersOf(t)' = Before(k) \cup {Len(capture) + 1}
           /\ KeyOfSlot(t)' = k
           /\ p.closing => t \in {"reported"} \X (DOMAIN observations')
<1> DEFINE others == Slot \ {<<"open", k>>}
           m == Len(observations)
<1>1. k \in Key
  BY KeyOfIsKey DEF Extend, Close
<1>2. /\ SessionWith(p) \in Session
      /\ SessionWith(p).members = Before(k) \cup {Len(capture) + 1}
      /\ SessionWith(p).key = k
  <2>1. OnPort(p)
    BY DEF Extend, Close
  <2>2. CASE open[k] = None
    BY <1>1, <2>1, <2>2, SessionWithType DEF Before
  <2>3. CASE open[k] # None
    BY <1>1, <2>1, <2>3, SessionWithType DEF Before, KeysMatch
  <2>4. QED
    BY <2>2, <2>3
<1>3. /\ m \in Nat
      /\ DOMAIN observations = 1..m
      /\ SessionWith(p) # None
  BY <1>2 DEF TypeOK
<1>4. CASE Extend(p)
  <2>1. /\ open' = [open EXCEPT ![k] = SessionWith(p)]
        /\ observations' = observations
        /\ ~p.closing
    BY <1>4 DEF Extend
  <2>2. open'[k] = SessionWith(p) /\ \A x \in Key \ {k} : open'[x] = open[x]
    BY <1>1, <2>1 DEF TypeOK
  <2>3. {x \in Key : open'[x] # None} = {x \in Key : open[x] # None} \cup {k}
    BY <1>1, <1>3, <2>2
  <2>4. Slot' = others \cup {<<"open", k>>}
    BY <2>1, <2>3 DEF Slot
  <2>5. ASSUME NEW s \in others
        PROVE  MembersOf(s)' = MembersOf(s) /\ KeyOfSlot(s)' = KeyOfSlot(s)
    <3>1. CASE \E n \in DOMAIN observations : s = <<"reported", n>>
      BY <2>1, <3>1 DEF MembersOf, KeyOfSlot
    <3>2. CASE \E x \in Key : open[x] # None /\ s = <<"open", x>>
      BY <2>2, <3>2 DEF MembersOf, KeyOfSlot
    <3>3. QED
      BY <3>1, <3>2, SlotCases
  <2>6. MembersOf(<<"open", k>>)' = Before(k) \cup {Len(capture) + 1}
    BY <1>2, <2>2 DEF MembersOf
  <2>7. KeyOfSlot(<<"open", k>>)' = k
    BY DEF KeyOfSlot
  <2>8. WITNESS <<"open", k>>
  <2>9. QED
    BY <2>1, <2>4, <2>5, <2>6, <2>7
<1>5. CASE Close(p)
  <2>1. /\ open' = [open EXCEPT ![k] = None]
        /\ observations' = Append(observations, Report(SessionWith(p)))
    BY <1>5 DEF Close
  <2>2. open'[k] = None /\ \A x \in Key \ {k} : open'[x] = open[x]
    BY <1>1, <2>1 DEF TypeOK
  <2>3. {x \in Key : open'[x] # None} = {x \in Key : open[x] # None} \ {k}
    BY <1>1, <2>2
  <2>4. /\ DOMAIN observations' = 1..(m + 1)
        /\ \A n \in 1..m : observations'[n] = observations[n]
        /\ observations'[m + 1] = Report(SessionWith(p))
    BY <1>3, <2>1 DEF TypeOK
  <2>5. PICK new : new = m + 1
    OBVIOUS
  <2>6. DOMAIN observations' = (DOMAIN observations) \cup {new}
    BY <1>3, <2>4, <2>5
  <2>7. Slot' = others \cup {<<"reported", new>>}
    BY <2>3, <2>6 DEF Slot
  <2>8. <<"reported", new>> \notin others
    <3>1. new \notin DOMAIN observations
      BY <1>3, <2>5
    <3>2. QED
      BY <3>1 DEF Slot
  <2>9. ASSUME NEW s \in others
        PROVE  MembersOf(s)' = MembersOf(s) /\ KeyOfSlot(s)' = KeyOfSlot(s)
    <3>1. CASE \E n \in DOMAIN observations : s = <<"reported", n>>
      BY <1>3, <2>4, <3>1 DEF MembersOf, KeyOfSlot
    <3>2. CASE \E x \in Key : open[x] # None /\ s = <<"open", x>>
      BY <2>2, <3>2 DEF MembersOf, KeyOfSlot
    <3>3. QED
      BY <3>1, <3>2, SlotCases
  <2>10. observations'[new] = Report(SessionWith(p))
    BY <2>4, <2>5
  <2>11. MembersOf(<<"reported", new>>)' = Before(k) \cup {Len(capture) + 1}
    BY <1>2, <2>10 DEF MembersOf, Report
  <2>12. KeyOfSlot(<<"reported", new>>)' = k
    BY <1>2, <2>10 DEF KeyOfSlot, Report
  <2>13. WITNESS <<"reported", new>>
  <2>14. QED
    BY <2>6, <2>7, <2>8, <2>9, <2>11, <2>12
<1>6. QED
  BY <1>4, <1>5

----------------------------------------------------------------------------
(* The inductive invariant *)

InReport(i) == \E n \in DOMAIN observations : i \in observations[n].members

\* A key in its grace period was put there by a FIN or RST of that key which
\* ended a session.
GraceStarted ==
  \A k \in Key : recentlyClosed[k] # None =>
    \E j \in DOMAIN capture :
      /\ capture[j].closing
      /\ OnPort(capture[j])
      /\ KeyOf(capture[j]) = k
      /\ capture[j].ts = recentlyClosed[k]
      /\ InReport(j)

FInv ==
  /\ TypeOK
  /\ KeysMatch
  /\ OpenOrClosed
  /\ PacketsNotShared
  /\ GraceStarted
  /\ DroppedOnlyAsTail

LEMMA InitFInv == Init => FInv
<1> SUFFICES ASSUME Init PROVE FInv
  OBVIOUS
<1>1. TypeOK
  <2>1. capture \in Seq(Packet) /\ observations \in Seq(Observation)
    BY DEF Init
  <2>2. /\ open \in [Key -> Session \cup {None}]
        /\ recentlyClosed \in [Key -> Instant \cup {None}]
    BY DEF Init
  <2>3. done \in BOOLEAN
    BY DEF Init
  <2>4. QED
    BY <2>1, <2>2, <2>3 DEF TypeOK
<1>2. Slot = {}
  BY DEF Init, Slot
<1>3. QED
  BY <1>1, <1>2 DEF Init, FInv, KeysMatch, OpenOrClosed, PacketsNotShared,
                    GraceStarted, DroppedOnlyAsTail

\* The cases of a step.
LEMMA StepCases ==
  ASSUME Next
  PROVE  \/ \E p \in Packet : SkipOtherTraffic(p) \/ IgnoreTail(p)
         \/ \E p \in Packet : Extend(p) \/ Close(p)
         \/ EndOfCapture
BY AtIsPacket DEF Next, OnPacket

LEMMA TypeStep ==
  ASSUME TypeOK, KeysMatch, Next
  PROVE  TypeOK' /\ KeysMatch'
<1>1. CASE \E p \in Packet : SkipOtherTraffic(p) \/ IgnoreTail(p)
  <2>1. PICK p \in Packet : /\ capture' = Append(capture, p)
                            /\ UNCHANGED <<done, open, recentlyClosed, observations>>
    BY <1>1 DEF SkipOtherTraffic, IgnoreTail, Read
  <2>2. capture' \in Seq(Packet)
    BY <2>1 DEF TypeOK
  <2> QED BY <2>1, <2>2 DEF TypeOK, KeysMatch
<1>2. ASSUME NEW p \in Packet, Extend(p) \/ Close(p)
      PROVE  TypeOK' /\ KeysMatch'
  <2>1. OnPort(p) /\ KeyOf(p) \in Key
    BY <1>2, KeyOfIsKey DEF Extend, Close
  <2>2. /\ SessionWith(p) \in Session
        /\ SessionWith(p).key = KeyOf(p)
        /\ Report(SessionWith(p)) \in Observation
    BY <2>1, SessionWithType DEF KeysMatch
  <2>3. /\ capture' \in Seq(Packet)
        /\ done' \in BOOLEAN
        /\ p.ts \in Instant
    <3>1. capture' = Append(capture, p) /\ done' = done
      BY <1>2 DEF Extend, Close, Read
    <3>2. p.ts \in Instant
      BY DEF Packet
    <3>3. QED
      BY <3>1, <3>2 DEF TypeOK
  <2>4. observations' \in Seq(Observation)
    BY <1>2, <2>2 DEF Extend, Close, TypeOK
  <2>5. recentlyClosed' \in [Key -> Instant \cup {None}]
    BY <1>2, <2>3 DEF Extend, Close, TypeOK
  <2>6. open' \in [Key -> Session \cup {None}] /\ KeysMatch'
    <3>1. PICK v : /\ v = SessionWith(p) \/ v = None
                   /\ open' = [open EXCEPT ![KeyOf(p)] = v]
      BY <1>2 DEF Extend, Close
    <3>2. v \in Session \cup {None} /\ (v # None => v.key = KeyOf(p))
      BY <2>2, <3>1
    <3>3. open \in [Key -> Session \cup {None}]
      BY DEF TypeOK
    <3>4. open' \in [Key -> Session \cup {None}]
      BY <2>1, <3>1, <3>2, <3>3
    <3>5. KeysMatch'
      BY <2>1, <3>1, <3>2, <3>3 DEF KeysMatch
    <3> QED BY <3>4, <3>5
  <2>7. QED
    BY <2>3, <2>4, <2>5, <2>6 DEF TypeOK
<1>3. CASE EndOfCapture
  <2>1. PICK from \in [DOMAIN observations' -> Slot] :
          /\ \A i \in DOMAIN observations' : observations'[i] = Said(from[i])
          /\ \E n \in Nat : observations' = [i \in 1..n |-> observations'[i]]
    BY <1>3, EndOrigin
  <2>2. ASSUME NEW slot \in Slot PROVE Said(slot) \in Observation
    <3>1. CASE \E n \in DOMAIN observations : slot = <<"reported", n>>
      BY <3>1 DEF Said, TypeOK
    <3>2. CASE \E k \in Key : open[k] # None /\ slot = <<"open", k>>
      <4>1. PICK k \in Key : open[k] # None /\ slot = <<"open", k>>
        BY <3>2
      <4>2. Said(slot) = Report(open[k]) /\ open[k] \in Session
        BY <4>1 DEF Said, TypeOK
      <4>3. QED
        BY <4>2, ReportType
    <3>3. QED
      BY <3>1, <3>2, SlotCases
  <2>3. PICK n \in Nat : observations' = [i \in 1..n |-> observations'[i]]
    BY <2>1
  <2>4. \A i \in 1..n : observations'[i] \in Observation
    BY <2>1, <2>2, <2>3
  <2>5. observations' \in [1..n -> Observation]
    BY <2>3, <2>4
  <2>6. observations' \in Seq(Observation)
    BY <2>5
  <2>7. QED
    BY <1>3, <2>6 DEF EndOfCapture, TypeOK, KeysMatch
<1>4. QED
  BY <1>1, <1>2, <1>3, StepCases

LEMMA OpenOrClosedStep ==
  ASSUME TypeOK, OpenOrClosed, Next
  PROVE  OpenOrClosed'
<1>1. CASE \E p \in Packet : SkipOtherTraffic(p) \/ IgnoreTail(p)
  BY <1>1 DEF SkipOtherTraffic, IgnoreTail, OpenOrClosed
<1>2. CASE \E p \in Packet : Extend(p) \/ Close(p)
  BY <1>2 DEF Extend, Close, OpenOrClosed, TypeOK
<1>3. CASE EndOfCapture
  BY <1>3 DEF EndOfCapture, OpenOrClosed
<1>4. QED
  BY <1>1, <1>2, <1>3, StepCases

LEMMA AppendKeeps ==
  ASSUME TypeOK, NEW p \in Packet, capture' = Append(capture, p)
  PROVE  /\ DOMAIN capture' = (DOMAIN capture) \cup {Len(capture) + 1}
         /\ Len(capture) + 1 \notin DOMAIN capture
         /\ \A i \in DOMAIN capture : capture'[i] = capture[i]
         /\ capture'[Len(capture) + 1] = p
         /\ DOMAIN capture = 1..Len(capture)
         /\ Len(capture) \in Nat
BY DEF TypeOK

\* What a session's packets are, whatever the other sessions.
Proper(members, k) ==
  \A i \in members : /\ i \in DOMAIN capture
                     /\ OnPort(capture[i])
                     /\ KeyOf(capture[i]) = k

LEMMA SharedStep ==
  ASSUME TypeOK, KeysMatch, PacketsNotShared, Next
  PROVE  PacketsNotShared'
<1>1. ASSUME NEW p \in Packet, SkipOtherTraffic(p) \/ IgnoreTail(p)
      PROVE  PacketsNotShared'
  <2>1. /\ UNCHANGED <<open, observations>>
        /\ capture' = Append(capture, p)
    BY <1>1 DEF SkipOtherTraffic, IgnoreTail, Read
  <2>2. /\ Slot' = Slot
        /\ \A a \in Slot : /\ MembersOf(a)' = MembersOf(a)
                           /\ KeyOfSlot(a)' = KeyOfSlot(a)
    BY <2>1 DEF Slot, MembersOf, KeyOfSlot
  <2>3. \A i \in DOMAIN capture : i \in DOMAIN capture' /\ capture'[i] = capture[i]
    BY <2>1, AppendKeeps
  <2>4. QED
    BY <2>2, <2>3 DEF PacketsNotShared
<1>2. ASSUME NEW p \in Packet, Extend(p) \/ Close(p)
      PROVE  PacketsNotShared'
  <2>1. PICK k : k = KeyOf(p)
    OBVIOUS
  <2>2. PICK t :
           /\ Slot' = (Slot \ {<<"open", k>>}) \cup {t}
           /\ \A s \in Slot \ {<<"open", k>>} : /\ MembersOf(s)' = MembersOf(s)
                                                /\ KeyOfSlot(s)' = KeyOfSlot(s)
           /\ MembersOf(t)' = Before(k) \cup {Len(capture) + 1}
           /\ KeyOfSlot(t)' = k
    BY <1>2, <2>1, CountedSlots
  <2>3. OnPort(p) /\ k \in Key /\ capture' = Append(capture, p)
    BY <1>2, <2>1, KeyOfIsKey DEF Extend, Close, Read
  <2>4. /\ \A i \in DOMAIN capture :
             i \in DOMAIN capture' /\ capture'[i] = capture[i]
        /\ Len(capture) + 1 \in DOMAIN capture'
        /\ Len(capture) + 1 \notin DOMAIN capture
        /\ capture'[Len(capture) + 1] = p
    BY <2>3, AppendKeeps
  <2>5. ASSUME NEW a \in Slot PROVE Proper(MembersOf(a), KeyOfSlot(a))
    BY DEF PacketsNotShared, Proper
  <2>6. \/ Before(k) = {}
        \/ /\ <<"open", k>> \in Slot
           /\ Before(k) = MembersOf(<<"open", k>>)
           /\ k = KeyOfSlot(<<"open", k>>)
    <3>1. CASE open[k] = None
      BY <3>1 DEF Before
    <3>2. CASE open[k] # None
      BY <2>3, <3>2 DEF Before, Slot, MembersOf, KeyOfSlot
    <3>3. QED
      BY <3>1, <3>2
  <2>7. Proper(Before(k), k)
    BY <2>5, <2>6 DEF Proper
  <2>8. \A s \in Slot \ {<<"open", k>>} : MembersOf(s) \cap Before(k) = {}
    BY <2>6 DEF PacketsNotShared
  <2>9. ASSUME NEW a \in Slot', NEW i \in MembersOf(a)'
        PROVE  /\ i \in DOMAIN capture'
               /\ OnPort(capture'[i])
               /\ KeyOf(capture'[i]) = KeyOfSlot(a)'
    <3>1. CASE a = t
      <4>1. CASE i = Len(capture) + 1
        BY <2>1, <2>2, <2>3, <2>4, <3>1, <4>1
      <4>2. CASE i \in Before(k)
        BY <2>2, <2>4, <2>7, <3>1, <4>2 DEF Proper
      <4>3. QED
        BY <2>2, <3>1, <4>1, <4>2
    <3>2. CASE a \in Slot \ {<<"open", k>>}
      BY <2>2, <2>4, <2>5, <3>2 DEF Proper
    <3>3. QED
      BY <2>2, <3>1, <3>2
  <2>10. ASSUME NEW a \in Slot', NEW b \in Slot', a # b
         PROVE  MembersOf(a)' \cap MembersOf(b)' = {}
    <3>1. ASSUME NEW s \in Slot \ {<<"open", k>>}
          PROVE  MembersOf(s)' \cap MembersOf(t)' = {}
      <4>1. Len(capture) + 1 \notin MembersOf(s)
        BY <2>4, <2>5 DEF Proper
      <4>2. QED
        BY <2>2, <2>8, <4>1
    <3>2. CASE a \in Slot \ {<<"open", k>>} /\ b \in Slot \ {<<"open", k>>}
      BY <2>2, <2>10, <3>2 DEF PacketsNotShared
    <3>3. QED
      BY <2>2, <2>10, <3>1, <3>2
  <2>11. QED
    BY <2>9, <2>10 DEF PacketsNotShared
<1>3. CASE EndOfCapture
  <2>1. PICK from \in [DOMAIN observations' -> Slot] :
          /\ \A i, j \in DOMAIN observations' : from[i] = from[j] => i = j
          /\ \A i \in DOMAIN observations' :
               /\ observations'[i].members = MembersOf(from[i])
               /\ observations'[i].key = KeyOfSlot(from[i])
    BY <1>3, EndSlots
  <2>2. ASSUME NEW a \in Slot'
        PROVE  \E i \in DOMAIN observations' :
                 /\ a = <<"reported", i>>
                 /\ MembersOf(a)' = MembersOf(from[i])
                 /\ KeyOfSlot(a)' = KeyOfSlot(from[i])
    <3>1. PICK i \in DOMAIN observations' : a = <<"reported", i>>
      BY <1>3, EndSlots
    <3>2. /\ MembersOf(a)' = observations'[i].members
          /\ KeyOfSlot(a)' = observations'[i].key
      BY <3>1 DEF MembersOf, KeyOfSlot
    <3>3. QED
      BY <2>1, <3>1, <3>2
  <2>3. capture' = capture
    BY <1>3 DEF EndOfCapture
  <2>4. QED
    BY <2>1, <2>2, <2>3 DEF PacketsNotShared
<1>4. QED
  BY <1>1, <1>2, <1>3, StepCases

InSession(i) == \E a \in Slot : i \in MembersOf(a)

\* What a session has counted stays counted, and what has been reported stays
\* reported.
LEMMA CountedStaysCounted ==
  ASSUME TypeOK, KeysMatch, Next, NEW i
  PROVE  /\ InSession(i) => InSession(i)'
         /\ InReport(i) => InReport(i)'
<1>1. ASSUME NEW p \in Packet, SkipOtherTraffic(p) \/ IgnoreTail(p)
      PROVE  (InSession(i) => InSession(i)') /\ (InReport(i) => InReport(i)')
  <2>1. UNCHANGED <<open, observations>>
    BY <1>1 DEF SkipOtherTraffic, IgnoreTail
  <2>2. QED
    BY <2>1 DEF InSession, InReport, Slot, MembersOf
<1>2. ASSUME NEW p \in Packet, Extend(p) \/ Close(p)
      PROVE  (InSession(i) => InSession(i)') /\ (InReport(i) => InReport(i)')
  <2>1. PICK k : k = KeyOf(p)
    OBVIOUS
  <2>2. PICK t :
           /\ Slot' = (Slot \ {<<"open", k>>}) \cup {t}
           /\ \A s \in Slot \ {<<"open", k>>} : MembersOf(s)' = MembersOf(s)
           /\ MembersOf(t)' = Before(k) \cup {Len(capture) + 1}
    BY <1>2, <2>1, CountedSlots
  <2>3. <<"open", k>> \in Slot => MembersOf(<<"open", k>>) = Before(k)
    BY DEF Slot, MembersOf, Before
  <2>4. InSession(i) => InSession(i)'
    BY <2>2, <2>3 DEF InSession
  <2>5. InReport(i) => InReport(i)'
    <3>1. /\ DOMAIN observations \subseteq DOMAIN observations'
          /\ \A n \in DOMAIN observations : observations'[n] = observations[n]
      <4>1. CASE Extend(p)
        BY <4>1 DEF Extend
      <4>2. CASE Close(p)
        <5>1. observations' = Append(observations, Report(SessionWith(p)))
          BY <4>2 DEF Close
        <5>2. QED
          BY <5>1 DEF TypeOK
      <4>3. QED
        BY <1>2, <4>1, <4>2
    <3>2. QED
      BY <3>1 DEF InReport
  <2>6. QED
    BY <2>4, <2>5
<1>3. CASE EndOfCapture
  <2>1. /\ Slot' = {"reported"} \X (DOMAIN observations')
        /\ \E from \in [DOMAIN observations' -> Slot] :
             /\ \A slot \in Slot : \E n \in DOMAIN observations' : from[n] = slot
             /\ \A n \in DOMAIN observations' :
                  observations'[n].members = MembersOf(from[n])
    BY <1>3, EndSlots
  <2>2. \A slot \in Slot : \E n \in DOMAIN observations' :
           observations'[n].members = MembersOf(slot)
    BY <2>1
  <2>3. InSession(i) => InReport(i)'
    BY <2>2 DEF InSession, InReport
  <2>4. ASSUME InReport(i)' PROVE InSession(i)'
    <3>1. PICK n \in DOMAIN observations' : i \in observations'[n].members
      BY <2>4 DEF InReport
    <3>2. PICK a : a = <<"reported", n>>
      OBVIOUS
    <3>3. a \in Slot' /\ MembersOf(a)' = observations'[n].members
      BY <2>1, <3>1, <3>2 DEF MembersOf
    <3>4. QED
      BY <3>1, <3>3 DEF InSession
  <2>5. InReport(i) => InSession(i)
    <3>1. SUFFICES ASSUME InReport(i) PROVE InSession(i)
      OBVIOUS
    <3>2. PICK n \in DOMAIN observations : i \in observations[n].members
      BY <3>1 DEF InReport
    <3>3. <<"reported", n>> \in Slot
      BY <3>2 DEF Slot
    <3>4. MembersOf(<<"reported", n>>) = observations[n].members
      BY DEF MembersOf
    <3>5. QED
      BY <3>2, <3>3, <3>4 DEF InSession
  <2>6. QED
    BY <2>3, <2>4, <2>5
<1>4. QED
  BY <1>1, <1>2, <1>3, StepCases

\* The packet just counted is in a session, and in a reported one if it
\* closed its connection.
LEMMA NewlyCounted ==
  ASSUME TypeOK, KeysMatch, NEW p \in Packet, Extend(p) \/ Close(p),
         NEW i, i = Len(capture) + 1
  PROVE  /\ InSession(i)'
         /\ p.closing => InReport(i)'
<1>1. PICK k : k = KeyOf(p)
  OBVIOUS
<1>2. PICK t : /\ t \in Slot'
               /\ i \in MembersOf(t)'
               /\ p.closing => t \in {"reported"} \X (DOMAIN observations')
  BY <1>1, CountedSlots
<1>3. ASSUME p.closing PROVE InReport(i)'
  <2>1. PICK n \in DOMAIN observations' : t = <<"reported", n>>
    BY <1>2, <1>3
  <2>2. MembersOf(t)' = observations'[n].members
    BY <2>1 DEF MembersOf
  <2>3. QED
    BY <1>2, <2>1, <2>2 DEF InReport
<1>4. QED
  BY <1>2, <1>3 DEF InSession

\* What a step does to the packets read before it.
LEMMA PacketsKept ==
  ASSUME TypeOK, Next
  PROVE  \A j \in DOMAIN capture : j \in DOMAIN capture' /\ capture'[j] = capture[j]
<1>1. CASE \E p \in Packet : capture' = Append(capture, p)
  BY <1>1, AppendKeeps
<1>2. CASE capture' = capture
  BY <1>2
<1>3. QED
  BY <1>1, <1>2, StepCases
     DEF SkipOtherTraffic, IgnoreTail, Extend, Close, Read, EndOfCapture

LEMMA GraceStep ==
  ASSUME TypeOK, KeysMatch, GraceStarted, Next
  PROVE  GraceStarted'
<1> DEFINE Start(j, k, t) ==
             /\ j \in DOMAIN capture
             /\ capture[j].closing
             /\ OnPort(capture[j])
             /\ KeyOf(capture[j]) = k
             /\ capture[j].ts = t
             /\ InReport(j)
<1>1. ASSUME NEW j, NEW k, NEW t, Start(j, k, t) PROVE Start(j, k, t)'
  <2>1. InReport(j)'
    BY <1>1, CountedStaysCounted
  <2>2. QED
    BY <1>1, <2>1, PacketsKept
<1>2. ASSUME NEW k \in Key, recentlyClosed[k] # None,
             recentlyClosed'[k] = recentlyClosed[k]
      PROVE  \E j, t : t = recentlyClosed'[k] /\ Start(j, k, t)'
  <2>1. PICK j : Start(j, k, recentlyClosed[k])
    BY <1>2 DEF GraceStarted
  <2>2. PICK t : t = recentlyClosed[k]
    OBVIOUS
  <2>3. Start(j, k, t)'
    BY <1>1, <2>1, <2>2
  <2>4. QED
    BY <1>2, <2>2, <2>3
<1>3. ASSUME NEW p \in Packet, Close(p), NEW k, k = KeyOf(p)
      PROVE  \E j, t : t = recentlyClosed'[k] /\ Start(j, k, t)'
  <2>1. PICK i : i = Len(capture) + 1
    OBVIOUS
  <2>2. /\ capture' = Append(capture, p)
        /\ p.closing
        /\ OnPort(p)
        /\ k \in Key
        /\ recentlyClosed'[k] = p.ts
    BY <1>3, KeyOfIsKey DEF Close, Read, TypeOK
  <2>3. i \in DOMAIN capture' /\ capture'[i] = p
    BY <2>1, <2>2, AppendKeeps
  <2>4. InReport(i)'
    BY <1>3, <2>1, <2>2, NewlyCounted
  <2>5. QED
    BY <1>3, <2>2, <2>3, <2>4
<1>4. ASSUME NEW k \in Key, recentlyClosed'[k] # None
      PROVE  \E j, t : t = recentlyClosed'[k] /\ Start(j, k, t)'
  <2>1. CASE recentlyClosed'[k] = recentlyClosed[k]
    BY <1>2, <1>4, <2>1
  <2>2. CASE \E p \in Packet : Close(p) /\ k = KeyOf(p)
    BY <1>3, <2>2
  <2>3. CASE \E p \in Packet : Extend(p) /\ k = KeyOf(p)
    BY <1>4, <2>3 DEF Extend, TypeOK
  <2>4. \/ recentlyClosed'[k] = recentlyClosed[k]
        \/ \E p \in Packet : (Extend(p) \/ Close(p)) /\ k = KeyOf(p)
    <3>1. CASE \E p \in Packet : SkipOtherTraffic(p) \/ IgnoreTail(p)
      BY <3>1 DEF SkipOtherTraffic, IgnoreTail
    <3>2. CASE \E p \in Packet : Extend(p) \/ Close(p)
      BY <3>2 DEF Extend, Close, TypeOK
    <3>3. CASE EndOfCapture
      BY <3>3 DEF EndOfCapture
    <3>4. QED
      BY <3>1, <3>2, <3>3, StepCases
  <2>5. QED
    BY <2>1, <2>2, <2>3, <2>4
<1>5. QED
  BY <1>4 DEF GraceStarted

LEMMA DroppedStep ==
  ASSUME TypeOK, KeysMatch, GraceStarted, DroppedOnlyAsTail, Next
  PROVE  DroppedOnlyAsTail'
<1> DEFINE TailOf(i, j) ==
             /\ j \in 1..(i-1)
             /\ capture[j].closing
             /\ OnPort(capture[j])
             /\ KeyOf(capture[j]) = KeyOf(capture[i])
             /\ InReport(j)
             /\ capture[i].ts - capture[j].ts <= Grace
           Accounted(i) == \/ ~OnPort(capture[i])
                           \/ InSession(i)
                           \/ \E j : TailOf(i, j)
<1>1. DroppedOnlyAsTail <=> \A i \in DOMAIN capture : Accounted(i)
  BY DEF DroppedOnlyAsTail, InSession, InReport
<1>2. ASSUME NEW i \in DOMAIN capture PROVE Accounted(i)'
  <2>1. i \in Nat /\ DOMAIN capture = 1..Len(capture) /\ Len(capture) \in Nat
    BY DEF TypeOK
  <2>2. ASSUME NEW j, TailOf(i, j) PROVE TailOf(i, j)'
    <3>1. j \in DOMAIN capture
      BY <2>1, <2>2
    <3>2. InReport(j)'
      BY <2>2, CountedStaysCounted
    <3>3. QED
      BY <2>2, <3>1, <3>2, PacketsKept
  <2>3. InSession(i) => InSession(i)'
    BY CountedStaysCounted
  <2>4. capture'[i] = capture[i]
    BY PacketsKept
  <2>5. Accounted(i)
    BY <1>1
  <2>6. QED
    BY <2>2, <2>3, <2>4, <2>5
<1>3. ASSUME NEW p \in Packet, NEW i, i = Len(capture) + 1,
             capture' = Append(capture, p),
             \/ SkipOtherTraffic(p)
             \/ IgnoreTail(p)
             \/ Extend(p)
             \/ Close(p)
      PROVE  Accounted(i)'
  <2>1. capture'[i] = p
    BY <1>3, AppendKeeps
  <2>2. CASE SkipOtherTraffic(p)
    BY <2>1, <2>2 DEF SkipOtherTraffic
  <2>3. CASE IgnoreTail(p)
    <3>1. PICK k : k = KeyOf(p)
      OBVIOUS
    <3>2. /\ k \in Key
          /\ recentlyClosed[k] # None
          /\ p.ts - recentlyClosed[k] <= Grace
          /\ observations' = observations
      BY <2>3, <3>1, KeyOfIsKey DEF IgnoreTail, IsTail
    <3>3. PICK j \in DOMAIN capture :
            /\ capture[j].closing
            /\ OnPort(capture[j])
            /\ KeyOf(capture[j]) = k
            /\ capture[j].ts = recentlyClosed[k]
            /\ InReport(j)
      BY <3>2 DEF GraceStarted
    <3>4. j \in 1..(i-1) /\ capture'[j] = capture[j]
      BY <1>3, AppendKeeps
    <3>5. InReport(j)'
      BY <3>3, CountedStaysCounted
    <3>6. TailOf(i, j)'
      BY <2>1, <3>1, <3>2, <3>3, <3>4, <3>5
    <3>7. QED
      BY <3>6
  <2>4. CASE Extend(p) \/ Close(p)
    BY <1>3, <2>4, NewlyCounted
  <2>5. QED
    BY <1>3, <2>2, <2>3, <2>4
<1>4. \A i \in DOMAIN capture' : Accounted(i)'
  <2>1. ASSUME NEW p \in Packet,
               \/ SkipOtherTraffic(p)
               \/ IgnoreTail(p)
               \/ Extend(p)
               \/ Close(p)
        PROVE  \A i \in DOMAIN capture' : Accounted(i)'
    <3>1. capture' = Append(capture, p)
      BY <2>1 DEF SkipOtherTraffic, IgnoreTail, Extend, Close, Read
    <3>2. DOMAIN capture' = (DOMAIN capture) \cup {Len(capture) + 1}
      BY <3>1, AppendKeeps
    <3>3. QED
      BY <1>2, <1>3, <2>1, <3>1, <3>2
  <2>2. CASE EndOfCapture
    BY <1>2, <2>2 DEF EndOfCapture
  <2>3. QED
    BY <2>1, <2>2, StepCases
<1>5. DroppedOnlyAsTail' <=> \A i \in DOMAIN capture' : Accounted(i)'
  BY DEF DroppedOnlyAsTail, InSession, InReport
<1>6. QED
  BY <1>4, <1>5

LEMMA StutterFInv ==
  ASSUME FInv, UNCHANGED vars
  PROVE  FInv'
BY DEF FInv, vars, TypeOK, KeysMatch, OpenOrClosed, PacketsNotShared,
       GraceStarted, DroppedOnlyAsTail, Slot, MembersOf, KeyOfSlot, InReport

LEMMA Inductive == FInv /\ [Next]_vars => FInv'
<1> SUFFICES ASSUME FInv, [Next]_vars PROVE FInv'
  OBVIOUS
<1>1. CASE Next
  BY <1>1, TypeStep, OpenOrClosedStep, SharedStep, GraceStep, DroppedStep
     DEF FInv
<1>2. CASE UNCHANGED vars
  BY <1>2, StutterFInv
<1>3. QED
  BY <1>1, <1>2

LEMMA Invariance == Spec => []FInv
BY InitFInv, Inductive, PTL DEF Spec

\* Every value the assembly keeps has the type the code gives it, for any
\* capture file, in time order or not.
THEOREM TypeCorrect == Spec => []TypeOK
<1>1. FInv => TypeOK
  BY DEF FInv
<1>2. QED
  BY <1>1, Invariance, PTL

\* No packet is counted in two sessions, and none in a session of another
\* connection.
THEOREM NothingShared == Spec => []PacketsNotShared
<1>1. FInv => PacketsNotShared
  BY DEF FInv
<1>2. QED
  BY <1>1, Invariance, PTL

\* A packet on the monitored port that no session counts came within the
\* grace period of a FIN or RST that ended a session of its connection.
THEOREM OnlyTailsDropped == Spec => []DroppedOnlyAsTail
<1>1. FInv => DroppedOnlyAsTail
  BY DEF FInv
<1>2. QED
  BY <1>1, Invariance, PTL

----------------------------------------------------------------------------
(* What a session says of its packets *)

\* A running total of the bytes at some positions of the file.
Runs(run, members) ==
  /\ run \in [0..Len(capture) -> Nat]
  /\ run[0] = 0
  /\ \A i \in 1..Len(capture) : run[i] = run[i - 1] + Counts(members, i)

\* A set of natural numbers has a least element.
LEMMA LeastNat ==
  ASSUME NEW T, T \subseteq Nat, T # {}
  PROVE  \E x \in T : \A y \in T : x <= y
<1>1. PICK x \in T : \A y \in T : ~(<<y, x>> \in OpToRel(<, Nat))
  BY WFMin, NatLessThanWellFounded, Zenon
<1>2. \A y \in T : ~(y < x)
  BY <1>1, Zenon DEF OpToRel
<1>3. \A y \in T : y \in Nat
  OBVIOUS
<1>4. QED
  BY <1>2, <1>3

\* There is only one, and it is what BytesOf computes.
LEMMA OneTotal ==
  ASSUME TypeOK, NEW members, NEW run, Runs(run, members)
  PROVE  BytesOf(members) = run[Len(capture)]
<1>0. PICK n \in Nat : n = Len(capture)
  BY DEF TypeOK
<1>1. run = [i \in 0..n |-> IF i = 0 THEN 0 ELSE run[i - 1] + Counts(members, i)]
  BY <1>0 DEF Runs
<1> DEFINE total == CHOOSE t : t = [i \in 0..n |-> IF i = 0 THEN 0 ELSE t[i - 1] + Counts(members, i)]
<1>2. total = [i \in 0..n |-> IF i = 0 THEN 0 ELSE total[i - 1] + Counts(members, i)]
  BY <1>1
<1>3. BytesOf(members) = total[n]
  BY <1>0 DEF BytesOf
<1> HIDE DEF total
<1>4. PICK wrong : wrong = {i \in 0..n : total[i] # run[i]}
  OBVIOUS
<1>5. ASSUME wrong # {} PROVE FALSE
  <2>1. PICK i \in wrong : \A j \in wrong : i <= j
    BY <1>4, <1>5, LeastNat
  <2>2. i \in 0..n /\ i # 0
    <3>1. 0 \in 0..n /\ total[0] = 0 /\ run[0] = 0
      BY <1>1, <1>2
    <3> QED BY <1>4, <2>1, <3>1
  <2>3. i - 1 \in 0..n /\ i - 1 \notin wrong
    BY <2>1, <2>2
  <2>4. total[i - 1] = run[i - 1]
    BY <1>4, <2>3
  <2>5. total[i] = run[i]
    <3>1. total[i] = total[i - 1] + Counts(members, i)
      BY <1>2, <2>2
    <3>2. run[i] = run[i - 1] + Counts(members, i)
      BY <1>1, <2>2
    <3> QED BY <2>4, <3>1, <3>2
  <2> QED BY <1>4, <2>1, <2>5
<1>6. n \in 0..n /\ n \notin wrong
  BY <1>5
<1> QED BY <1>0, <1>3, <1>4, <1>6

\* A session that started at `start', was last seen at `last', and so on, is
\* the summary of the packets at the positions in `members'.
Named(members) == {i \in members : capture[i].payload \in Name}

Begins(members, start, last) ==
  \E first, final \in members :
    /\ \A i \in members : first <= i /\ i <= final
    /\ start = capture[first].ts /\ last = capture[final].ts

Totals(members, bytes) == \E run : Runs(run, members) /\ bytes = run[Len(capture)]

NamesFirst(members, sni) ==
  /\ Named(members) = {} => sni = None
  /\ Named(members) # {} =>
       \E i \in Named(members) : (\A j \in Named(members) : i <= j) /\ sni = capture[i].payload

Summary(members, start, last, bytes, sni) ==
  /\ members \subseteq DOMAIN capture
  /\ Begins(members, start, last) /\ Totals(members, bytes) /\ NamesFirst(members, sni)

\* Another packet in the file changes nothing for a session that does not count it.
LEMMA TotalsKept ==
  ASSUME TypeOK, NEW CONSTANT n, n = Len(capture), NEW p \in Packet, capture' = Append(capture, p),
         NEW CONSTANT members, members \subseteq DOMAIN capture,
         NEW CONSTANT bytes, Totals(members, bytes)
  PROVE  /\ Totals(members, bytes)'
         /\ Totals(members \cup {n + 1}, bytes + p.len)'
<1>0. n \in Nat /\ n = Len(capture)
  BY DEF TypeOK
<1>1. PICK run : Runs(run, members) /\ bytes = run[n]
  BY <1>0 DEF Totals
<1>2. /\ Len(capture') = n + 1
      /\ \A i \in 1..n : capture'[i] = capture[i]
      /\ capture'[n + 1] = p /\ p.len \in Nat
      /\ n + 1 \notin members /\ DOMAIN capture = 1..n
  BY <1>0, AppendKeeps DEF Packet, TypeOK
<1>3. /\ run \in [0..n -> Nat] /\ run[0] = 0 /\ bytes \in Nat
      /\ \A i \in 1..n : run[i] = run[i - 1] + Counts(members, i)
  BY <1>0, <1>1 DEF Runs
<1>4. ASSUME NEW CONSTANT more, \A i \in 1..n : i \in more <=> i \in members
      PROVE  Totals(more, bytes + (IF n + 1 \in more THEN p.len ELSE 0))'
  <2>1. PICK extra \in Nat : extra = (IF n + 1 \in more THEN p.len ELSE 0)
    BY <1>2
  <2>2. PICK next : next = [i \in 0..(n + 1) |-> IF i = n + 1 THEN bytes + extra ELSE run[i]]
    OBVIOUS
  <2>3. next \in [0..(n + 1) -> Nat] /\ next[0] = 0 /\ next[n + 1] = bytes + extra
    BY <1>3, <2>2
  <2>4. ASSUME NEW i \in 1..(n + 1)
        PROVE  next[i] = next[i - 1] + (IF i \in more THEN capture'[i].len ELSE 0)
    <3>1. CASE i = n + 1
      <4>1. next[i - 1] = run[n] /\ next[i] = bytes + extra
        BY <1>3, <2>2, <2>3, <3>1
      <4> QED BY <1>1, <1>2, <2>1, <3>1, <4>1
    <3>2. CASE i # n + 1
      <4>1. i \in 1..n /\ i - 1 \in 0..n
        BY <3>2
      <4>2. next[i] = run[i] /\ next[i - 1] = run[i - 1]
        BY <2>2, <4>1
      <4>3. run[i] = run[i - 1] + (IF i \in members THEN capture[i].len ELSE 0)
        BY <1>3, <4>1 DEF Counts
      <4> QED BY <1>2, <1>4, <4>1, <4>2, <4>3
    <3> QED BY <3>1, <3>2
  <2>5. Runs(next, more)'
    BY <1>2, <2>3, <2>4 DEF Runs, Counts
  <2> QED BY <1>2, <2>1, <2>3, <2>5 DEF Totals
<1>5. Totals(members, bytes + 0)'
  BY <1>2, <1>4
<1>6. Totals(members \cup {n + 1}, bytes + p.len)'
  BY <1>2, <1>4
<1>7. bytes + 0 = bytes
  BY <1>3
<1> QED BY <1>0, <1>5, <1>6, <1>7

LEMMA NothingTotals ==
  ASSUME TypeOK
  PROVE  Totals({}, 0)
<1>0. PICK n \in Nat : n = Len(capture)
  BY DEF TypeOK
<1>1. PICK run : run = [i \in 0..n |-> 0]
  OBVIOUS
<1>2. Runs(run, {}) /\ run[n] = 0
  BY <1>0, <1>1 DEF Runs, Counts
<1> QED BY <1>0, <1>2 DEF Totals

\* Nor does it change the rest of its summary.
LEMMA SummaryKept ==
  ASSUME TypeOK, NEW p \in Packet, capture' = Append(capture, p),
         NEW CONSTANT members, NEW CONSTANT start, NEW CONSTANT last, NEW CONSTANT bytes, NEW CONSTANT sni,
         Summary(members, start, last, bytes, sni)
  PROVE  Summary(members, start, last, bytes, sni)'
<1>1. /\ members \subseteq DOMAIN capture /\ members \subseteq DOMAIN capture'
      /\ \A i \in members : capture'[i] = capture[i]
  BY AppendKeeps DEF Summary
<1>2. Begins(members, start, last)'
  BY <1>1 DEF Summary, Begins
<1>3. NamesFirst(members, sni)'
  BY <1>1 DEF Summary, NamesFirst, Named
<1>4. Totals(members, bytes)'
  <2>1. PICK n : n = Len(capture)
    OBVIOUS
  <2> QED BY <1>1, <2>1, TotalsKept DEF Summary
<1> QED BY <1>1, <1>2, <1>3, <1>4 DEF Summary

\* A session with one packet more, which is the first of a new one.
LEMMA SummaryGrown ==
  ASSUME TypeOK, NEW CONSTANT n, n = Len(capture), NEW p \in Packet, capture' = Append(capture, p),
         NEW CONSTANT members, NEW CONSTANT start, NEW CONSTANT last, NEW CONSTANT bytes, NEW CONSTANT sni,
         sni \in Name \cup {None},
         \/ Summary(members, start, last, bytes, sni)
         \/ members = {} /\ start = p.ts /\ bytes = 0 /\ sni = None
  PROVE  Summary(members \cup {n + 1}, start, p.ts, bytes + p.len,
                 IF sni = None /\ p.payload # None THEN NameIn(p.payload) ELSE sni)'
<1>1. /\ n \in Nat /\ DOMAIN capture = 1..n /\ DOMAIN capture' = 1..(n + 1)
      /\ \A i \in 1..n : capture'[i] = capture[i]
      /\ capture'[n + 1] = p
  BY AppendKeeps
<1>2. members \subseteq 1..n
  BY <1>1 DEF Summary
<1>3. members \cup {n + 1} \subseteq DOMAIN capture'
  <2>1. n + 1 \in 1..(n + 1) /\ 1..n \subseteq 1..(n + 1)
    BY <1>1
  <2> QED BY <1>1, <1>2, <2>1
<1>4. Begins(members \cup {n + 1}, start, p.ts)'
  <2>1. PICK first \in members \cup {n + 1} :
          (\A i \in members \cup {n + 1} : first <= i) /\ start = capture'[first].ts
    <3>1. CASE members = {} /\ start = p.ts
      BY <1>1, <3>1
    <3>2. CASE Begins(members, start, last)
      <4>1. PICK first \in members : (\A i \in members : first <= i) /\ start = capture[first].ts
        BY <3>2 DEF Begins
      <4>2. first \in 1..n /\ first <= n + 1
        BY <1>1, <1>2, <4>1
      <4> QED BY <1>1, <4>1, <4>2
    <3> QED BY <3>1, <3>2 DEF Summary
  <2>2. \A i \in members \cup {n + 1} : i <= n + 1
    BY <1>1, <1>2
  <2> QED BY <1>1, <2>1, <2>2 DEF Begins
<1>5. Totals(members \cup {n + 1}, bytes + p.len)'
  <2>1. Totals(members, bytes)
    BY NothingTotals DEF Summary
  <2> QED BY <1>1, <1>2, <2>1, TotalsKept
<1>6. NamesFirst(members \cup {n + 1},
                 IF sni = None /\ p.payload # None THEN NameIn(p.payload) ELSE sni)'
  <2>1. NamesFirst(members, sni)
    BY DEF Summary, NamesFirst, Named
  <2>2. /\ \A i \in members : capture'[i] = capture[i] /\ i <= n + 1
        /\ p.payload \in Name \cup {Opaque, None}
    BY <1>1, <1>2 DEF Packet
  <2>3. CASE Named(members) # {}
    <3>1. PICK i \in Named(members) : (\A j \in Named(members) : i <= j) /\ sni = capture[i].payload
      BY <2>1, <2>3 DEF NamesFirst
    <3>2. i \in members /\ sni \in Name /\ sni # None
      BY <3>1 DEF Named
    <3>3. /\ \A j \in members \cup {n + 1} : capture'[j].payload \in Name => i <= j
          /\ capture'[i].payload = sni
      BY <2>2, <3>1, <3>2 DEF Named
    <3> QED BY <3>2, <3>3 DEF NamesFirst, Named
  <2>4. CASE Named(members) = {}
    <3>1. sni = None /\ \A i \in members : capture'[i].payload \notin Name
      BY <2>1, <2>2, <2>4 DEF NamesFirst, Named
    <3>2. CASE p.payload \in Name
      <4>1. (IF sni = None /\ p.payload # None THEN NameIn(p.payload) ELSE sni) = p.payload
        BY <3>1, <3>2 DEF NameIn
      <4>2. {i \in members \cup {n + 1} : capture'[i].payload \in Name} = {n + 1}
        BY <1>1, <3>1, <3>2
      <4>3. Named(members \cup {n + 1})' = {n + 1}
        BY <4>2 DEF Named
      <4>4. /\ n + 1 \in {n + 1} /\ \A j \in {n + 1} : n + 1 <= j
            /\ capture'[n + 1].payload = p.payload
        BY <1>1
      <4> QED BY <4>1, <4>3, <4>4 DEF NamesFirst
    <3>3. CASE p.payload \notin Name
      <4>1. (IF sni = None /\ p.payload # None THEN NameIn(p.payload) ELSE sni) = None
        BY <3>1, <3>3 DEF NameIn
      <4>2. {i \in members \cup {n + 1} : capture'[i].payload \in Name} = {}
        BY <1>1, <3>1, <3>3
      <4>3. Named(members \cup {n + 1})' = {}
        BY <4>2 DEF Named
      <4> QED BY <4>1, <4>3 DEF NamesFirst
    <3> QED BY <3>2, <3>3
  <2> QED BY <2>3, <2>4
<1> QED BY <1>3, <1>4, <1>5, <1>6 DEF Summary

OpenSummary(k) ==
  Summary(open[k].members, open[k].start, open[k].last, open[k].bytes, open[k].sni)

ReportSummary(n) ==
  \E last \in Instant :
    /\ observations[n].duration = last - observations[n].ts
    /\ Summary(observations[n].members, observations[n].ts, last,
               observations[n].bytes, observations[n].sni)

\* Every session, open or reported, is the summary of its packets.
SummariesInv ==
  /\ \A k \in Key : open[k] # None => OpenSummary(k)
  /\ \A n \in DOMAIN observations : ReportSummary(n)

\* A session that a packet leaves alone.
LEMMA OpenKept ==
  ASSUME TypeOK, NEW p \in Packet, capture' = Append(capture, p),
         NEW CONSTANT k \in Key, open'[k] = open[k], OpenSummary(k)
  PROVE  OpenSummary(k)'
<1>1. PICK s : s = open[k]
  OBVIOUS
<1>2. Summary(s.members, s.start, s.last, s.bytes, s.sni)
  BY <1>1 DEF OpenSummary
<1>3. Summary(s.members, s.start, s.last, s.bytes, s.sni)'
  BY <1>2, SummaryKept
<1> QED BY <1>1, <1>3 DEF OpenSummary

LEMMA ReportKept ==
  ASSUME TypeOK, NEW p \in Packet, capture' = Append(capture, p),
         NEW CONSTANT n, observations'[n] = observations[n], ReportSummary(n)
  PROVE  ReportSummary(n)'
<1>1. PICK o : o = observations[n]
  OBVIOUS
<1>2. PICK last \in Instant : o.duration = last - o.ts /\ Summary(o.members, o.ts, last, o.bytes, o.sni)
  BY <1>1 DEF ReportSummary
<1>3. Summary(o.members, o.ts, last, o.bytes, o.sni)'
  BY <1>2, SummaryKept
<1> QED BY <1>1, <1>2, <1>3 DEF ReportSummary

\* The session a packet is counted in.
LEMMA CountedSummary ==
  ASSUME TypeOK, SummariesInv, NEW p \in Packet, OnPort(p), capture' = Append(capture, p),
         NEW CONSTANT s, s = SessionWith(p)
  PROVE  /\ s \in Session /\ s.last \in Instant
         /\ Summary(s.members, s.start, s.last, s.bytes, s.sni)'
<1>1. PICK n, k : n = Len(capture) /\ k = KeyOf(p)
  OBVIOUS
<1>2. PICK b : b = IF open[k] = None THEN NewSession(k, p.ts) ELSE open[k]
  OBVIOUS
<1>3. n \in Nat /\ k \in Key /\ p.ts \in Instant
  BY <1>1, KeyOfIsKey DEF TypeOK, Packet
<1>4. b \in Session
  BY <1>2, <1>3 DEF TypeOK, NewSession, Session
<1>5. s = [b EXCEPT !.last = p.ts, !.bytes = @ + p.len,
            !.sni = IF @ = None /\ p.payload # None THEN NameIn(p.payload) ELSE @,
            !.members = @ \cup {n + 1}]
  BY <1>1, <1>2 DEF SessionWith, Counted
<1>6. /\ s.start = b.start /\ s.last = p.ts /\ s.bytes = b.bytes + p.len
      /\ s.members = b.members \cup {n + 1}
      /\ s.sni = IF b.sni = None /\ p.payload # None THEN NameIn(p.payload) ELSE b.sni
  BY <1>4, <1>5 DEF Session
<1>7. \/ Summary(b.members, b.start, b.last, b.bytes, b.sni)
      \/ b.members = {} /\ b.start = p.ts /\ b.bytes = 0 /\ b.sni = None
  <2>1. CASE open[k] = None
    BY <1>2, <2>1 DEF NewSession
  <2>2. CASE open[k] # None
    BY <1>2, <1>3, <2>2 DEF SummariesInv, OpenSummary
  <2> QED BY <2>1, <2>2
<1>8. b.sni \in Name \cup {None}
  BY <1>4 DEF Session
<1>9. Summary(b.members \cup {n + 1}, b.start, p.ts, b.bytes + p.len,
              IF b.sni = None /\ p.payload # None THEN NameIn(p.payload) ELSE b.sni)'
  BY <1>1, <1>7, <1>8, SummaryGrown
<1>10. s \in Session
  BY SessionWithType
<1> QED BY <1>3, <1>6, <1>9, <1>10

LEMMA SameFile ==
  ASSUME capture' = capture,
         NEW CONSTANT members, NEW CONSTANT start, NEW CONSTANT last, NEW CONSTANT bytes, NEW CONSTANT sni,
         Summary(members, start, last, bytes, sni)
  PROVE  Summary(members, start, last, bytes, sni)'
BY DEF Summary, Begins, Totals, Runs, Counts, NamesFirst, Named

\* Every step leaves every session the summary of its packets.
LEMMA SummariesStep ==
  ASSUME TypeOK, KeysMatch, SummariesInv, Next
  PROVE  SummariesInv'
<1>1. ASSUME NEW p \in Packet, SkipOtherTraffic(p) \/ IgnoreTail(p)
      PROVE  SummariesInv'
  <2>1. capture' = Append(capture, p) /\ open' = open /\ observations' = observations
    BY <1>1 DEF SkipOtherTraffic, IgnoreTail, Read
  <2>2. ASSUME NEW CONSTANT k \in Key, open'[k] # None PROVE OpenSummary(k)'
    BY <2>1, <2>2, OpenKept DEF SummariesInv
  <2>3. ASSUME NEW CONSTANT n \in DOMAIN observations' PROVE ReportSummary(n)'
    BY <2>1, ReportKept DEF SummariesInv
  <2> QED BY <2>2, <2>3 DEF SummariesInv
<1>2. ASSUME NEW p \in Packet, Extend(p) \/ Close(p)
      PROVE  SummariesInv'
  <2>1. OnPort(p) /\ KeyOf(p) \in Key /\ capture' = Append(capture, p)
    BY <1>2, KeyOfIsKey DEF Extend, Close, Read
  <2>2. PICK s : s = SessionWith(p)
    OBVIOUS
  <2>3. s \in Session /\ s.last \in Instant /\ Summary(s.members, s.start, s.last, s.bytes, s.sni)'
    BY <2>1, <2>2, CountedSummary
  <2>4. ASSUME NEW CONSTANT k \in Key, open'[k] # None PROVE OpenSummary(k)'
    <3>1. CASE open'[k] = open[k]
      BY <2>1, <2>4, <3>1, OpenKept DEF SummariesInv
    <3>2. CASE open'[k] # open[k]
      <4>1. open'[k] = s
        BY <1>2, <2>1, <2>2, <2>4, <3>2 DEF Extend, Close, TypeOK
      <4> QED BY <2>3, <4>1 DEF OpenSummary
    <3> QED BY <3>1, <3>2
  <2>5. ASSUME NEW CONSTANT n \in DOMAIN observations' PROVE ReportSummary(n)'
    <3>1. CASE Extend(p)
      BY <2>1, <2>5, <3>1, ReportKept DEF SummariesInv, Extend
    <3>2. CASE Close(p)
      <4>1. observations' = Append(observations, Report(s)) /\ observations \in Seq(Observation)
        BY <2>2, <3>2 DEF Close, TypeOK
      <4>2. CASE n \in DOMAIN observations
        <5>1. observations'[n] = observations[n]
          BY <4>1, <4>2
        <5> QED BY <2>1, <4>2, <5>1, ReportKept DEF SummariesInv
      <4>3. CASE n \notin DOMAIN observations
        <5>1. observations'[n] = Report(s)
          BY <2>5, <4>1, <4>3
        <5>2. /\ observations'[n].ts = s.start /\ observations'[n].members = s.members
              /\ observations'[n].bytes = s.bytes /\ observations'[n].sni = s.sni
              /\ observations'[n].duration = s.last - s.start
          BY <5>1 DEF Report
        <5> QED BY <2>3, <5>2 DEF ReportSummary
      <4> QED BY <4>2, <4>3
    <3> QED BY <1>2, <3>1, <3>2
  <2> QED BY <2>4, <2>5 DEF SummariesInv
<1>3. CASE EndOfCapture
  <2>1. PICK from \in [DOMAIN observations' -> Slot] :
          \A i \in DOMAIN observations' : observations'[i] = Said(from[i])
    BY <1>3, EndOrigin
  <2>2. capture' = capture /\ \A k \in Key : open'[k] = None
    BY <1>3 DEF EndOfCapture
  <2>3. ASSUME NEW CONSTANT n \in DOMAIN observations' PROVE ReportSummary(n)'
    <3>1. PICK o : o = observations'[n]
      OBVIOUS
    <3>2. from[n] \in Slot /\ o = Said(from[n])
      BY <2>1, <2>3, <3>1
    <3>3. \E last \in Instant : o.duration = last - o.ts /\ Summary(o.members, o.ts, last, o.bytes, o.sni)
      <4>1. CASE \E m \in DOMAIN observations : from[n] = <<"reported", m>>
        <5>1. PICK m \in DOMAIN observations : o = observations[m]
          BY <3>2, <4>1 DEF Said
        <5> QED BY <5>1 DEF SummariesInv, ReportSummary
      <4>2. CASE \E k \in Key : open[k] # None /\ from[n] = <<"open", k>>
        <5>1. PICK k \in Key : open[k] # None /\ o = Report(open[k])
          BY <3>2, <4>2 DEF Said
        <5>2. /\ o.ts = open[k].start /\ o.members = open[k].members
              /\ o.bytes = open[k].bytes /\ o.sni = open[k].sni
              /\ o.duration = open[k].last - open[k].start
          BY <5>1 DEF Report
        <5>3. open[k].last \in Instant
          BY <5>1 DEF TypeOK, Session
        <5> QED BY <5>1, <5>2, <5>3 DEF SummariesInv, OpenSummary
      <4> QED BY <3>2, <4>1, <4>2, SlotCases
    <3>4. PICK last \in Instant : o.duration = last - o.ts /\ Summary(o.members, o.ts, last, o.bytes, o.sni)
      BY <3>3
    <3>5. Summary(o.members, o.ts, last, o.bytes, o.sni)'
      BY <2>2, <3>4, SameFile
    <3> QED BY <3>1, <3>4, <3>5 DEF ReportSummary
  <2> QED BY <2>2, <2>3 DEF SummariesInv
<1> QED BY <1>1, <1>2, <1>3, StepCases

LEMMA SummariesStutter ==
  ASSUME SummariesInv, UNCHANGED vars
  PROVE  SummariesInv'
<1>1. capture' = capture /\ open' = open /\ observations' = observations
  BY DEF vars
<1>2. ASSUME NEW CONSTANT k \in Key, open'[k] # None PROVE OpenSummary(k)'
  <2>1. PICK s : s = open[k]
    OBVIOUS
  <2>2. Summary(s.members, s.start, s.last, s.bytes, s.sni)
    BY <1>1, <1>2, <2>1 DEF SummariesInv, OpenSummary
  <2> QED BY <1>1, <2>1, <2>2, SameFile DEF OpenSummary
<1>3. ASSUME NEW CONSTANT n \in DOMAIN observations' PROVE ReportSummary(n)'
  <2>1. PICK o : o = observations[n]
    OBVIOUS
  <2>2. PICK last \in Instant : o.duration = last - o.ts /\ Summary(o.members, o.ts, last, o.bytes, o.sni)
    BY <1>1, <1>3, <2>1 DEF SummariesInv, ReportSummary
  <2> QED BY <1>1, <2>1, <2>2, SameFile DEF ReportSummary
<1> QED BY <1>2, <1>3 DEF SummariesInv

\* What is reported of a session is what its packets say: first and last time,
\* bytes, and the first name asked for (tls_egress.py:135-155).
THEOREM SessionsAreSummaries == Spec => []SessionsSummariseTheirPackets
<1>1. Init => SummariesInv
  BY DEF Init, SummariesInv
<1>2. FInv /\ SummariesInv /\ [Next]_vars => SummariesInv'
  BY SummariesStep, SummariesStutter DEF FInv
<1>3. FInv /\ SummariesInv => SessionsSummariseTheirPackets
  <2>1. SUFFICES ASSUME FInv, SummariesInv, NEW n \in DOMAIN observations,
                        NEW o, o = observations[n]
                 PROVE  /\ \E first, final \in o.members :
                             /\ \A i \in o.members : first <= i /\ i <= final
                             /\ o.ts = capture[first].ts
                             /\ o.duration = capture[final].ts - capture[first].ts
                        /\ o.bytes = BytesOf(o.members)
                        /\ IF Named(o.members) = {} THEN o.sni = None
                           ELSE o.sni = capture[First(Named(o.members))].payload
    BY DEF SessionsSummariseTheirPackets, Named
  <2>2. PICK last \in Instant : o.duration = last - o.ts /\ Summary(o.members, o.ts, last, o.bytes, o.sni)
    BY <2>1 DEF SummariesInv, ReportSummary
  <2>3. \E first, final \in o.members :
          /\ \A i \in o.members : first <= i /\ i <= final
          /\ o.ts = capture[first].ts
          /\ o.duration = capture[final].ts - capture[first].ts
    BY <2>2 DEF Summary, Begins
  <2>4. o.bytes = BytesOf(o.members)
    <3>1. PICK run : Runs(run, o.members) /\ o.bytes = run[Len(capture)]
      BY <2>2 DEF Summary, Totals
    <3> QED BY <2>1, <3>1, OneTotal DEF FInv
  <2>5. ASSUME Named(o.members) # {} PROVE o.sni = capture[First(Named(o.members))].payload
    <3>1. PICK i \in Named(o.members) :
            (\A j \in Named(o.members) : i <= j) /\ o.sni = capture[i].payload
      BY <2>2, <2>5 DEF Summary, NamesFirst
    <3>2. /\ First(Named(o.members)) \in Named(o.members)
          /\ \A j \in Named(o.members) : First(Named(o.members)) <= j
      BY <3>1 DEF First
    <3>3. Named(o.members) \subseteq DOMAIN capture /\ DOMAIN capture \subseteq Nat
      BY <2>1, <2>2 DEF Summary, Named, FInv, TypeOK
    <3>4. First(Named(o.members)) = i
      BY <3>1, <3>2, <3>3
    <3> QED BY <3>1, <3>4
  <2>6. Named(o.members) = {} => o.sni = None
    BY <2>2 DEF Summary, NamesFirst
  <2> QED BY <2>3, <2>4, <2>5, <2>6
<1> QED BY <1>1, <1>2, <1>3, InitFInv, Invariance, PTL DEF Spec

\* The report is in order of start (tls_egress.py:167).
THEOREM ReportedInStartOrder == Spec => []ReportInStartOrder
<1>1. Init => ReportInStartOrder
  BY DEF Init, ReportInStartOrder
<1>2. ReportInStartOrder /\ [Next]_vars => ReportInStartOrder'
  <2>1. SUFFICES ASSUME ReportInStartOrder, [Next]_vars, done' PROVE InStartOrder(observations)'
    BY DEF ReportInStartOrder
  <2>2. CASE EndOfCapture
    BY <2>2 DEF EndOfCapture, InStartOrder
  <2>3. CASE UNCHANGED vars
    BY <2>1, <2>3 DEF vars, ReportInStartOrder, InStartOrder
  <2>4. ASSUME NEW p \in Packet, OnPacket(p) PROVE FALSE
    BY <2>1, <2>4 DEF OnPacket, SkipOtherTraffic, IgnoreTail, Extend, Close, Read
  <2> QED BY <2>1, <2>2, <2>3, <2>4, AtIsPacket DEF Next
<1> QED BY <1>1, <1>2, PTL DEF Spec

=============================================================================
