-------------------------- MODULE TcpTrafficProofs --------------------------
(***************************************************************************)
(* What the comment on CLOSED_FLOW_GRACE_S claims (tls_egress.py:49-60):   *)
(* if connections end within the grace period of their first FIN, and      *)
(* client ports rest for longer than it, sessions and connections are the  *)
(* same thing.  Proved for every grace period and every capture file.      *)
(*                                                                         *)
(* The argument.  While a connection has not begun to end, its session is  *)
(* open and holds packets of it alone; once it has, its key is in its      *)
(* grace period since the first FIN.  So a packet of a connection that     *)
(* ends is always a tail, and the first packet of a new one never is.      *)
(***************************************************************************)
EXTENDS TcpTraffic, FlowAssemblyProofs

USE InstantAssumption, NoneAssumption, GraceAssumption, TrafficAssumption

OwnersTyped ==
  /\ clock \in Nat
  /\ tcp \in [Key -> TcpState]
  /\ owner \in Seq((Key \X Nat) \cup {None})
  /\ Len(owner) = Len(capture)

\* Each packet on the port is of a connection of its key that there has been.
OwnersNumbered ==
  \A i \in DOMAIN capture :
    IF OnPort(capture[i])
    THEN \E m \in Nat : /\ m <= tcp[KeyOf(capture[i])].nth
                        /\ owner[i] = <<KeyOf(capture[i]), m>>
    ELSE owner[i] = None

\* An open session is of the present connection of its key, which has not
\* begun to end.
OpenIsPresent ==
  \A k \in Key : open[k] # None =>
    /\ tcp[k].nth > 0
    /\ tcp[k].firstFin = None
    /\ open[k].members # {}
    /\ \A i \in open[k].members : owner[i] = <<k, tcp[k].nth>>

\* What the code knows of a key, by the phase its connection is in.
PhaseOf(k) ==
  /\ tcp[k].nth = 0 => recentlyClosed[k] = None /\ tcp[k].firstFin = None
  /\ tcp[k].nth > 0 /\ tcp[k].firstFin = None => open[k] # None
  /\ tcp[k].firstFin # None =>
       /\ recentlyClosed[k] = tcp[k].firstFin
       /\ tcp[k].last # None
       /\ tcp[k].firstFin <= tcp[k].last
       /\ tcp[k].last <= clock

Phases == ~done => \A k \in Key : PhaseOf(k)

HasSession(o) == \E j \in DOMAIN capture : InSession(j) /\ owner[j] = o

Represented ==
  /\ \A i \in DOMAIN capture : OnPort(capture[i]) => HasSession(owner[i])
  /\ \A k \in Key : tcp[k].nth > 0 => HasSession(<<k, tcp[k].nth>>)

TInv ==
  /\ FInv
  /\ OwnersTyped
  /\ OwnersNumbered
  /\ OpenIsPresent
  /\ Phases
  /\ Represented
  /\ NotMixed
  /\ ReportedOnce

LEMMA InitTInv == TInit => TInv
<1> SUFFICES ASSUME TInit PROVE TInv
  OBVIOUS
<1>1. FInv
  BY InitFInv DEF TInit
<1>2. capture = <<>> /\ owner = <<>> /\ DOMAIN capture = {} /\ DOMAIN owner = {}
  BY DEF TInit, Init
<1>3. Slot = {}
  BY DEF TInit, Init, Slot
<1>4. Unused \in TcpState /\ Unused.nth = 0 /\ Unused.firstFin = None
  BY DEF Unused, TcpState
<1>5. OwnersTyped
  BY <1>2, <1>4 DEF TInit, OwnersTyped
<1>6. \A k \in Key : tcp[k] = Unused /\ open[k] = None /\ recentlyClosed[k] = None
  BY DEF TInit, Init
<1>7. OwnersNumbered /\ OpenIsPresent /\ Phases /\ Represented
  BY <1>2, <1>4, <1>6 DEF OwnersNumbered, OpenIsPresent, Phases, PhaseOf, Represented
<1>8. NotMixed /\ ReportedOnce
  BY <1>3 DEF NotMixed, ReportedOnce
<1>9. QED
  BY <1>1, <1>5, <1>7, <1>8 DEF TInv

----------------------------------------------------------------------------
(* A packet of a connection *)

LEMMA StepOfFlow == TNext => Next
BY DEF TNext, Next, TcpPacket, OtherPacket, OnPacket

\* The packet is of the present connection of its key, or starts the next.
LEMMA ConnectionOfPacket ==
  ASSUME TInv, NEW p \in Packet, TcpPacket(p), NEW k, k = KeyOf(p)
  PROVE  /\ k \in Key
         /\ tcp' \in [Key -> TcpState]
         /\ \A x \in Key \ {k} : tcp'[x] = tcp[x]
         /\ owner' = Append(owner, <<k, tcp'[k].nth>>)
         /\ tcp'[k].nth > 0
         /\ tcp'[k].last = p.ts
         /\ \/ /\ Continues(k, p)
               /\ tcp'[k].nth = tcp[k].nth
               /\ tcp'[k].firstFin = IF tcp[k].firstFin = None /\ p.closing
                                     THEN p.ts ELSE tcp[k].firstFin
            \/ /\ Starts(k, p)
               /\ tcp'[k].nth = tcp[k].nth + 1
               /\ tcp'[k].firstFin = IF p.closing THEN p.ts ELSE None
<1>1. k \in Key /\ p.ts \in Instant
  BY KeyOfIsKey DEF TcpPacket, Packet
<1>2. tcp[k] \in TcpState /\ tcp \in [Key -> TcpState]
  BY <1>1 DEF TInv, OwnersTyped
<1>3. owner' = Append(owner, <<k, tcp'[k].nth>>)
  BY DEF TcpPacket
<1>4. /\ tcp[k].nth \in Nat
      /\ tcp[k].firstFin \in Instant \cup {None}
      /\ tcp[k].last \in Instant \cup {None}
  BY <1>2 DEF TcpState
<1>5. CASE Continues(k, p)
  <2>1. PICK new : new = [nth |-> tcp[k].nth,
                  firstFin |-> IF tcp[k].firstFin = None /\ p.closing
                               THEN p.ts ELSE tcp[k].firstFin,
                  last |-> p.ts]
    OBVIOUS
  <2>2. new \in TcpState
    BY <1>1, <1>4, <2>1 DEF TcpState
  <2>3. /\ tcp'[k] = [tcp[k] EXCEPT
                       !.firstFin = IF tcp[k].firstFin = None /\ p.closing
                                    THEN p.ts ELSE tcp[k].firstFin,
                       !.last = p.ts]
        /\ \A x \in Key \ {k} : tcp'[x] = tcp[x]
        /\ tcp' = [x \in Key |-> tcp'[x]]
    BY <1>1, <1>2, <1>5 DEF Continues
  <2>4. tcp' \in [Key -> TcpState] /\ tcp'[k] = new /\ \A x \in Key \ {k} : tcp'[x] = tcp[x]
    <3>1. tcp'[k] = new
      BY <1>2, <2>1, <2>3 DEF TcpState
    <3>2. \A x \in Key : tcp'[x] \in TcpState
      BY <1>2, <2>2, <2>3, <3>1
    <3>3. QED
      BY <2>3, <3>1, <3>2
  <2>5. tcp[k].nth > 0
    BY <1>5 DEF Continues
  <2>6. QED
    BY <1>1, <1>3, <1>5, <2>1, <2>4, <2>5
<1>6. CASE Starts(k, p)
  <2>1. PICK new : new = [nth |-> tcp[k].nth + 1,
                  firstFin |-> IF p.closing THEN p.ts ELSE None,
                  last |-> p.ts]
    OBVIOUS
  <2>2. new \in TcpState
    BY <1>1, <1>4, <2>1 DEF TcpState
  <2>3. tcp' = [tcp EXCEPT ![k] = new]
    BY <1>6, <2>1 DEF Starts
  <2>4. tcp' \in [Key -> TcpState] /\ tcp'[k] = new /\ \A x \in Key \ {k} : tcp'[x] = tcp[x]
    BY <1>1, <1>2, <2>2, <2>3
  <2>5. tcp[k].nth + 1 > 0
    BY <1>4
  <2>6. QED
    BY <1>1, <1>3, <1>6, <2>1, <2>4, <2>5
<1>7. QED
  BY <1>5, <1>6 DEF TcpPacket

\* A packet is a tail exactly when its connection has begun to end.
LEMMA TailOrCounted ==
  ASSUME Teardown <= Grace, Grace < Reuse,
         TInv, NEW p \in Packet, TcpPacket(p), NEW k, k = KeyOf(p)
  PROVE  \/ /\ IgnoreTail(p)
            /\ tcp'[k].nth = tcp[k].nth
            /\ tcp'[k].firstFin = tcp[k].firstFin
            /\ tcp[k].firstFin # None
         \/ /\ Extend(p) \/ Close(p)
            /\ open[k] # None
            /\ tcp'[k].nth = tcp[k].nth
            /\ tcp'[k].firstFin = IF p.closing THEN p.ts ELSE None
         \/ /\ Extend(p) \/ Close(p)
            /\ open[k] = None
            /\ tcp'[k].nth = tcp[k].nth + 1
            /\ tcp'[k].firstFin = IF p.closing THEN p.ts ELSE None
<1>1. k \in Key /\ p.ts \in Instant /\ OnPort(p) /\ ~done
  BY KeyOfIsKey DEF TcpPacket, Packet, OnPacket, SkipOtherTraffic, IgnoreTail, Extend,
     Close, Read
<1>2. /\ tcp[k].nth \in Nat
      /\ tcp[k].firstFin \in Instant \cup {None}
      /\ tcp[k].last \in Instant \cup {None}
  BY <1>1 DEF TInv, OwnersTyped, TcpState
<1>3. /\ tcp[k].nth = 0 => recentlyClosed[k] = None /\ tcp[k].firstFin = None
      /\ tcp[k].nth > 0 /\ tcp[k].firstFin = None => open[k] # None
      /\ tcp[k].firstFin # None =>
           /\ recentlyClosed[k] = tcp[k].firstFin
           /\ tcp[k].last # None
           /\ tcp[k].firstFin <= tcp[k].last
  BY <1>1 DEF TInv, Phases, PhaseOf
<1>4. open[k] = None \/ recentlyClosed[k] = None
  BY <1>1 DEF TInv, FInv, OpenOrClosed
<1>5. open[k] # None => tcp[k].nth > 0 /\ tcp[k].firstFin = None
  BY <1>1 DEF TInv, OpenIsPresent
<1>6. IsTail(p) <=> /\ recentlyClosed[k] # None
                    /\ p.ts - recentlyClosed[k] <= Grace
  BY DEF IsTail
<1>7. \/ IgnoreTail(p) /\ IsTail(p)
      \/ (Extend(p) \/ Close(p)) /\ ~IsTail(p)
  BY <1>1 DEF TcpPacket, OnPacket, SkipOtherTraffic, IgnoreTail, Extend, Close
<1>8. \/ /\ Continues(k, p)
         /\ tcp'[k].nth = tcp[k].nth
         /\ tcp'[k].firstFin = IF tcp[k].firstFin = None /\ p.closing
                               THEN p.ts ELSE tcp[k].firstFin
      \/ /\ Starts(k, p)
         /\ tcp'[k].nth = tcp[k].nth + 1
         /\ tcp'[k].firstFin = IF p.closing THEN p.ts ELSE None
  BY ConnectionOfPacket
<1>9. ASSUME Continues(k, p), tcp[k].firstFin # None
      PROVE  IsTail(p)
  <2>1. p.ts - tcp[k].firstFin <= Teardown
    BY <1>9 DEF Continues
  <2>2. p.ts \in Nat /\ tcp[k].firstFin \in Nat
    BY <1>1, <1>2, <1>9
  <2>3. p.ts - recentlyClosed[k] <= Grace
    BY <1>3, <1>9, <2>1, <2>2
  <2>4. recentlyClosed[k] # None
    BY <1>3, <1>9
  <2>5. QED
    BY <1>6, <2>3, <2>4
<1>10. ASSUME Continues(k, p), tcp[k].firstFin = None
       PROVE  ~IsTail(p) /\ open[k] # None
  <2>1. tcp[k].nth > 0
    BY <1>10 DEF Continues
  <2>2. open[k] # None
    BY <1>3, <1>10, <2>1
  <2>3. QED
    BY <1>4, <1>6, <2>2
<1>11. ASSUME Starts(k, p)
       PROVE  ~IsTail(p) /\ open[k] = None
  <2>1. CASE tcp[k].nth = 0
    <3>1. recentlyClosed[k] = None /\ ~(tcp[k].nth > 0)
      BY <1>3, <2>1
    <3>2. QED
      BY <1>5, <1>6, <3>1
  <2>2. CASE tcp[k].firstFin # None /\ p.ts - tcp[k].last >= Reuse
    <3>1. /\ recentlyClosed[k] = tcp[k].firstFin
          /\ tcp[k].last # None
          /\ tcp[k].firstFin <= tcp[k].last
      BY <1>3, <2>2
    <3>2. p.ts \in Nat /\ tcp[k].firstFin \in Nat /\ tcp[k].last \in Nat
      BY <1>1, <1>2, <2>2, <3>1
    <3>3. ~(p.ts - recentlyClosed[k] <= Grace)
      BY <2>2, <3>1, <3>2
    <3>4. open[k] = None
      BY <1>5, <2>2
    <3>5. QED
      BY <1>6, <3>3, <3>4
  <2>3. QED
    BY <1>11, <2>1, <2>2 DEF Starts
<1>12. QED
  BY <1>7, <1>8, <1>9, <1>10, <1>11

LEMMA PacketRead ==
  ASSUME NEW p \in Packet, OnPacket(p)
  PROVE  capture' = Append(capture, p) /\ ~done /\ ~done'
BY DEF OnPacket, SkipOtherTraffic, IgnoreTail, Extend, Close, Read

LEMMA OwnerAppended ==
  ASSUME TInv, NEW p \in Packet, capture' = Append(capture, p),
         NEW o \in (Key \X Nat) \cup {None}, owner' = Append(owner, o)
  PROVE  /\ owner' \in Seq((Key \X Nat) \cup {None})
         /\ Len(owner') = Len(capture')
         /\ \A i \in DOMAIN capture : owner'[i] = owner[i] /\ capture'[i] = capture[i]
         /\ owner'[Len(capture) + 1] = o
         /\ capture'[Len(capture) + 1] = p
         /\ DOMAIN capture' = (DOMAIN capture) \cup {Len(capture) + 1}
<1>1. owner \in Seq((Key \X Nat) \cup {None}) /\ Len(owner) = Len(capture)
  BY DEF TInv, OwnersTyped
<1>2. capture \in Seq(Packet) /\ TypeOK
  BY DEF TInv, FInv, TypeOK
<1>3. Len(owner') = Len(capture') /\ owner' \in Seq((Key \X Nat) \cup {None})
  BY <1>1, <1>2
<1>4. \A i \in DOMAIN capture : owner'[i] = owner[i]
  BY <1>1, <1>2
<1>5. owner'[Len(capture) + 1] = o
  BY <1>1
<1>6. QED
  BY <1>2, <1>3, <1>4, <1>5, AppendKeeps

LEMMA NumberedAfter ==
  ASSUME TInv, NEW p \in Packet, capture' = Append(capture, p),
         NEW o \in (Key \X Nat) \cup {None}, owner' = Append(owner, o),
         tcp' \in [Key -> TcpState],
         \A k \in Key : tcp[k].nth <= tcp'[k].nth,
         OnPort(p) => o = <<KeyOf(p), tcp'[KeyOf(p)].nth>>,
         ~OnPort(p) => o = None,
         clock' = p.ts
  PROVE  OwnersTyped' /\ OwnersNumbered'
<1>1. OwnersTyped'
  BY OwnerAppended DEF OwnersTyped, Packet
<1>2. capture \in Seq(Packet)
  BY DEF TInv, FInv, TypeOK
<1>3. ASSUME NEW i \in DOMAIN capture, OnPort(capture[i])
      PROVE  \E m \in Nat : /\ m <= tcp'[KeyOf(capture[i])].nth
                            /\ owner'[i] = <<KeyOf(capture[i]), m>>
  <2>1. PICK k : k = KeyOf(capture[i])
    OBVIOUS
  <2>2. k \in Key
    BY <1>2, <1>3, <2>1, KeyOfIsKey
  <2>3. PICK m \in Nat : m <= tcp[k].nth /\ owner[i] = <<k, m>>
    BY <1>3, <2>1 DEF TInv, OwnersNumbered
  <2>4. tcp[k].nth \in Nat /\ tcp'[k].nth \in Nat /\ tcp[k].nth <= tcp'[k].nth
    BY <2>2 DEF TInv, OwnersTyped, TcpState
  <2>5. m <= tcp'[k].nth
    BY <2>3, <2>4
  <2>6. owner'[i] = owner[i]
    BY OwnerAppended
  <2>7. QED
    BY <2>1, <2>3, <2>5, <2>6
<1>4. ASSUME NEW i \in DOMAIN capture, ~OnPort(capture[i])
      PROVE  owner'[i] = None
  BY <1>4, OwnerAppended DEF TInv, OwnersNumbered
<1>5. ASSUME OnPort(p)
      PROVE  \E m \in Nat : /\ m <= tcp'[KeyOf(p)].nth
                            /\ owner'[Len(capture) + 1] = <<KeyOf(p), m>>
  <2>1. PICK k : k = KeyOf(p)
    OBVIOUS
  <2>2. tcp'[k].nth \in Nat
    BY <1>5, <2>1, KeyOfIsKey DEF TcpState
  <2>3. owner'[Len(capture) + 1] = <<k, tcp'[k].nth>>
    BY <1>5, <2>1, OwnerAppended
  <2>4. QED
    BY <2>1, <2>2, <2>3
<1>6. ASSUME ~OnPort(p) PROVE owner'[Len(capture) + 1] = None
  BY <1>6, OwnerAppended
<1>7. ASSUME NEW i \in DOMAIN capture'
      PROVE  IF OnPort(capture'[i])
             THEN \E m \in Nat : /\ m <= tcp'[KeyOf(capture'[i])].nth
                                 /\ owner'[i] = <<KeyOf(capture'[i]), m>>
             ELSE owner'[i] = None
  <2>1. CASE i \in DOMAIN capture
    <3>1. capture'[i] = capture[i]
      BY <2>1, OwnerAppended
    <3>2. QED
      BY <1>3, <1>4, <2>1, <3>1
  <2>2. CASE i = Len(capture) + 1
    <3>1. capture'[i] = p
      BY <2>2, OwnerAppended
    <3>2. QED
      BY <1>5, <1>6, <2>2, <3>1
  <2>3. QED
    BY <1>7, <2>1, <2>2, OwnerAppended
<1>8. QED
  BY <1>1, <1>7 DEF OwnersNumbered

LEMMA OwnersStep ==
  ASSUME TInv, TNext
  PROVE  OwnersTyped' /\ OwnersNumbered'
<1>1. ASSUME NEW p \in Packet, TcpPacket(p)
      PROVE  OwnersTyped' /\ OwnersNumbered'
  <2>1. PICK k : k = KeyOf(p)
    OBVIOUS
  <2>2. /\ k \in Key
        /\ tcp' \in [Key -> TcpState]
        /\ \A x \in Key \ {k} : tcp'[x] = tcp[x]
        /\ owner' = Append(owner, <<k, tcp'[k].nth>>)
        /\ tcp'[k].nth = tcp[k].nth \/ tcp'[k].nth = tcp[k].nth + 1
    BY <1>1, <2>1, ConnectionOfPacket
  <2>3. tcp \in [Key -> TcpState]
    BY DEF TInv, OwnersTyped
  <2>4. \A x \in Key : tcp[x].nth \in Nat /\ tcp'[x].nth \in Nat
    BY <2>2, <2>3 DEF TcpState
  <2>5. \A x \in Key : tcp[x].nth <= tcp'[x].nth
    BY <2>2, <2>4
  <2>6. PICK o : o = <<k, tcp'[k].nth>>
    OBVIOUS
  <2>7. o \in (Key \X Nat) \cup {None}
    BY <2>2, <2>4, <2>6
  <2>8. capture' = Append(capture, p) /\ clock' = p.ts /\ OnPort(p)
    BY <1>1, PacketRead DEF TcpPacket
  <2>9. QED
    BY <2>1, <2>2, <2>5, <2>6, <2>7, <2>8, NumberedAfter
<1>2. ASSUME NEW p \in Packet, OtherPacket(p)
      PROVE  OwnersTyped' /\ OwnersNumbered'
  <2>1. /\ capture' = Append(capture, p) /\ clock' = p.ts /\ ~OnPort(p)
        /\ owner' = Append(owner, None) /\ tcp' = tcp
    BY <1>2 DEF OtherPacket, SkipOtherTraffic, Read
  <2>2. tcp \in [Key -> TcpState]
    BY DEF TInv, OwnersTyped
  <2>3. \A x \in Key : tcp[x].nth <= tcp'[x].nth
    BY <2>1, <2>2 DEF TcpState
  <2>4. QED
    BY <2>1, <2>2, <2>3, NumberedAfter
<1>3. CASE EndOfCapture /\ UNCHANGED <<clock, tcp, owner>>
  BY <1>3 DEF EndOfCapture, TInv, OwnersTyped, OwnersNumbered
<1>4. QED
  BY <1>1, <1>2, <1>3, AtIsPacket DEF TNext

----------------------------------------------------------------------------
(* The sessions a packet changes *)

LEMMA MembersRead ==
  ASSUME TInv, NEW a \in Slot, NEW i \in MembersOf(a)
  PROVE  /\ i \in DOMAIN capture
         /\ OnPort(capture[i])
         /\ KeyOf(capture[i]) = KeyOfSlot(a)
BY DEF TInv, FInv, PacketsNotShared

LEMMA OpenSlot ==
  ASSUME NEW k \in Key, open[k] # None
  PROVE  /\ <<"open", k>> \in Slot
         /\ MembersOf(<<"open", k>>) = open[k].members
         /\ KeyOfSlot(<<"open", k>>) = k
BY DEF Slot, MembersOf, KeyOfSlot

\* After a packet is read, the owners of the packets before it are the same.
LEMMA OwnersKept ==
  ASSUME TInv, TNext, NEW i \in DOMAIN capture
  PROVE  owner'[i] = owner[i]
<1>1. ASSUME NEW p \in Packet, TcpPacket(p) PROVE owner'[i] = owner[i]
  <2>1. PICK k : k = KeyOf(p)
    OBVIOUS
  <2>2. /\ k \in Key /\ tcp' \in [Key -> TcpState]
        /\ owner' = Append(owner, <<k, tcp'[k].nth>>)
    BY <1>1, <2>1, ConnectionOfPacket
  <2>3. PICK o : o = <<k, tcp'[k].nth>>
    OBVIOUS
  <2>4. o \in (Key \X Nat) \cup {None}
    BY <2>2, <2>3 DEF TcpState
  <2>5. QED
    BY <1>1, <2>2, <2>3, <2>4, PacketRead, OwnerAppended DEF TcpPacket
<1>2. ASSUME NEW p \in Packet, OtherPacket(p) PROVE owner'[i] = owner[i]
  BY <1>2, OwnerAppended DEF OtherPacket, SkipOtherTraffic, Read
<1>3. QED
  BY <1>1, <1>2, AtIsPacket DEF TNext

LEMMA NewOwner ==
  ASSUME TInv, NEW p \in Packet, TcpPacket(p), NEW k, k = KeyOf(p)
  PROVE  owner'[Len(capture) + 1] = <<k, tcp'[k].nth>>
<1>1. /\ k \in Key /\ tcp' \in [Key -> TcpState]
      /\ owner' = Append(owner, <<k, tcp'[k].nth>>)
  BY ConnectionOfPacket
<1>2. PICK o : o = <<k, tcp'[k].nth>>
  OBVIOUS
<1>3. o \in (Key \X Nat) \cup {None}
  BY <1>1, <1>2 DEF TcpState
<1>4. QED
  BY <1>1, <1>2, <1>3, PacketRead, OwnerAppended DEF TcpPacket

LEMMA NthConnection ==
  ASSUME Teardown <= Grace, Grace < Reuse, TInv,
         NEW p \in Packet, TcpPacket(p), Extend(p) \/ Close(p), NEW k, k = KeyOf(p)
  PROVE  /\ k \in Key
         /\ \/ open[k] # None /\ tcp'[k].nth = tcp[k].nth
            \/ open[k] = None /\ tcp'[k].nth = tcp[k].nth + 1
         /\ tcp'[k].firstFin = IF p.closing THEN p.ts ELSE None
         /\ tcp'[k].nth > 0
         /\ tcp'[k].last = p.ts
         /\ \A x \in Key \ {k} : tcp'[x] = tcp[x]
<1>1. ~IgnoreTail(p)
  BY DEF IgnoreTail, Extend, Close
<1>2. QED
  BY <1>1, TailOrCounted, ConnectionOfPacket

\* The session the packet is counted in is of the packet's connection.
LEMMA CountedOwners ==
  ASSUME Teardown <= Grace, Grace < Reuse, TInv, TNext,
         NEW p \in Packet, TcpPacket(p), Extend(p) \/ Close(p), NEW k, k = KeyOf(p),
         NEW i \in Before(k) \cup {Len(capture) + 1}
  PROVE  owner'[i] = <<k, tcp'[k].nth>>
<1>1. CASE i = Len(capture) + 1
  BY <1>1, NewOwner
<1>2. CASE i \in Before(k)
  <2>1. open[k] # None /\ i \in open[k].members /\ k \in Key
    BY <1>2, NthConnection DEF Before
  <2>2. owner[i] = <<k, tcp[k].nth>>
    BY <2>1 DEF TInv, OpenIsPresent
  <2>3. i \in DOMAIN capture
    <3>1. PICK a : a = <<"open", k>>
      OBVIOUS
    <3>2. a \in Slot /\ i \in MembersOf(a)
      BY <2>1, <3>1, OpenSlot
    <3>3. QED
      BY <3>2, MembersRead
  <2>4. tcp'[k].nth = tcp[k].nth
    BY <2>1, NthConnection
  <2>5. QED
    BY <2>2, <2>3, <2>4, OwnersKept
<1>3. QED
  BY <1>1, <1>2

\* And no other session has a packet of that connection.
LEMMA NoOtherSession ==
  ASSUME Teardown <= Grace, Grace < Reuse, TInv,
         NEW p \in Packet, TcpPacket(p), Extend(p) \/ Close(p), NEW k, k = KeyOf(p),
         NEW b \in Slot \ {<<"open", k>>}, NEW j \in MembersOf(b)
  PROVE  owner[j] # <<k, tcp'[k].nth>>
<1>1. k \in Key
  BY NthConnection
<1>2. CASE open[k] # None /\ tcp'[k].nth = tcp[k].nth
  <2>a. /\ open[k].members # {}
        /\ \A i \in open[k].members : owner[i] = <<k, tcp[k].nth>>
    BY <1>1, <1>2 DEF TInv, OpenIsPresent
  <2>1. PICK i \in open[k].members : owner[i] = <<k, tcp[k].nth>>
    BY <2>a
  <2>2. <<"open", k>> \in Slot /\ i \in MembersOf(<<"open", k>>)
    BY <1>1, <1>2, <2>1, OpenSlot
  <2>3. owner[i] # owner[j]
    BY <2>2 DEF TInv, ReportedOnce
  <2>4. QED
    BY <1>2, <2>1, <2>3
<1>3. CASE open[k] = None /\ tcp'[k].nth = tcp[k].nth + 1
  <2>1. j \in DOMAIN capture /\ OnPort(capture[j])
    BY MembersRead
  <2>2. PICK m \in Nat : /\ m <= tcp[KeyOf(capture[j])].nth
                         /\ owner[j] = <<KeyOf(capture[j]), m>>
    BY <2>1 DEF TInv, OwnersNumbered
  <2>3. tcp[k].nth \in Nat
    BY <1>1 DEF TInv, OwnersTyped, TcpState
  <2>4. SUFFICES ASSUME owner[j] = <<k, tcp'[k].nth>> PROVE FALSE
    OBVIOUS
  <2>5. KeyOf(capture[j]) = k /\ m = tcp[k].nth + 1
    BY <1>3, <2>2, <2>4
  <2>6. m <= tcp[k].nth
    BY <2>2, <2>5
  <2>7. QED
    BY <2>3, <2>5, <2>6
<1>4. QED
  BY <1>2, <1>3, NthConnection

----------------------------------------------------------------------------
(* The invariant is inductive *)

LEMMA OpenMembersRead ==
  ASSUME TInv, NEW k \in Key, open[k] # None, NEW i \in open[k].members
  PROVE  i \in DOMAIN capture
<1>1. PICK a : a = <<"open", k>>
  OBVIOUS
<1>2. a \in Slot /\ i \in MembersOf(a)
  BY <1>1, OpenSlot
<1>3. QED
  BY <1>2, MembersRead

\* A key whose code state and whose connection stay as they are.
LEMMA KeyUntouched ==
  ASSUME TInv, TNext, NEW k \in Key,
         open'[k] = open[k], tcp'[k].nth = tcp[k].nth, tcp'[k].firstFin = tcp[k].firstFin
  PROVE  open'[k] # None =>
           /\ tcp'[k].nth > 0
           /\ tcp'[k].firstFin = None
           /\ open'[k].members # {}
           /\ \A i \in open'[k].members : owner'[i] = <<k, tcp'[k].nth>>
<1> SUFFICES ASSUME open[k] # None
             PROVE  /\ tcp[k].nth > 0
                    /\ tcp[k].firstFin = None
                    /\ open[k].members # {}
                    /\ \A i \in open[k].members : owner'[i] = <<k, tcp[k].nth>>
  OBVIOUS
<1>1. /\ tcp[k].nth > 0
      /\ tcp[k].firstFin = None
      /\ open[k].members # {}
      /\ \A i \in open[k].members : owner[i] = <<k, tcp[k].nth>>
  BY DEF TInv, OpenIsPresent
<1>2. \A i \in open[k].members : owner'[i] = owner[i]
  BY OpenMembersRead, OwnersKept
<1>3. QED
  BY <1>1, <1>2

LEMMA OpenStep ==
  ASSUME Teardown <= Grace, Grace < Reuse, TInv, TNext
  PROVE  OpenIsPresent'
<1>1. ASSUME NEW p \in Packet, TcpPacket(p), Extend(p) \/ Close(p)
      PROVE  OpenIsPresent'
  <2>1. PICK k : k = KeyOf(p)
    OBVIOUS
  <2>2. /\ k \in Key /\ tcp'[k].nth > 0
        /\ tcp'[k].firstFin = IF p.closing THEN p.ts ELSE None
        /\ \A x \in Key \ {k} : tcp'[x] = tcp[x]
    BY <1>1, <2>1, NthConnection
  <2>3. open \in [Key -> Session \cup {None}] /\ TypeOK /\ KeysMatch
    BY DEF TInv, FInv, TypeOK
  <2>4. \A x \in Key \ {k} : open'[x] = open[x]
    BY <1>1, <2>1, <2>3 DEF Extend, Close
  <2>5. ASSUME open'[k] # None
        PROVE  /\ tcp'[k].firstFin = None
               /\ open'[k].members = Before(k) \cup {Len(capture) + 1}
    <3>1. Extend(p)
      BY <1>1, <2>1, <2>2, <2>3, <2>5 DEF Close
    <3>2. open'[k] = SessionWith(p) /\ ~p.closing /\ OnPort(p)
      BY <2>1, <2>2, <2>3, <3>1 DEF Extend
    <3>3. open'[k].members = (IF open[k] = None THEN {} ELSE open[k].members)
                               \cup {Len(capture) + 1}
      BY <2>1, <2>3, <3>2, SessionWithType
    <3>4. QED
      BY <2>2, <3>2, <3>3 DEF Before
  <2>6. ASSUME open'[k] # None, NEW i \in Before(k) \cup {Len(capture) + 1}
        PROVE  owner'[i] = <<k, tcp'[k].nth>>
    BY <1>1, <2>1, CountedOwners
  <2>7. open'[k] # None =>
           /\ tcp'[k].nth > 0
           /\ tcp'[k].firstFin = None
           /\ open'[k].members # {}
           /\ \A i \in open'[k].members : owner'[i] = <<k, tcp'[k].nth>>
    BY <2>2, <2>5, <2>6
  <2>8. ASSUME NEW x \in Key \ {k}
        PROVE  open'[x] # None =>
                 /\ tcp'[x].nth > 0
                 /\ tcp'[x].firstFin = None
                 /\ open'[x].members # {}
                 /\ \A i \in open'[x].members : owner'[i] = <<x, tcp'[x].nth>>
    BY <2>2, <2>4, KeyUntouched
  <2>9. QED
    BY <2>7, <2>8 DEF OpenIsPresent
<1>2. ASSUME NEW p \in Packet, TcpPacket(p), IgnoreTail(p)
      PROVE  OpenIsPresent'
  <2>1. PICK k : k = KeyOf(p)
    OBVIOUS
  <2>2. ~(Extend(p) \/ Close(p)) /\ open' = open
    BY <1>2 DEF IgnoreTail, Extend, Close
  <2>3. /\ tcp'[k].nth = tcp[k].nth
        /\ tcp'[k].firstFin = tcp[k].firstFin
        /\ \A x \in Key \ {k} : tcp'[x] = tcp[x]
    BY <1>2, <2>1, <2>2, TailOrCounted, ConnectionOfPacket
  <2>4. \A x \in Key : tcp'[x].nth = tcp[x].nth /\ tcp'[x].firstFin = tcp[x].firstFin
    BY <2>3
  <2>5. QED
    BY <2>2, <2>4, KeyUntouched DEF OpenIsPresent
<1>3. ASSUME NEW p \in Packet, OtherPacket(p)
      PROVE  OpenIsPresent'
  <2>1. open' = open /\ tcp' = tcp
    BY <1>3 DEF OtherPacket, SkipOtherTraffic
  <2>2. QED
    BY <2>1, KeyUntouched DEF OpenIsPresent
<1>4. CASE EndOfCapture
  BY <1>4 DEF EndOfCapture, OpenIsPresent
<1>5. ASSUME NEW p \in Packet, TcpPacket(p)
      PROVE  IgnoreTail(p) \/ Extend(p) \/ Close(p)
  BY <1>5 DEF TcpPacket, OnPacket, SkipOtherTraffic
<1>6. QED
  BY <1>1, <1>2, <1>3, <1>4, <1>5, AtIsPacket DEF TNext

LEMMA PhaseKept ==
  ASSUME TInv, ~done, NEW k \in Key,
         open'[k] = open[k], recentlyClosed'[k] = recentlyClosed[k], tcp'[k] = tcp[k],
         clock' \in Nat, clock <= clock'
  PROVE  PhaseOf(k)'
<1>1. PhaseOf(k)
  BY DEF TInv, Phases
<1>2. tcp[k].last \in Instant \cup {None} /\ clock \in Nat
  BY DEF TInv, OwnersTyped, TcpState
<1>3. ASSUME tcp[k].last # None, tcp[k].last <= clock
      PROVE  tcp[k].last <= clock'
  <2>1. tcp[k].last \in Nat
    BY <1>2, <1>3
  <2>2. QED
    BY <1>2, <1>3, <2>1
<1>4. QED
  BY <1>1, <1>3 DEF PhaseOf

LEMMA PhasesStep ==
  ASSUME Teardown <= Grace, Grace < Reuse, TInv, TNext
  PROVE  Phases'
<1>1. ASSUME NEW p \in Packet, TcpPacket(p)
      PROVE  \A x \in Key \ {KeyOf(p)} : PhaseOf(x)'
  <2>1. PICK k : k = KeyOf(p)
    OBVIOUS
  <2>2. \A x \in Key \ {k} : tcp'[x] = tcp[x]
    BY <1>1, <2>1, ConnectionOfPacket
  <2>3. /\ open \in [Key -> Session \cup {None}]
        /\ recentlyClosed \in [Key -> Instant \cup {None}]
    BY DEF TInv, FInv, TypeOK
  <2>4. \A x \in Key \ {k} : open'[x] = open[x] /\ recentlyClosed'[x] = recentlyClosed[x]
    BY <1>1, <2>1, <2>3
    DEF TcpPacket, OnPacket, SkipOtherTraffic, IgnoreTail, Extend, Close
  <2>5. clock' \in Nat /\ clock <= clock' /\ ~done
    BY <1>1, PacketRead DEF TcpPacket, Packet
  <2>6. QED
    BY <2>1, <2>2, <2>4, <2>5, PhaseKept
<1>2. ASSUME NEW p \in Packet, TcpPacket(p), Extend(p) \/ Close(p),
             NEW k, k = KeyOf(p)
      PROVE  PhaseOf(k)'
  <2>1. /\ k \in Key /\ tcp'[k].nth > 0
        /\ tcp'[k].firstFin = IF p.closing THEN p.ts ELSE None
        /\ tcp'[k].last = p.ts
    BY <1>2, NthConnection
  <2>2. /\ open \in [Key -> Session \cup {None}] /\ TypeOK
        /\ recentlyClosed \in [Key -> Instant \cup {None}]
    BY DEF TInv, FInv, TypeOK
  <2>3. p.ts \in Nat /\ p.ts # None /\ clock' = p.ts
    BY <1>2 DEF TcpPacket, Packet
  <2>4. CASE Close(p)
    <3>1. recentlyClosed'[k] = p.ts /\ p.closing
      BY <1>2, <2>1, <2>2, <2>4 DEF Close
    <3>2. tcp'[k].firstFin = p.ts
      BY <2>1, <3>1
    <3>3. p.ts <= p.ts
      BY <2>3
    <3>4. tcp'[k].nth # 0
      BY <2>1
    <3>5. QED
      BY <2>1, <2>3, <3>1, <3>2, <3>3, <3>4 DEF PhaseOf
  <2>5. CASE Extend(p)
    <3>1. open'[k] = SessionWith(p) /\ SessionWith(p) \in Session /\ ~p.closing
      BY <1>2, <2>1, <2>2, <2>5, SessionWithType DEF Extend
    <3>2. open'[k] # None
      BY <3>1
    <3>3. tcp'[k].firstFin = None
      BY <2>1, <3>1
    <3>4. tcp'[k].nth # 0
      BY <2>1
    <3>5. QED
      BY <3>2, <3>3, <3>4 DEF PhaseOf
  <2>6. QED
    BY <1>2, <2>4, <2>5
<1>3. ASSUME NEW p \in Packet, TcpPacket(p), IgnoreTail(p), NEW k, k = KeyOf(p)
      PROVE  PhaseOf(k)'
  <2>1. ~(Extend(p) \/ Close(p)) /\ recentlyClosed' = recentlyClosed
    BY <1>3 DEF IgnoreTail, Extend, Close
  <2>2. /\ k \in Key /\ tcp'[k].nth = tcp[k].nth
        /\ tcp'[k].firstFin = tcp[k].firstFin
        /\ tcp[k].firstFin # None
        /\ tcp'[k].last = p.ts
        /\ tcp'[k].nth > 0
    BY <1>3, <2>1, TailOrCounted, ConnectionOfPacket
  <2>3. p.ts \in Nat /\ p.ts # None /\ clock' = p.ts /\ p.ts >= clock /\ clock \in Nat
    BY <1>3 DEF TcpPacket, Packet, TInv, OwnersTyped
  <2>4. ~done
    BY <1>3 DEF IgnoreTail, Read
  <2>5. /\ recentlyClosed[k] = tcp[k].firstFin
        /\ tcp[k].last # None
        /\ tcp[k].firstFin <= tcp[k].last
        /\ tcp[k].last <= clock
    BY <2>2, <2>4 DEF TInv, Phases, PhaseOf
  <2>6. tcp[k].last \in Nat /\ tcp[k].firstFin \in Nat
    BY <2>2, <2>5 DEF TInv, OwnersTyped, TcpState
  <2>7. tcp[k].firstFin <= p.ts /\ p.ts <= p.ts
    BY <2>3, <2>5, <2>6
  <2>8. tcp'[k].nth # 0
    BY <2>2
  <2>9. QED
    BY <2>1, <2>2, <2>3, <2>5, <2>7, <2>8 DEF PhaseOf
<1>4. ASSUME NEW p \in Packet, TcpPacket(p)
      PROVE  Phases'
  <2>1. PICK k : k = KeyOf(p)
    OBVIOUS
  <2>2. IgnoreTail(p) \/ Extend(p) \/ Close(p)
    BY <1>4 DEF TcpPacket, OnPacket, SkipOtherTraffic
  <2>3. PhaseOf(k)'
    BY <1>2, <1>3, <1>4, <2>1, <2>2
  <2>4. \A x \in Key \ {k} : PhaseOf(x)'
    BY <1>1, <1>4, <2>1
  <2>5. QED
    BY <2>3, <2>4 DEF Phases
<1>5. ASSUME NEW p \in Packet, OtherPacket(p)
      PROVE  Phases'
  <2>1. /\ open' = open /\ tcp' = tcp /\ recentlyClosed' = recentlyClosed
        /\ clock' \in Nat /\ clock <= clock' /\ ~done
    BY <1>5 DEF OtherPacket, SkipOtherTraffic, Read, Packet
  <2>2. QED
    BY <2>1, PhaseKept DEF Phases
<1>6. CASE EndOfCapture
  BY <1>6 DEF EndOfCapture, Phases
<1>7. QED
  BY <1>4, <1>5, <1>6, AtIsPacket DEF TNext

\* A connection that has a session keeps it.
LEMMA SessionsStay ==
  ASSUME TInv, TNext, NEW o, HasSession(o)
  PROVE  \E j \in DOMAIN capture' : InSession(j)' /\ owner'[j] = o
<1>1. PICK j \in DOMAIN capture : InSession(j) /\ owner[j] = o
  BY DEF HasSession
<1>2. owner'[j] = o
  BY <1>1, OwnersKept
<1>3. InSession(j)'
  BY <1>1, StepOfFlow, CountedStaysCounted DEF TInv, FInv
<1>4. j \in DOMAIN capture'
  BY <1>1, StepOfFlow, PacketsKept DEF TInv, FInv
<1>5. QED
  BY <1>2, <1>3, <1>4

LEMMA RepresentedStep ==
  ASSUME Teardown <= Grace, Grace < Reuse, TInv, TNext
  PROVE  Represented'
<1>0. TypeOK /\ KeysMatch /\ Next
  BY StepOfFlow DEF TInv, FInv
<1>1. ASSUME NEW i \in DOMAIN capture, OnPort(capture[i])
      PROVE  \E j \in DOMAIN capture' : InSession(j)' /\ owner'[j] = owner'[i]
  <2>1. PICK o : o = owner[i]
    OBVIOUS
  <2>2. HasSession(o)
    BY <1>1, <2>1 DEF TInv, Represented
  <2>3. owner'[i] = o
    BY <2>1, OwnersKept
  <2>4. QED
    BY <2>2, <2>3, SessionsStay
<1>2. ASSUME NEW k \in Key, tcp[k].nth > 0
      PROVE  \E j \in DOMAIN capture' : InSession(j)' /\ owner'[j] = <<k, tcp[k].nth>>
  <2>1. PICK o : o = <<k, tcp[k].nth>>
    OBVIOUS
  <2>2. HasSession(o)
    BY <1>2, <2>1 DEF TInv, Represented
  <2>3. QED
    BY <2>1, <2>2, SessionsStay
<1>3. ASSUME NEW p \in Packet, TcpPacket(p), NEW k, k = KeyOf(p)
      PROVE  \E j \in DOMAIN capture' : InSession(j)' /\ owner'[j] = <<k, tcp'[k].nth>>
  <2>1. CASE Extend(p) \/ Close(p)
    <3>1. PICK i : i = Len(capture) + 1
      OBVIOUS
    <3>2. InSession(i)'
      BY <1>0, <2>1, <3>1, NewlyCounted
    <3>3. i \in DOMAIN capture'
      BY <1>0, <1>3, <3>1, PacketRead, AppendKeeps DEF TcpPacket
    <3>4. owner'[i] = <<k, tcp'[k].nth>>
      BY <1>3, <3>1, NewOwner
    <3>5. QED
      BY <3>2, <3>3, <3>4
  <2>2. CASE ~(Extend(p) \/ Close(p))
    <3>1. tcp'[k].nth = tcp[k].nth /\ k \in Key /\ tcp'[k].nth > 0
      BY <1>3, <2>2, TailOrCounted, ConnectionOfPacket
    <3>2. QED
      BY <1>2, <3>1
  <2>3. QED
    BY <2>1, <2>2
<1>4. ASSUME NEW p \in Packet, TcpPacket(p)
      PROVE  Represented'
  <2>1. PICK k : k = KeyOf(p)
    OBVIOUS
  <2>2. /\ capture' = Append(capture, p)
        /\ \A x \in Key \ {k} : tcp'[x] = tcp[x]
    BY <1>4, <2>1, PacketRead, ConnectionOfPacket DEF TcpPacket
  <2>3. owner'[Len(capture) + 1] = <<k, tcp'[k].nth>>
    BY <1>4, <2>1, NewOwner
  <2>4. ASSUME NEW i \in DOMAIN capture', OnPort(capture'[i])
        PROVE  \E j \in DOMAIN capture' : InSession(j)' /\ owner'[j] = owner'[i]
    <3>1. CASE i \in DOMAIN capture
      <4>1. capture'[i] = capture[i]
        BY <1>0, <2>2, <3>1, AppendKeeps
      <4>2. QED
        BY <1>1, <2>4, <3>1, <4>1
    <3>2. CASE i = Len(capture) + 1
      BY <1>3, <1>4, <2>1, <2>3, <3>2
    <3>3. QED
      BY <1>0, <2>2, <2>4, <3>1, <3>2, AppendKeeps
  <2>5. ASSUME NEW x \in Key, tcp'[x].nth > 0
        PROVE  \E j \in DOMAIN capture' : InSession(j)' /\ owner'[j] = <<x, tcp'[x].nth>>
    BY <1>2, <1>3, <1>4, <2>1, <2>2, <2>5
  <2>6. QED
    BY <2>4, <2>5 DEF Represented, HasSession
<1>5. ASSUME UNCHANGED tcp,
             \A i \in DOMAIN capture' :
               i \notin DOMAIN capture => ~OnPort(capture'[i])
      PROVE  Represented'
  <2>1. ASSUME NEW i \in DOMAIN capture', OnPort(capture'[i])
        PROVE  \E j \in DOMAIN capture' : InSession(j)' /\ owner'[j] = owner'[i]
    <3>1. i \in DOMAIN capture
      BY <1>5, <2>1
    <3>2. capture'[i] = capture[i]
      BY <1>0, <3>1, PacketsKept
    <3>3. QED
      BY <1>1, <2>1, <3>1, <3>2
  <2>2. ASSUME NEW x \in Key, tcp'[x].nth > 0
        PROVE  \E j \in DOMAIN capture' : InSession(j)' /\ owner'[j] = <<x, tcp'[x].nth>>
    BY <1>2, <1>5, <2>2
  <2>3. QED
    BY <2>1, <2>2 DEF Represented, HasSession
<1>6. ASSUME NEW p \in Packet, OtherPacket(p)
      PROVE  Represented'
  <2>1. /\ capture' = Append(capture, p) /\ ~OnPort(p) /\ tcp' = tcp
    BY <1>6 DEF OtherPacket, SkipOtherTraffic, Read
  <2>2. ASSUME NEW i \in DOMAIN capture', i \notin DOMAIN capture
        PROVE  ~OnPort(capture'[i])
    BY <1>0, <2>1, <2>2, AppendKeeps
  <2>3. QED
    BY <1>5, <2>1, <2>2
<1>7. CASE EndOfCapture /\ UNCHANGED <<clock, tcp, owner>>
  BY <1>5, <1>7 DEF EndOfCapture
<1>8. QED
  BY <1>4, <1>6, <1>7, AtIsPacket DEF TNext

\* One session of each connection, one connection in each session.
LEMMA OneToOneStep ==
  ASSUME Teardown <= Grace, Grace < Reuse, TInv, TNext
  PROVE  NotMixed' /\ ReportedOnce'
<1>0. TypeOK /\ KeysMatch /\ NotMixed /\ ReportedOnce
  BY DEF TInv, FInv
<1>1. ASSUME NEW a \in Slot, NEW i \in MembersOf(a)
      PROVE  owner'[i] = owner[i]
  BY MembersRead, OwnersKept
<1>2. ASSUME NEW p \in Packet, TcpPacket(p), Extend(p) \/ Close(p)
      PROVE  NotMixed' /\ ReportedOnce'
  <2>1. PICK k : k = KeyOf(p)
    OBVIOUS
  <2>2. PICK t :
           /\ Slot' = (Slot \ {<<"open", k>>}) \cup {t}
           /\ t \notin Slot \ {<<"open", k>>}
           /\ \A s \in Slot \ {<<"open", k>>} : MembersOf(s)' = MembersOf(s)
           /\ MembersOf(t)' = Before(k) \cup {Len(capture) + 1}
    BY <1>0, <1>2, <2>1, CountedSlots
  <2>3. ASSUME NEW i \in MembersOf(t)'
        PROVE  owner'[i] = <<k, tcp'[k].nth>>
    BY <1>2, <2>1, <2>2, CountedOwners
  <2>4. ASSUME NEW b \in Slot \ {<<"open", k>>}, NEW j \in MembersOf(b)'
        PROVE  /\ j \in MembersOf(b)
               /\ owner'[j] = owner[j]
               /\ owner'[j] # <<k, tcp'[k].nth>>
    BY <1>1, <1>2, <2>1, <2>2, NoOtherSession
  <2>5. NotMixed'
    BY <1>0, <2>2, <2>3, <2>4 DEF NotMixed
  <2>6. ReportedOnce'
    BY <1>0, <2>2, <2>3, <2>4 DEF ReportedOnce
  <2>7. QED
    BY <2>5, <2>6
<1>3. ASSUME NEW p \in Packet, SkipOtherTraffic(p) \/ IgnoreTail(p)
      PROVE  NotMixed' /\ ReportedOnce'
  <2>1. open' = open /\ observations' = observations
    BY <1>3 DEF SkipOtherTraffic, IgnoreTail
  <2>2. Slot' = Slot /\ \A s : MembersOf(s)' = MembersOf(s)
    BY <2>1 DEF Slot, MembersOf
  <2>3. QED
    BY <1>0, <1>1, <2>2 DEF NotMixed, ReportedOnce
<1>4. CASE EndOfCapture
  <2>1. Slot' = {"reported"} \X (DOMAIN observations')
    BY <1>0, <1>4, EndSlots
  <2>2. PICK from \in [DOMAIN observations' -> Slot] :
          /\ \A i, j \in DOMAIN observations' : from[i] = from[j] => i = j
          /\ \A i \in DOMAIN observations' : observations'[i].members = MembersOf(from[i])
    BY <1>0, <1>4, EndSlots
  <2>3. ASSUME NEW a \in Slot'
        PROVE  \E n \in DOMAIN observations' :
                 a = <<"reported", n>> /\ MembersOf(a)' = MembersOf(from[n])
    BY <2>1, <2>2 DEF MembersOf
  <2>4. \A n \in DOMAIN observations' : \A i \in MembersOf(from[n]) : owner'[i] = owner[i]
    BY <1>1, <2>2
  <2>5. ASSUME NEW a \in Slot', NEW i \in MembersOf(a)', NEW j \in MembersOf(a)'
        PROVE  owner'[i] = owner'[j]
    BY <1>0, <2>2, <2>3, <2>4 DEF NotMixed
  <2>6. ASSUME NEW a \in Slot', NEW b \in Slot',
               NEW i \in MembersOf(a)', NEW j \in MembersOf(b)', owner'[i] = owner'[j]
        PROVE  a = b
    <3>1. PICK n \in DOMAIN observations' :
                 a = <<"reported", n>> /\ MembersOf(a)' = MembersOf(from[n])
      BY <2>3
    <3>2. PICK m \in DOMAIN observations' :
                 b = <<"reported", m>> /\ MembersOf(b)' = MembersOf(from[m])
      BY <2>3
    <3>3. owner[i] = owner[j] /\ from[n] \in Slot /\ from[m] \in Slot
      BY <2>2, <2>4, <2>6, <3>1, <3>2
    <3>4. from[n] = from[m]
      BY <1>0, <3>1, <3>2, <3>3 DEF ReportedOnce
    <3>5. QED
      BY <2>2, <3>1, <3>2, <3>4
  <2>7. QED
    BY <2>5, <2>6 DEF NotMixed, ReportedOnce
<1>5. QED
  BY <1>2, <1>3, <1>4, AtIsPacket DEF TNext, TcpPacket, OtherPacket, OnPacket

LEMMA Stutter == TInv /\ UNCHANGED tvars => TInv'
<1> SUFFICES ASSUME TInv, UNCHANGED tvars PROVE TInv'
  OBVIOUS
<1>1. FInv'
  BY StutterFInv DEF TInv, tvars
<1>2. Slot' = Slot /\ \A s : MembersOf(s)' = MembersOf(s)
  BY DEF tvars, vars, Slot, MembersOf
<1>3. \A i : InSession(i)' <=> InSession(i)
  BY <1>2 DEF InSession
<1>4. /\ capture' = capture /\ open' = open /\ recentlyClosed' = recentlyClosed
      /\ done' = done /\ clock' = clock /\ tcp' = tcp /\ owner' = owner
  BY DEF tvars, vars
<1>5. OwnersTyped' /\ OwnersNumbered' /\ OpenIsPresent' /\ Phases'
  BY <1>4 DEF TInv, OwnersTyped, OwnersNumbered, OpenIsPresent, Phases, PhaseOf
<1>6. Represented'
  BY <1>3, <1>4 DEF TInv, Represented, HasSession
<1>7. NotMixed' /\ ReportedOnce'
  BY <1>2, <1>4 DEF TInv, NotMixed, ReportedOnce
<1>8. QED
  BY <1>1, <1>5, <1>6, <1>7 DEF TInv

LEMMA TInductive ==
  ASSUME Teardown <= Grace, Grace < Reuse
  PROVE  TInv /\ [TNext]_tvars => TInv'
<1>1. ASSUME TInv, TNext PROVE TInv'
  <2>1. FInv'
    BY <1>1, StepOfFlow, Inductive DEF TInv
  <2>2. QED
    BY <1>1, <2>1, OwnersStep, OpenStep, PhasesStep, RepresentedStep, OneToOneStep
       DEF TInv
<1>2. QED
  BY <1>1, Stutter

LEMMA TInvariance ==
  ASSUME Teardown <= Grace, Grace < Reuse
  PROVE  TSpec => []TInv
<1>1. TInv /\ [TNext]_tvars => TInv'
  BY TInductive
<1>2. QED
  BY <1>1, InitTInv, PTL DEF TSpec

----------------------------------------------------------------------------
(* The theorems *)

\* Reading TCP traffic is reading packets: what holds of FlowAssembly for every
\* capture file holds here.
THEOREM TrafficIsCapture == TSpec => Spec
<1>1. TInit => Init
  BY DEF TInit
<1>2. [TNext]_tvars => [Next]_vars
  BY StepOfFlow DEF tvars
<1>3. QED
  BY <1>1, <1>2, PTL DEF TSpec, Spec

\* A connection that ends within the grace period of its first FIN is reported
\* once, not once per teardown packet (tls_egress.py:49-61).
THEOREM OneReportPerConnection ==
  ASSUME Teardown <= Grace, Grace < Reuse
  PROVE  TSpec => []ReportedOnce
<1>1. TInv => ReportedOnce
  BY DEF TInv
<1>2. TSpec => []TInv
  BY TInvariance
<1>3. QED
  BY <1>1, <1>2, PTL

\* And no session mixes two connections that used the same port one after the
\* other (tls_egress.py:59-60).
THEOREM OneConnectionPerReport ==
  ASSUME Teardown <= Grace, Grace < Reuse
  PROVE  TSpec => []NotMixed
<1>1. TInv => NotMixed
  BY DEF TInv
<1>2. TSpec => []TInv
  BY TInvariance
<1>3. QED
  BY <1>1, <1>2, PTL

\* And no connection goes missing, though its tail is dropped
\* (tls_egress.py:128-132 and 162-165).
THEOREM NoConnectionMissed ==
  ASSUME Teardown <= Grace, Grace < Reuse
  PROVE  TSpec => []EveryConnectionReported
<1>1. ASSUME TInv PROVE EveryConnectionReported
  <2>1. DOMAIN owner = DOMAIN capture
    BY <1>1 DEF TInv, FInv, TypeOK, OwnersTyped
  <2>2. ASSUME NEW i \in DOMAIN owner, owner[i] # None
        PROVE  \E a \in Slot : \E j \in MembersOf(a) : owner[j] = owner[i]
    <3>1. i \in DOMAIN capture /\ OnPort(capture[i])
      BY <1>1, <2>1, <2>2 DEF TInv, OwnersNumbered
    <3>2. HasSession(owner[i])
      BY <1>1, <3>1 DEF TInv, Represented
    <3>3. QED
      BY <3>2 DEF HasSession, InSession
  <2>3. QED
    BY <2>2 DEF EveryConnectionReported
<1>2. TSpec => []TInv
  BY TInvariance
<1>3. TInv => EveryConnectionReported
  BY <1>1
<1>4. QED
  BY <1>2, <1>3, PTL

=============================================================================
