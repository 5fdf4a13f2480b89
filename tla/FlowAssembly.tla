---------------------------- MODULE FlowAssembly ----------------------------
(***************************************************************************)
(* How collectors/tls_egress.py, from_pcap, turns the packets of one       *)
(* capture file into sessions.  Packets are read in file order; each one   *)
(* is skipped (another port), ignored (the tail of a connection already    *)
(* reported), or added to the open session of its connection key, and a    *)
(* FIN or RST reports that session.  At the end of the file the sessions   *)
(* still open are reported too and the list is sorted by start time.       *)
(*                                                                         *)
(* Time is in ticks.  Nothing is assumed about the order of the time       *)
(* stamps in this module: the file is what it is, and a capture taken      *)
(* while the clock is being set has time stamps that go back.              *)
(*                                                                         *)
(* `capture' is the part of the file read so far.  The code keeps nothing  *)
(* of it; the field `members' of a session (the positions in the file of   *)
(* the packets it counted) is history too.  Both are there so that the     *)
(* properties can relate what is reported to what was on the wire.         *)
(***************************************************************************)
EXTENDS Integers, Sequences, FiniteSets

CONSTANTS
  Endpoint,    \* the (address, port) pairs seen on the wire, [host, port]
  Port,        \* the monitored server port (443)
  Grace,       \* CLOSED_FLOW_GRACE_S, in ticks
  Instant,     \* the time stamps a packet may carry
  Name,        \* the server names a ClientHello may ask for
  Shape,       \* what a packet may be, its time stamp aside
  MaxPackets,  \* bound: packets in one capture file
  Opaque,      \* a payload that parse_sni finds no name in
  None         \* Python's None: no entry, no session, no name; no payload

PacketShape ==
  [src : Endpoint, dst : Endpoint, len : Nat,
   payload : Name \cup {Opaque, None}, closing : BOOLEAN]

ASSUME GraceAssumption == Grace \in Nat
ASSUME InstantAssumption == Instant \subseteq Nat
ASSUME ShapeAssumption == Shape \subseteq PacketShape

Packet ==
  [src : Endpoint, dst : Endpoint, len : Nat,
   payload : Name \cup {Opaque, None}, closing : BOOLEAN, ts : Instant]

At(shape, t) ==
  [src |-> shape.src, dst |-> shape.dst, len |-> shape.len,
   payload |-> shape.payload, closing |-> shape.closing, ts |-> t]

\* A connection key is <<client, server>>.  Only keys whose server side is
\* the monitored port are ever built.
Key == {k \in Endpoint \X Endpoint : k[2].port = Port}

VARIABLES
  capture,        \* history: the packets read so far, in file order
  open,           \* open_sessions
  recentlyClosed, \* recently_closed
  observations,   \* observations, in the order they were appended
  done            \* the function has returned

vars == <<capture, open, recentlyClosed, observations, done>>

Session ==
  [key : Key, start : Instant, last : Instant, bytes : Nat,
   sni : Name \cup {None}, members : SUBSET Nat]

Observation ==
  [ts : Instant, subject : {e.host : e \in Endpoint},
   dst : {e.host : e \in Endpoint}, dport : {Port}, bytes : Nat,
   duration : Int, sni : Name \cup {None}, key : Key, members : SUBSET Nat]

ASSUME NoneAssumption ==
  /\ None \notin Name
  /\ None \notin Instant
  /\ None \notin Session
  /\ None # Opaque
  /\ Opaque \notin Name

----------------------------------------------------------------------------
(* The handling of one packet *)

OnPort(p) == p.dst.port = Port \/ p.src.port = Port

KeyNoFold(p) == <<p.src, p.dst>>

KeyOf(p) == IF p.dst.port = Port THEN <<p.src, p.dst>> ELSE <<p.dst, p.src>>

IsTailStrict(p) ==
  /\ recentlyClosed[KeyOf(p)] # None
  /\ p.ts - recentlyClosed[KeyOf(p)] < Grace

NeverTail(p) == FALSE

\* The tail of a connection that has been reported.
IsTail(p) ==
  /\ recentlyClosed[KeyOf(p)] # None
  /\ p.ts - recentlyClosed[KeyOf(p)] <= Grace

NameInAnything(payload) == payload

\* parse_sni: the server name asked for, if the payload is a ClientHello.
NameIn(payload) == IF payload \in Name THEN payload ELSE None

NewSession(k, t) ==
  [key |-> k, start |-> t, last |-> t, bytes |-> 0, sni |-> None,
   members |-> {}]

CountedLastName(s, p, i) ==
  [s EXCEPT !.last = p.ts, !.bytes = @ + p.len,
            !.sni = IF p.payload # None THEN NameIn(p.payload) ELSE @,
            !.members = @ \cup {i}]

\* Session s after packet p, the i-th of the file.
Counted(s, p, i) ==
  [s EXCEPT !.last = p.ts, !.bytes = @ + p.len,
            !.sni = IF @ = None /\ p.payload # None
                    THEN NameIn(p.payload) ELSE @,
            !.members = @ \cup {i}]

\* The session packet p is added to, p included.
SessionWith(p) ==
  LET k == KeyOf(p)
      s == IF open[k] = None THEN NewSession(k, p.ts) ELSE open[k]
  IN  Counted(s, p, Len(capture) + 1)

\* close_session: the record appended for a session.  Only the addresses
\* and the server port survive; the client's port is not reported.
Report(s) ==
  [ts |-> s.start, subject |-> s.key[1].host, dst |-> s.key[2].host,
   dport |-> s.key[2].port, bytes |-> s.bytes,
   duration |-> s.last - s.start, sni |-> s.sni,
   key |-> s.key, members |-> s.members]

----------------------------------------------------------------------------
(* Actions *)

Init ==
  /\ capture = <<>>
  /\ open = [k \in Key |-> None]
  /\ recentlyClosed = [k \in Key |-> None]
  /\ observations = <<>>
  /\ done = FALSE

\* The next packet of the file.
Read(p) ==
  /\ ~done
  /\ Len(capture) < MaxPackets
  /\ capture' = Append(capture, p)
  /\ UNCHANGED done

\* Neither port is the monitored one.
SkipOtherTraffic(p) ==
  /\ Read(p)
  /\ ~OnPort(p)
  /\ UNCHANGED <<open, recentlyClosed, observations>>

\* A packet too soon after its connection was reported.
IgnoreTail(p) ==
  /\ Read(p)
  /\ OnPort(p)
  /\ IsTail(p)
  /\ UNCHANGED <<open, recentlyClosed, observations>>

\* A packet of an open session, or the first packet of a new one.
Extend(p) ==
  /\ Read(p)
  /\ OnPort(p)
  /\ ~IsTail(p)
  /\ ~p.closing
  /\ open' = [open EXCEPT ![KeyOf(p)] = SessionWith(p)]
  /\ recentlyClosed' = [recentlyClosed EXCEPT ![KeyOf(p)] = None]
  /\ UNCHANGED observations

CloseKeepOpen(p) ==
  /\ Read(p)
  /\ OnPort(p)
  /\ ~IsTail(p)
  /\ p.closing
  /\ observations' = Append(observations, Report(SessionWith(p)))
  /\ open' = [open EXCEPT ![KeyOf(p)] = SessionWith(p)]
  /\ recentlyClosed' = [recentlyClosed EXCEPT ![KeyOf(p)] = p.ts]

\* A FIN or RST: the session is reported and its key remembered.
Close(p) ==
  /\ Read(p)
  /\ OnPort(p)
  /\ ~IsTail(p)
  /\ p.closing
  /\ observations' = Append(observations, Report(SessionWith(p)))
  /\ open' = [open EXCEPT ![KeyOf(p)] = None]
  /\ recentlyClosed' = [recentlyClosed EXCEPT ![KeyOf(p)] = p.ts]

\* The ways of listing a finite set.
Listings(S) ==
  {f \in [1..Cardinality(S) -> S] :
     /\ IsFiniteSet(S)
     /\ \A i, j \in DOMAIN f : f[i] = f[j] => i = j
     /\ \A x \in S : \E i \in DOMAIN f : f[i] = x}

Rearrangements(s) ==
  {[i \in DOMAIN s |-> s[p[i]]] : p \in Listings(DOMAIN s)}

InStartOrder(s) == \A i, j \in DOMAIN s : i < j => s[i].ts <= s[j].ts

EndNoSort ==
  /\ ~done
  /\ \E rest \in Listings({Report(open[k]) : k \in {x \in Key : open[x] # None}}) :
       observations' = observations \o rest
  /\ open' = [k \in Key |-> None]
  /\ done' = TRUE
  /\ UNCHANGED <<capture, recentlyClosed>>

EndDropOpen ==
  /\ ~done
  /\ observations' \in {s \in Rearrangements(observations) : InStartOrder(s)}
  /\ open' = [k \in Key |-> None]
  /\ done' = TRUE
  /\ UNCHANGED <<capture, recentlyClosed>>

\* End of file: the sessions still open are reported and the list is sorted
\* by start time.  Among equal start times any order is allowed (the sort is
\* stable, over an order no property depends on).  open_sessions is a local
\* of the function, gone once it has returned.
EndOfCapture ==
  /\ ~done
  /\ \E rest \in Listings({Report(open[k]) : k \in {x \in Key : open[x] # None}}) :
       observations' \in
         {s \in Rearrangements(observations \o rest) : InStartOrder(s)}
  /\ open' = [k \in Key |-> None]
  /\ done' = TRUE
  /\ UNCHANGED <<capture, recentlyClosed>>

OnPacket(p) ==
  \/ SkipOtherTraffic(p)
  \/ IgnoreTail(p)
  \/ Extend(p)
  \/ Close(p)

Next ==
  \/ \E shape \in Shape, t \in Instant : OnPacket(At(shape, t))
  \/ EndOfCapture

Spec == Init /\ [][Next]_vars

----------------------------------------------------------------------------
(* Properties *)

\* Types: every session, open or reported, has the fields from_pcap gives it.
TypeOK ==
  /\ capture \in Seq(Packet)
  /\ open \in [Key -> Session \cup {None}]
  /\ recentlyClosed \in [Key -> Instant \cup {None}]
  /\ observations \in Seq(Observation)
  /\ done \in BOOLEAN

\* The sessions there are: those reported, by position, and those open.
Slot == ({"reported"} \X (DOMAIN observations))
          \cup ({"open"} \X {k \in Key : open[k] # None})

MembersOf(slot) == IF slot[1] = "open" THEN open[slot[2]].members
                                       ELSE observations[slot[2]].members

KeyOfSlot(slot) == IF slot[1] = "open" THEN slot[2]
                                       ELSE observations[slot[2]].key

\* No packet is counted in two sessions, and a session counts packets of
\* its own connection key only: the interleaving of many connections in
\* one file, and the reuse of a key after its session was reported, never
\* make two sessions share traffic (tls_egress.py:113-160).
PacketsNotShared ==
  \A a, b \in Slot :
    /\ \A i \in MembersOf(a) :
         /\ i \in DOMAIN capture
         /\ OnPort(capture[i])
         /\ KeyOf(capture[i]) = KeyOfSlot(a)
    /\ a # b => MembersOf(a) \cap MembersOf(b) = {}

\* A packet of the file that no session counts is either traffic on another
\* port, or came within the grace period of a FIN or RST that did end a
\* session of the same key: nothing else is ever dropped
\* (tls_egress.py:116 and 129-133).
DroppedOnlyAsTail ==
  \A i \in DOMAIN capture :
    \/ ~OnPort(capture[i])
    \/ \E a \in Slot : i \in MembersOf(a)
    \/ \E j \in 1..(i-1) :
         /\ capture[j].closing
         /\ OnPort(capture[j])
         /\ KeyOf(capture[j]) = KeyOf(capture[i])
         /\ \E n \in DOMAIN observations : j \in observations[n].members
         /\ capture[i].ts - capture[j].ts <= Grace

First(S) == CHOOSE i \in S : \A j \in S : i <= j

Counts(members, i) == IF i \in members THEN capture[i].len ELSE 0

\* The bytes of the packets at the positions in `members'.
BytesOf(members) ==
  LET total[i \in 0..Len(capture)] ==
        IF i = 0 THEN 0 ELSE total[i - 1] + Counts(members, i)
  IN  total[Len(capture)]

\* A reported session is the summary of exactly the packets it counted: it
\* starts with the first of them and ends with the last, its bytes are
\* theirs, and its server name is the first any of them asked for
\* (tls_egress.py:135-155).
SessionsSummariseTheirPackets ==
  \A n \in DOMAIN observations :
    LET o == observations[n]
        named == {i \in o.members : capture[i].payload \in Name}
    IN  /\ \E first, final \in o.members :
             /\ \A i \in o.members : first <= i /\ i <= final
             /\ o.ts = capture[first].ts
             /\ o.duration = capture[final].ts - capture[first].ts
        /\ o.bytes = BytesOf(o.members)
        /\ IF named = {} THEN o.sni = None ELSE o.sni = capture[First(named)].payload

\* The report is in order of the sessions' starts, though it is built in the
\* order of their ends: the baseline and the cadence rule read it as a time
\* line (tls_egress.py:167).
ReportInStartOrder == done => InStartOrder(observations)

\* A key is never open and in its grace period at once, so a late packet is
\* never both ignored and due to an open session.
OpenOrClosed == \A k \in Key : open[k] = None \/ recentlyClosed[k] = None

=============================================================================
