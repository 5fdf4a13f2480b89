----------------------------- MODULE TcpTraffic -----------------------------
(***************************************************************************)
(* FlowAssembly reading the traffic of real TCP connections.               *)
(*                                                                         *)
(* The comment on CLOSED_FLOW_GRACE_S (tls_egress.py:49-60) rests on two   *)
(* facts about the traffic: teardown is over within the grace period of    *)
(* the first FIN, and the same client port is not used again so soon.      *)
(* This module says it as an environment: a connection ends within         *)
(* Teardown of its first FIN or RST, and its client port is idle for at    *)
(* least Reuse before it is used again.  Under the relation between these  *)
(* and Grace that the comment claims, what is reported is exactly the      *)
(* connections there were.                                                 *)
(*                                                                         *)
(* The environment also assumes that the capture holds a FIN or RST of     *)
(* every connection whose port is used again, and that time stamps do not  *)
(* go back.                                                                *)
(***************************************************************************)
EXTENDS FlowAssembly

CONSTANTS
  Teardown,  \* longest time from the first FIN to the last packet
  Reuse      \* least idle time of a client port between connections

ASSUME TrafficAssumption == Teardown \in Nat /\ Reuse \in Nat

\* A client uses a port of its own, never the monitored one, and every
\* packet goes between a client and a server.
ASSUME ClientPortAssumption ==
  \A shape \in Shape : ~(shape.src.port = Port /\ shape.dst.port = Port)

VARIABLES
  clock,  \* the time stamp of the last packet
  tcp,    \* for each key, the connection that uses it now
  owner   \* history: for each packet of the file, the connection it is of

tvars == <<vars, clock, tcp, owner>>

\* nth: how many connections have used the key; firstFin, last: when the
\* present one was first seen ending, and last seen at all.
TcpState ==
  [nth : Nat, firstFin : Instant \cup {None}, last : Instant \cup {None}]

Unused == [nth |-> 0, firstFin |-> None, last |-> None]

TInit ==
  /\ Init
  /\ clock = 0
  /\ tcp = [k \in Key |-> Unused]
  /\ owner = <<>>

\* A packet of the connection that uses key k now.
Continues(k, p) ==
  /\ tcp[k].nth > 0
  /\ tcp[k].firstFin # None => p.ts - tcp[k].firstFin <= Teardown
  /\ tcp' = [tcp EXCEPT
       ![k].firstFin = IF @ = None /\ p.closing THEN p.ts ELSE @,
       ![k].last = p.ts]

\* The first captured packet of a new connection with key k.
Starts(k, p) ==
  /\ \/ tcp[k].nth = 0
     \/ tcp[k].firstFin # None /\ p.ts - tcp[k].last >= Reuse
  /\ tcp' = [tcp EXCEPT ![k] =
       [nth |-> @.nth + 1,
        firstFin |-> IF p.closing THEN p.ts ELSE None,
        last |-> p.ts]]

\* The file's next packet is of the connection it belongs to on the wire.
TcpPacket(p) ==
  /\ p.ts >= clock
  /\ clock' = p.ts
  /\ OnPort(p)
  /\ Continues(KeyOf(p), p) \/ Starts(KeyOf(p), p)
  /\ owner' = Append(owner, <<KeyOf(p), tcp'[KeyOf(p)].nth>>)
  /\ OnPacket(p)

OtherPacket(p) ==
  /\ p.ts >= clock
  /\ clock' = p.ts
  /\ owner' = Append(owner, None)
  /\ SkipOtherTraffic(p)
  /\ UNCHANGED tcp

TNext ==
  \/ \E shape \in Shape, t \in Instant : TcpPacket(At(shape, t))
  \/ \E shape \in Shape, t \in Instant : OtherPacket(At(shape, t))
  \/ EndOfCapture /\ UNCHANGED <<clock, tcp, owner>>

TSpec == TInit /\ [][TNext]_tvars

----------------------------------------------------------------------------
(* Properties *)

\* One TCP connection is reported once: no two sessions count packets of
\* the same connection (tests/test_pcap.py:252, tls_egress.py:49-60).
ReportedOnce ==
  \A a, b \in Slot : \A i \in MembersOf(a), j \in MembersOf(b) :
    owner[i] = owner[j] => a = b

\* A session is one connection: it never mixes the traffic of two
\* connections that used the same client port one after the other.
NotMixed ==
  \A a \in Slot : \A i, j \in MembersOf(a) : owner[i] = owner[j]

\* Every connection seen on the monitored port is reported, or still open.
EveryConnectionReported ==
  \A i \in DOMAIN owner :
    owner[i] # None => \E a \in Slot : \E j \in MembersOf(a) : owner[j] = owner[i]

\* Every payload of a connection is counted in its session (the docstring of
\* from_pcap: `bytes' counts the whole conversation).
PayloadsAllCounted ==
  done =>
    \A i \in DOMAIN capture :
      (OnPort(capture[i]) /\ capture[i].payload # None)
        => \E n \in DOMAIN observations : i \in observations[n].members

=============================================================================
