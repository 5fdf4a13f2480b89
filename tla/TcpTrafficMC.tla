---------------------------- MODULE TcpTrafficMC ----------------------------
(***************************************************************************)
(* TcpTraffic over two connections of one device, on two client ports, the *)
(* first one's packets in both directions.                                 *)
(***************************************************************************)
EXTENDS TcpTraffic

CONSTANTS vendor, MaxInstant

At443 == [host |-> "cloud", port |-> 443]
At80 == [host |-> "cloud", port |-> 80]
Client1 == [host |-> "inverter", port |-> 50001]
Client2 == [host |-> "inverter", port |-> 50002]

MCEndpoint == {At443, At80, Client1, Client2}
MCInstant == 0..MaxInstant
MCName == {vendor}

\* A request and a FIN from the client, a response and a FIN from the
\* server; a RST on the other port; and traffic on port 80.
MCShape ==
  {[src |-> Client1, dst |-> At443, len |-> 2, payload |-> vendor, closing |-> FALSE],
   [src |-> At443, dst |-> Client1, len |-> 3, payload |-> Opaque, closing |-> FALSE],
   [src |-> Client1, dst |-> At443, len |-> 1, payload |-> None, closing |-> TRUE],
   [src |-> Client2, dst |-> At443, len |-> 2, payload |-> None, closing |-> TRUE],
   [src |-> Client1, dst |-> At80, len |-> 2, payload |-> None, closing |-> FALSE]}

=============================================================================
