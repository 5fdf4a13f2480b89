--------------------------- MODULE FlowAssemblyMC ---------------------------
(***************************************************************************)
(* FlowAssembly over every capture file of a few packets: two connections  *)
(* of one device to the vendor cloud, traffic on another port, packets in  *)
(* both directions, and time stamps in any order.                          *)
(***************************************************************************)
EXTENDS FlowAssembly

CONSTANTS vendor, other   \* two server names

At443 == [host |-> "cloud", port |-> 443]
At80 == [host |-> "cloud", port |-> 80]
Client1 == [host |-> "inverter", port |-> 50001]
Client2 == [host |-> "inverter", port |-> 50002]

MCEndpoint == {At443, At80, Client1, Client2}
MCInstant == 0..4
MCName == {vendor, other}

MCShape ==
  {[src |-> Client1, dst |-> At443, len |-> 2, payload |-> vendor, closing |-> FALSE],
   [src |-> At443, dst |-> Client1, len |-> 3, payload |-> Opaque, closing |-> FALSE],
   [src |-> At443, dst |-> Client1, len |-> 1, payload |-> None, closing |-> TRUE],
   [src |-> Client2, dst |-> At443, len |-> 2, payload |-> other, closing |-> TRUE],
   [src |-> Client2, dst |-> At80, len |-> 2, payload |-> None, closing |-> FALSE]}

=============================================================================
