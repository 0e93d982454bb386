---------------------------- MODULE MCFilterSpec ----------------------------
(* Every specification over small sets of texts, reached by setting one      *)
(* field after another.  For each, the compiled program is compared with     *)
(* direct evaluation, packet by packet.                                      *)
EXTENDS Selector

CONSTANTS a4, b4, part

MCAllProtos == <<"Tcp", "Udp", "Icmp", "Arp", "Other">>
MCAllSides == <<"Either", "Source", "Destination">>
MCWithin == [t \in {part} |-> {a4, b4}]
=============================================================================
