------------------------------ MODULE FilterSpec ------------------------------
(***************************************************************************)
(* The structured selector: one specification of source, destination,      *)
(* protocol and port, evaluated over packets already held and compiled to  *)
(* a program for the kernel (src/filter.rs), and what libpcap makes of     *)
(* such a program.                                                         *)
(*                                                                         *)
(* Texts are taken after trim().  A host text is empty, an address, or a   *)
(* part of one; a port text is empty, a number of 16 bits, or anything     *)
(* else.  A packet is what decode() and the kernel's primitives look at,   *)
(* which is not the same.                                                  *)
(***************************************************************************)
EXTENDS Naturals, Sequences

CONSTANTS
    AllProtos,  \* ALL_PROTOS, or some of it, in the order the form cycles through
    AllSides,   \* the port sides, or some of them, in the order of PortSide::next
    Addrs,      \* addresses
    V6,         \* those of them that are IPv6
    Parts,      \* host texts that parse as no address
    Within,     \* for each part, the addresses whose text contains it
    Ports,      \* port numbers
    PortWords,  \* port texts that are no number of 16 bits
    Unset,      \* an empty text, or no protocol
    Absent      \* a packet without addresses, or without ports

Protos == {AllProtos[i] : i \in DOMAIN AllProtos}
Sides == {AllSides[i] : i \in DOMAIN AllSides}
ProtoNames == {"Tcp", "Udp", "Icmp", "Arp", "Other"}

ASSUME FilterAssumption ==
    /\ AllProtos \in Seq(ProtoNames)
    /\ AllSides \in Seq({"Either", "Source", "Destination"}) /\ "Either" \in Sides
    /\ V6 \subseteq Addrs
    /\ Within \in [Parts -> SUBSET Addrs]
    /\ Unset \notin Addrs \cup Parts \cup Ports \cup PortWords \cup ProtoNames
    /\ Absent \notin Addrs \cup Ports
    /\ Addrs \cap Parts = {} /\ Ports \cap PortWords = {}

HostTexts == {Unset} \cup Addrs \cup Parts
PortTexts == {Unset} \cup Ports \cup PortWords

FilterSpecs == [source : HostTexts, destination : HostTexts,
                protocol : {Unset} \cup Protos, port : PortTexts, port_side : Sides]

Default == [source |-> Unset, destination |-> Unset, protocol |-> Unset,
            port |-> Unset, port_side |-> "Either"]

IsEmpty(spec) ==
    \A f \in {"source", "destination", "protocol", "port"} : spec[f] = Unset

-------------------------------------------------------------------------------
(* Packets on a link type that decode() knows, as they stand in the frame.   *)
(* Left out: fragments, frames cut short, RARP, ARP for anything but IPv4,   *)
(* and SCTP, whose ports libpcap looks at and decode() does not.             *)

\* What the headers of a packet end in; IGMP and everything unknown is "Other".
Transports == {"Tcp", "Udp", "Icmp", "Icmp6", "Other"}

RawPacket == [
    net : {"Ip4", "Ip6", "Arp", "None"},
    src : Addrs \cup {Absent}, dst : Addrs \cup {Absent},
    next : Transports \cup {"Extension"},  \* what the IP header says follows it
    last : Transports,                     \* what follows the last extension header
    sport : Ports \cup {Absent}, dport : Ports \cup {Absent},
    tagged : BOOLEAN]                      \* a VLAN tag is in the frame the filter runs on

WholePackets ==
    {p \in RawPacket :
        /\ p.net = "None" <=> p.src = Absent
        /\ p.net = "None" <=> p.dst = Absent
        /\ p.net = "Ip6" <=> p.src \in V6
        /\ p.net = "Ip6" <=> p.dst \in V6
        /\ p.next \in {p.last, "Extension"}
        /\ p.net \in {"Arp", "None"} => p.next = "Other" /\ p.last = "Other"
        /\ \A port \in {p.sport, p.dport} : port # Absent <=> p.last \in {"Tcp", "Udp"}}

\* decode(): tags and extension headers (IPv6 options and routing, IPv4 authentication)
\* are followed to the end, and either ICMP is ICMP.
Decoded(p) ==
    [proto |-> CASE p.net = "Arp" -> "Arp"
                 [] p.net # "Arp" /\ p.last \in {"Icmp", "Icmp6"} -> "Icmp"
                 [] p.net # "Arp" /\ p.last \notin {"Icmp", "Icmp6"} -> p.last,
     src |-> p.src, dst |-> p.dst, sport |-> p.sport, dport |-> p.dport]

-------------------------------------------------------------------------------
(* Evaluated over a packet already captured: matches().                     *)

HostMatches(text, addr) ==
    \/ text = Unset
    \/ text \in Addrs /\ addr = text
    \/ text \in Parts /\ addr # Absent /\ addr \in Within[text]

PortMatches(spec, p) ==
    LET from == p.sport = spec.port
        to == p.dport = spec.port
    IN  CASE spec.port_side = "Either" -> from \/ to
          [] spec.port_side = "Source" -> from
          [] spec.port_side = "Destination" -> to

\* A port that is no number yet lets everything through.
Matches(spec, p) ==
    /\ spec.protocol = Unset \/ p.proto = spec.protocol
    /\ HostMatches(spec.source, p.src)
    /\ HostMatches(spec.destination, p.dst)
    /\ spec.port \in Ports => PortMatches(spec, p)

-------------------------------------------------------------------------------
(* Compiled for the kernel: to_bpf().  A program is its primitives in order, *)
(* each with the word that joins it to what stands before.                   *)

Term(join, negated, kind, arg) ==
    [join |-> join, negated |-> negated, kind |-> kind, arg |-> arg]

And(kind, arg) == <<Term("and", FALSE, kind, arg)>>
Or(kind) == <<Term("or", FALSE, kind, Unset)>>
Not(kind) == <<Term("and", TRUE, kind, Unset)>>

\* The cases to_bpf refuses before libpcap sees them.
Refused(spec) ==
    \/ spec.source \in Parts \/ spec.destination \in Parts
    \/ spec.port \in PortWords
    \/ spec.port # Unset /\ spec.protocol \in {"Arp", "Icmp"}

HostPart(keyword, text) == IF text = Unset THEN <<>> ELSE And(keyword, text)

\* Faulty: one of the protocols "Other" is defined against is forgotten.
NoneNamedButIcmp6 == Not("tcp") \o Not("udp") \o Not("icmp") \o Not("arp")

NoneNamed == Not("tcp") \o Not("udp") \o Not("icmp") \o Not("icmp6") \o Not("arp")

\* bpf_protocol
ProtocolPart(protocol) ==
    CASE protocol = Unset -> <<>>
      [] protocol = "Tcp" -> And("tcp", Unset)
      [] protocol = "Udp" -> And("udp", Unset)
      [] protocol = "Icmp" -> And("icmp", Unset) \o Or("icmp6")
      [] protocol = "Arp" -> And("arp", Unset)
      [] protocol = "Other" -> NoneNamed

\* Faulty: "either" is compiled to one side.
PortPartOneSided(spec) ==
    CASE spec.port = Unset -> <<>>
      [] spec.port # Unset /\ spec.port_side = "Destination" -> And("dst port", spec.port)
      [] OTHER -> And("src port", spec.port)

PortPart(spec) ==
    CASE spec.port = Unset -> <<>>
      [] spec.port # Unset /\ spec.port_side = "Either" -> And("port", spec.port)
      [] spec.port # Unset /\ spec.port_side = "Source" -> And("src port", spec.port)
      [] spec.port # Unset /\ spec.port_side = "Destination" -> And("dst port", spec.port)

\* The parts, joined with "and"; an empty specification is the empty program.
ToBpf(spec) ==
    HostPart("src host", spec.source) \o HostPart("dst host", spec.destination)
        \o ProtocolPart(spec.protocol) \o PortPart(spec)

-------------------------------------------------------------------------------
(* libpcap's reading of a program (external).  A primitive looks at fixed    *)
(* places of the frame: no tag is skipped, and no extension header.          *)

Carries(p, transports) == ~p.tagged /\ p.next \in transports

Holds(term, p) ==
    CASE term.kind = "src host" -> ~p.tagged /\ p.src = term.arg
      [] term.kind = "dst host" -> ~p.tagged /\ p.dst = term.arg
      [] term.kind = "tcp" -> Carries(p, {"Tcp"})
      [] term.kind = "udp" -> Carries(p, {"Udp"})
      [] term.kind = "icmp" -> p.net = "Ip4" /\ Carries(p, {"Icmp"})
      [] term.kind = "icmp6" -> p.net = "Ip6" /\ Carries(p, {"Icmp6"})
      [] term.kind = "arp" -> ~p.tagged /\ p.net = "Arp"
      [] term.kind = "port" -> Carries(p, {"Tcp", "Udp"}) /\ term.arg \in {p.sport, p.dport}
      [] term.kind = "src port" -> Carries(p, {"Tcp", "Udp"}) /\ p.sport = term.arg
      [] term.kind = "dst port" -> Carries(p, {"Tcp", "Udp"}) /\ p.dport = term.arg

TermHolds(term, p) == Holds(term, p) # term.negated

\* "and" and "or" have equal precedence and associate to the left: from the start, or
\* from an "or" that holds, every "and" that follows must hold.
Accepts(program, p) ==
    \E k \in 0..Len(program) :
        /\ k = 0 \/ (program[k].join = "or" /\ TermHolds(program[k], p))
        /\ \A j \in (k + 1)..Len(program) :
              program[j].join = "or" \/ TermHolds(program[j], p)
===============================================================================
