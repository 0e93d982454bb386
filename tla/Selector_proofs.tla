---------------------------- MODULE Selector_proofs ----------------------------
(***************************************************************************)
(* Theorems about the structured selector, for every set of addresses,     *)
(* partial texts, ports, protocols and sides: what the compiled program    *)
(* lets through and what direct evaluation shows.                          *)
(***************************************************************************)
EXTENDS Selector, SequenceTheorems, TLAPS

-------------------------------------------------------------------------------
(* Programs.                                                               *)

\* The primitives that to_bpf writes.
Kinds == {"src host", "dst host", "tcp", "udp", "icmp", "icmp6", "arp",
          "port", "src port", "dst port"}

Terms == [join : {"and", "or"}, negated : BOOLEAN, kind : Kinds, arg : HostTexts \cup PortTexts]

\* Programs without "or".
Conjunctions == {program \in Seq(Terms) : \A i \in DOMAIN program : program[i].join = "and"}

AllHold(program, p) == \A i \in DOMAIN program : TermHolds(program[i], p)

LEMMA ProgramFacts ==
    ASSUME NEW program \in Seq(Terms)
    PROVE  /\ Len(program) \in Nat /\ DOMAIN program = 1..Len(program)
           /\ \A i \in DOMAIN program : program[i] \in Terms
OBVIOUS

\* A program without "or" asks for all of its primitives.
LEMMA ConjunctionAccepts ==
    ASSUME NEW program \in Conjunctions, NEW p
    PROVE  Accepts(program, p) <=> AllHold(program, p)
<1>1. /\ program \in Seq(Terms)
      /\ \A i \in DOMAIN program : program[i].join = "and"
    BY DEF Conjunctions
<1>2. Len(program) \in Nat /\ DOMAIN program = 1..Len(program)
    BY <1>1
<1>3. ASSUME AllHold(program, p) PROVE Accepts(program, p)
    <2>1. 0 \in 0..Len(program) /\ \A j \in (0 + 1)..Len(program) : j \in DOMAIN program
        BY <1>2
    <2> QED BY <1>3, <2>1 DEF AllHold, Accepts
<1>4. ASSUME Accepts(program, p) PROVE AllHold(program, p)
    <2>1. PICK k \in 0..Len(program) :
              /\ k = 0 \/ program[k].join = "or"
              /\ \A j \in (k + 1)..Len(program) :
                    program[j].join = "or" \/ TermHolds(program[j], p)
        BY <1>4 DEF Accepts
    <2>2. k = 0
        BY <1>1, <1>2, <2>1
    <2>3. \A j \in 1..Len(program) : program[j].join # "or"
        BY <1>1, <1>2
    <2> QED BY <1>2, <2>1, <2>2, <2>3 DEF AllHold
<1> QED BY <1>3, <1>4

\* A last "or" lets through what the rest does, and what it holds of.
LEMMA LastOrAccepts ==
    ASSUME NEW program \in Conjunctions, NEW term \in Terms, term.join = "or", NEW p
    PROVE  Accepts(Append(program, term), p) <=> AllHold(program, p) \/ TermHolds(term, p)
<1> DEFINE n == Len(program)
           longer == Append(program, term)
<1>1. /\ program \in Seq(Terms)
      /\ \A i \in DOMAIN program : program[i].join = "and"
    BY DEF Conjunctions
<1>2. n \in Nat /\ DOMAIN program = 1..n
    BY <1>1
<1>3. /\ Len(longer) = n + 1 /\ longer[n + 1] = term
      /\ \A i \in 1..n : longer[i] = program[i]
    BY <1>1
<1> HIDE DEF n, longer
<1>4. ASSUME AllHold(program, p) PROVE Accepts(longer, p)
    <2>1. 0 \in 0..Len(longer)
        BY <1>2, <1>3
    <2>2. ASSUME NEW j \in (0 + 1)..Len(longer)
          PROVE  longer[j].join = "or" \/ TermHolds(longer[j], p)
        <3>1. CASE j \in 1..n
            BY <1>2, <1>3, <1>4, <3>1 DEF AllHold
        <3>2. CASE j = n + 1
            BY <1>3, <3>2
        <3> QED BY <1>2, <1>3, <3>1, <3>2
    <2> QED BY <2>1, <2>2 DEF Accepts
<1>5. ASSUME TermHolds(term, p) PROVE Accepts(longer, p)
    <2>1. n + 1 \in 0..Len(longer) /\ \A j \in (n + 1 + 1)..Len(longer) : FALSE
        BY <1>2, <1>3
    <2> QED BY <1>3, <1>5, <2>1 DEF Accepts
<1>6. ASSUME Accepts(longer, p) PROVE AllHold(program, p) \/ TermHolds(term, p)
    <2>1. PICK k \in 0..Len(longer) :
              /\ k = 0 \/ (longer[k].join = "or" /\ TermHolds(longer[k], p))
              /\ \A j \in (k + 1)..Len(longer) :
                    longer[j].join = "or" \/ TermHolds(longer[j], p)
        BY <1>6 DEF Accepts
    <2>2. CASE k = n + 1
        BY <1>2, <1>3, <2>1, <2>2
    <2>3. CASE k # n + 1
        <3>1. k \in 0..n
            BY <1>2, <1>3, <2>1, <2>3
        <3>2. k = 0
            BY <1>1, <1>2, <1>3, <2>1, <3>1
        <3>3. \A j \in 1..n : program[j].join # "or"
            BY <1>1, <1>2
        <3>4. \A j \in 1..n : TermHolds(program[j], p)
            BY <1>2, <1>3, <2>1, <3>2, <3>3
        <3> QED BY <1>2, <3>4 DEF AllHold
    <2> QED BY <2>2, <2>3
<1> QED BY <1>4, <1>5, <1>6 DEF longer

\* Joining conjunctions joins what they ask for.
LEMMA JoinedHold ==
    ASSUME NEW a \in Conjunctions, NEW b \in Conjunctions, NEW p
    PROVE  /\ a \o b \in Conjunctions
           /\ AllHold(a \o b, p) <=> AllHold(a, p) /\ AllHold(b, p)
<1>1. /\ a \in Seq(Terms) /\ \A i \in DOMAIN a : a[i].join = "and"
      /\ b \in Seq(Terms) /\ \A i \in DOMAIN b : b[i].join = "and"
    BY DEF Conjunctions
<1> DEFINE c == a \o b
<1>2. /\ Len(a) \in Nat /\ DOMAIN a = 1..Len(a)
      /\ Len(b) \in Nat /\ DOMAIN b = 1..Len(b)
    BY <1>1
<1>3. /\ c \in Seq(Terms) /\ Len(c) = Len(a) + Len(b)
      /\ \A i \in 1..Len(c) : c[i] = IF i <= Len(a) THEN a[i] ELSE b[i - Len(a)]
    BY <1>1
<1> HIDE DEF c
<1>4. /\ DOMAIN c = 1..Len(c)
      /\ \A i \in DOMAIN a : i \in DOMAIN c /\ c[i] = a[i]
      /\ \A i \in DOMAIN b : Len(a) + i \in DOMAIN c /\ c[Len(a) + i] = b[i]
    BY <1>2, <1>3
<1>5. \A i \in DOMAIN c : \/ i \in DOMAIN a /\ c[i] = a[i]
                          \/ i - Len(a) \in DOMAIN b /\ c[i] = b[i - Len(a)]
    BY <1>2, <1>3, <1>4
<1>6. c \in Conjunctions
    BY <1>1, <1>3, <1>5 DEF Conjunctions
<1>7. AllHold(c, p) <=> AllHold(a, p) /\ AllHold(b, p)
    <2>1. ASSUME AllHold(c, p) PROVE AllHold(a, p) /\ AllHold(b, p)
        BY <1>4, <2>1 DEF AllHold
    <2>2. ASSUME AllHold(a, p), AllHold(b, p) PROVE AllHold(c, p)
        BY <1>5, <2>2 DEF AllHold
    <2> QED BY <2>1, <2>2
<1> QED BY <1>6, <1>7 DEF c

LEMMA NoTerms == \A p : <<>> \in Conjunctions /\ AllHold(<<>>, p)
BY DEF Conjunctions, AllHold

\* One primitive.
LEMMA OneTerm ==
    ASSUME NEW negated \in BOOLEAN, NEW kind \in Kinds, NEW arg \in HostTexts \cup PortTexts, NEW p
    PROVE  /\ <<Term("and", negated, kind, arg)>> \in Conjunctions
           /\ AllHold(<<Term("and", negated, kind, arg)>>, p)
                 <=> TermHolds(Term("and", negated, kind, arg), p)
<1>1. Term("and", negated, kind, arg) \in Terms /\ Term("and", negated, kind, arg).join = "and"
    BY DEF Term, Terms
<1> QED BY <1>1 DEF Conjunctions, AllHold

-------------------------------------------------------------------------------
(* The parts of a compiled specification.                                  *)

LEMMA SidesNamed == \A s \in Sides : s \in {"Either", "Source", "Destination"}
<1>1. AllSides \in Seq({"Either", "Source", "Destination"})
    BY FilterAssumption DEF FilterAssumption
<1> QED BY <1>1 DEF Sides

LEMMA ProtosNamed == \A q \in Protos : q \in ProtoNames /\ q # Unset
<1>1. AllProtos \in Seq(ProtoNames) /\ Unset \notin ProtoNames
    BY FilterAssumption DEF FilterAssumption
<1> QED BY <1>1 DEF Protos

LEMMA TermsDecide ==
    ASSUME NEW arg, NEW p, NEW kind \in Kinds
    PROVE  Holds(Term("and", FALSE, kind, arg), p) \in BOOLEAN
<1>1. Term("and", FALSE, kind, arg).kind = kind
    BY DEF Term
<1>2. CASE kind \in {"src host", "dst host", "arp"}
    BY <1>1, <1>2 DEF Holds
<1>3. CASE kind \in {"tcp", "udp", "icmp", "icmp6"}
    BY <1>1, <1>3 DEF Holds, Carries
<1>4. CASE kind = "port"
    BY <1>1, <1>4 DEF Holds, Carries
<1>5. CASE kind \in {"src port", "dst port"}
    BY <1>1, <1>5 DEF Holds, Carries
<1> QED BY <1>2, <1>3, <1>4, <1>5 DEF Kinds

\* A primitive that is not negated is a program by itself.
LEMMA PlainTerm ==
    ASSUME NEW arg \in HostTexts \cup PortTexts, NEW p
    PROVE  \A kind \in Kinds :
              /\ And(kind, arg) \in Conjunctions
              /\ AllHold(And(kind, arg), p) <=> Holds(Term("and", FALSE, kind, arg), p)
<1>1. SUFFICES ASSUME NEW kind \in Kinds
               PROVE  /\ And(kind, arg) \in Conjunctions
                      /\ AllHold(And(kind, arg), p) <=> Holds(Term("and", FALSE, kind, arg), p)
    OBVIOUS
<1>2. And(kind, arg) = <<Term("and", FALSE, kind, arg)>>
    BY DEF And
<1>3. /\ And(kind, arg) \in Conjunctions
      /\ AllHold(And(kind, arg), p) <=> TermHolds(Term("and", FALSE, kind, arg), p)
    BY <1>2, OneTerm
<1>4. TermHolds(Term("and", FALSE, kind, arg), p) <=> Holds(Term("and", FALSE, kind, arg), p)
    <2>1. Term("and", FALSE, kind, arg).negated = FALSE /\ Term("and", FALSE, kind, arg).kind = kind
        BY DEF Term
    <2>2. Holds(Term("and", FALSE, kind, arg), p) \in BOOLEAN
        BY TermsDecide
    <2> QED BY <2>1, <2>2 DEF TermHolds
<1> QED BY <1>3, <1>4

\* What the primitives ask of a frame.
LEMMA PlainTermsHold ==
    \A arg, p :
        /\ Holds(Term("and", FALSE, "src host", arg), p) <=> ~p.tagged /\ p.src = arg
        /\ Holds(Term("and", FALSE, "dst host", arg), p) <=> ~p.tagged /\ p.dst = arg
        /\ Holds(Term("and", FALSE, "tcp", arg), p) <=> Carries(p, {"Tcp"})
        /\ Holds(Term("and", FALSE, "udp", arg), p) <=> Carries(p, {"Udp"})
        /\ Holds(Term("and", FALSE, "icmp", arg), p) <=> p.net = "Ip4" /\ Carries(p, {"Icmp"})
        /\ Holds(Term("and", FALSE, "arp", arg), p) <=> ~p.tagged /\ p.net = "Arp"
        /\ Holds(Term("and", FALSE, "port", arg), p)
              <=> Carries(p, {"Tcp", "Udp"}) /\ arg \in {p.sport, p.dport}
        /\ Holds(Term("and", FALSE, "src port", arg), p)
              <=> Carries(p, {"Tcp", "Udp"}) /\ p.sport = arg
        /\ Holds(Term("and", FALSE, "dst port", arg), p)
              <=> Carries(p, {"Tcp", "Udp"}) /\ p.dport = arg
BY DEF Holds, Term

\* What decode() leaves of a packet.
LEMMA DecodedFields ==
    \A p : /\ Decoded(p).src = p.src /\ Decoded(p).dst = p.dst
           /\ Decoded(p).sport = p.sport /\ Decoded(p).dport = p.dport
BY DEF Decoded

\* With nothing in between, the primitives name the protocol that decode() names.
LEMMA DirectSeen ==
    ASSUME NEW p \in WholePackets, Direct(p)
    PROVE  /\ Decoded(p).proto \in ProtoNames
           /\ Decoded(p).proto = "Tcp" <=> Carries(p, {"Tcp"})
           /\ Decoded(p).proto = "Udp" <=> Carries(p, {"Udp"})
           /\ Decoded(p).proto = "Arp" <=> ~p.tagged /\ p.net = "Arp"
           /\ Decoded(p).proto = "Icmp" <=> \/ p.net = "Ip4" /\ Carries(p, {"Icmp"})
                                            \/ p.net = "Ip6" /\ Carries(p, {"Icmp6"})
<1>1. /\ p.net \in {"Arp", "None"} => p.next = "Other" /\ p.last = "Other"
      /\ p.last \in {"Tcp", "Udp", "Icmp", "Icmp6", "Other"}
    BY DEF WholePackets, RawPacket, Transports
<1>2. /\ ~p.tagged /\ p.next = p.last
      /\ p.last = "Icmp" => p.net = "Ip4"
      /\ p.last = "Icmp6" => p.net = "Ip6"
    BY DEF Direct
<1>3. /\ Carries(p, {"Tcp"}) <=> p.last = "Tcp"
      /\ Carries(p, {"Udp"}) <=> p.last = "Udp"
      /\ Carries(p, {"Icmp"}) <=> p.last = "Icmp"
      /\ Carries(p, {"Icmp6"}) <=> p.last = "Icmp6"
    BY <1>2 DEF Carries
<1>4. CASE p.net = "Arp"
    <2>1. Decoded(p).proto = "Arp"
        BY <1>4 DEF Decoded
    <2> QED BY <1>1, <1>2, <1>3, <1>4, <2>1 DEF ProtoNames
<1>5. CASE p.net # "Arp" /\ p.last \in {"Icmp", "Icmp6"}
    <2>1. Decoded(p).proto = "Icmp"
        BY <1>5 DEF Decoded
    <2>2. /\ ~Carries(p, {"Tcp"}) /\ ~Carries(p, {"Udp"})
          /\ \/ p.net = "Ip4" /\ Carries(p, {"Icmp"})
             \/ p.net = "Ip6" /\ Carries(p, {"Icmp6"})
        BY <1>2, <1>3, <1>5
    <2>3. Decoded(p).proto \in ProtoNames
        BY <2>1 DEF ProtoNames
    <2>4. /\ Decoded(p).proto = "Tcp" <=> Carries(p, {"Tcp"})
          /\ Decoded(p).proto = "Udp" <=> Carries(p, {"Udp"})
        BY <2>1, <2>2
    <2>5. Decoded(p).proto = "Arp" <=> ~p.tagged /\ p.net = "Arp"
        BY <1>5, <2>1
    <2>6. Decoded(p).proto = "Icmp" <=> \/ p.net = "Ip4" /\ Carries(p, {"Icmp"})
                                        \/ p.net = "Ip6" /\ Carries(p, {"Icmp6"})
        BY <2>1, <2>2
    <2> QED BY <2>3, <2>4, <2>5, <2>6
<1>6. CASE p.net # "Arp" /\ p.last \notin {"Icmp", "Icmp6"}
    <2>1. Decoded(p).proto = p.last
        BY <1>6 DEF Decoded
    <2> QED BY <1>1, <1>2, <1>3, <1>6, <2>1 DEF ProtoNames
<1> QED BY <1>4, <1>5, <1>6

\* A primitive that names a protocol finds it right behind the IP header.
LEMMA SeenDirect ==
    ASSUME NEW p \in WholePackets,
           \/ Carries(p, {"Tcp"}) \/ Carries(p, {"Udp"})
           \/ p.net = "Ip4" /\ Carries(p, {"Icmp"})
           \/ ~p.tagged /\ p.net = "Arp"
    PROVE  Direct(p)
<1>1. /\ p.next \in {p.last, "Extension"}
      /\ p.net \in {"Arp", "None"} => p.next = "Other" /\ p.last = "Other"
    BY DEF WholePackets
<1> QED BY <1>1 DEF Direct, Carries

LEMMA PortSides ==
    \A s, p :
        /\ s.port_side = "Either" => (PortMatches(s, p) <=> p.sport = s.port \/ p.dport = s.port)
        /\ s.port_side = "Source" => (PortMatches(s, p) <=> p.sport = s.port)
        /\ s.port_side = "Destination" => (PortMatches(s, p) <=> p.dport = s.port)
BY DEF PortMatches

\* A host that is an address is compiled to what it matches.
LEMMA HostCompiled ==
    ASSUME NEW text \in {Unset} \cup Addrs, NEW p
    PROVE  /\ HostPart("src host", text) \in Conjunctions
           /\ HostPart("dst host", text) \in Conjunctions
           /\ ~p.tagged =>
                 /\ AllHold(HostPart("src host", text), p) <=> HostMatches(text, p.src)
                 /\ AllHold(HostPart("dst host", text), p) <=> HostMatches(text, p.dst)
<1>1. Unset \notin Addrs /\ Addrs \cap Parts = {}
    BY FilterAssumption DEF FilterAssumption
<1>2. CASE text = Unset
    BY <1>2, NoTerms DEF HostPart, HostMatches
<1>3. CASE text # Unset
    <2>1. text \in Addrs /\ text \notin Parts
        BY <1>1, <1>3
    <2>2. text \in HostTexts \cup PortTexts
        BY DEF HostTexts
    <2>3. /\ HostPart("src host", text) = And("src host", text)
          /\ HostPart("dst host", text) = And("dst host", text)
        BY <1>3 DEF HostPart
    <2>4. \A kind \in {"src host", "dst host"} :
              /\ And(kind, text) \in Conjunctions
              /\ AllHold(And(kind, text), p) <=> Holds(Term("and", FALSE, kind, text), p)
        BY <2>2, PlainTerm DEF Kinds
    <2>5. HostMatches(text, p.src) <=> p.src = text
        BY <1>3, <2>1 DEF HostMatches
    <2>6. HostMatches(text, p.dst) <=> p.dst = text
        BY <1>3, <2>1 DEF HostMatches
    <2> QED BY <2>3, <2>4, <2>5, <2>6, PlainTermsHold
<1> QED BY <1>2, <1>3

LEMMA NoneNamedCompiled ==
    ASSUME NEW p
    PROVE  /\ NoneNamed \in Conjunctions
           /\ AllHold(NoneNamed, p) <=>
                 /\ ~Carries(p, {"Tcp"}) /\ ~Carries(p, {"Udp"})
                 /\ ~(p.net = "Ip4" /\ Carries(p, {"Icmp"}))
                 /\ ~(p.net = "Ip6" /\ Carries(p, {"Icmp6"}))
                 /\ ~(~p.tagged /\ p.net = "Arp")
<1> DEFINE none(kind) == <<Term("and", TRUE, kind, Unset)>>
<1>1. Unset \in HostTexts \cup PortTexts
    BY DEF HostTexts
<1>2. /\ TermHolds(Term("and", TRUE, "tcp", Unset), p) <=> ~Carries(p, {"Tcp"})
      /\ TermHolds(Term("and", TRUE, "udp", Unset), p) <=> ~Carries(p, {"Udp"})
      /\ TermHolds(Term("and", TRUE, "icmp", Unset), p) <=> ~(p.net = "Ip4" /\ Carries(p, {"Icmp"}))
      /\ TermHolds(Term("and", TRUE, "icmp6", Unset), p) <=> ~(p.net = "Ip6" /\ Carries(p, {"Icmp6"}))
      /\ TermHolds(Term("and", TRUE, "arp", Unset), p) <=> ~(~p.tagged /\ p.net = "Arp")
    BY DEF TermHolds, Holds, Term, Carries
<1>3. \A kind \in Kinds :
          /\ none(kind) \in Conjunctions
          /\ AllHold(none(kind), p) <=> TermHolds(Term("and", TRUE, kind, Unset), p)
    BY <1>1, OneTerm
<1>4. NoneNamed = none("tcp") \o none("udp") \o none("icmp") \o none("icmp6") \o none("arp")
    BY DEF NoneNamed, Not
<1>5. /\ none("tcp") \in Conjunctions /\ none("udp") \in Conjunctions
      /\ none("icmp") \in Conjunctions /\ none("icmp6") \in Conjunctions
      /\ none("arp") \in Conjunctions
    BY <1>3 DEF Kinds
<1>6. /\ AllHold(none("tcp"), p) <=> ~Carries(p, {"Tcp"})
      /\ AllHold(none("udp"), p) <=> ~Carries(p, {"Udp"})
      /\ AllHold(none("icmp"), p) <=> ~(p.net = "Ip4" /\ Carries(p, {"Icmp"}))
      /\ AllHold(none("icmp6"), p) <=> ~(p.net = "Ip6" /\ Carries(p, {"Icmp6"}))
      /\ AllHold(none("arp"), p) <=> ~(~p.tagged /\ p.net = "Arp")
    BY <1>2, <1>3 DEF Kinds
<1> HIDE DEF none
<1> DEFINE two == none("tcp") \o none("udp")
           three == two \o none("icmp")
           four == three \o none("icmp6")
<1>7. /\ two \in Conjunctions
      /\ AllHold(two, p) <=> AllHold(none("tcp"), p) /\ AllHold(none("udp"), p)
    BY <1>5, JoinedHold
<1> HIDE DEF two
<1>9. /\ three \in Conjunctions
      /\ AllHold(three, p) <=> AllHold(two, p) /\ AllHold(none("icmp"), p)
    BY <1>5, <1>7, JoinedHold
<1> HIDE DEF three
<1>10. /\ four \in Conjunctions
       /\ AllHold(four, p) <=> AllHold(three, p) /\ AllHold(none("icmp6"), p)
    BY <1>5, <1>9, JoinedHold
<1> HIDE DEF four
<1>11. NoneNamed = four \o none("arp")
    BY <1>4 DEF four, three, two
<1>12. /\ NoneNamed \in Conjunctions
       /\ AllHold(NoneNamed, p) <=> AllHold(four, p) /\ AllHold(none("arp"), p)
    BY <1>5, <1>10, <1>11, JoinedHold
<1> QED BY <1>6, <1>7, <1>9, <1>10, <1>12

\* A protocol other than ICMP is compiled to what it matches of a direct packet, and one
\* that is named to nothing else.
LEMMA ProtocolCompiled ==
    ASSUME NEW protocol \in {Unset} \cup Protos, protocol # "Icmp", NEW p \in WholePackets
    PROVE  /\ ProtocolPart(protocol) \in Conjunctions
           /\ protocol = Unset => AllHold(ProtocolPart(protocol), p)
           /\ Direct(p) =>
                 (AllHold(ProtocolPart(protocol), p) <=>
                     protocol = Unset \/ Decoded(p).proto = protocol)
           /\ protocol \in {"Tcp", "Udp", "Arp"} /\ AllHold(ProtocolPart(protocol), p) => Direct(p)
<1>1. Unset \in HostTexts \cup PortTexts
    BY DEF HostTexts
<1>2. Unset \notin ProtoNames
    BY FilterAssumption DEF FilterAssumption
<1>3. protocol \in {Unset} \cup (ProtoNames \ {"Icmp"})
    BY ProtosNamed
<1>4. CASE protocol = Unset
    <2>1. ProtocolPart(protocol) = <<>>
        BY <1>2, <1>4 DEF ProtocolPart, ProtoNames
    <2> QED BY <1>2, <1>4, <2>1, NoTerms DEF ProtoNames
<1>5. CASE protocol = "Tcp"
    <2>1. ProtocolPart(protocol) = And("tcp", Unset)
        BY <1>2, <1>5 DEF ProtocolPart, ProtoNames
    <2>2. /\ And("tcp", Unset) \in Conjunctions
          /\ AllHold(And("tcp", Unset), p) <=> Holds(Term("and", FALSE, "tcp", Unset), p)
        BY <1>1, PlainTerm DEF Kinds
    <2>3. AllHold(ProtocolPart(protocol), p) <=> Carries(p, {"Tcp"})
        BY <2>1, <2>2, PlainTermsHold
    <2>4. Direct(p) => (Decoded(p).proto = "Tcp" <=> Carries(p, {"Tcp"}))
        BY DirectSeen
    <2>5. Carries(p, {"Tcp"}) => Direct(p)
        BY SeenDirect
    <2> QED BY <1>2, <1>5, <2>1, <2>2, <2>3, <2>4, <2>5 DEF ProtoNames
<1>6. CASE protocol = "Udp"
    <2>1. ProtocolPart(protocol) = And("udp", Unset)
        BY <1>2, <1>6 DEF ProtocolPart, ProtoNames
    <2>2. /\ And("udp", Unset) \in Conjunctions
          /\ AllHold(And("udp", Unset), p) <=> Holds(Term("and", FALSE, "udp", Unset), p)
        BY <1>1, PlainTerm DEF Kinds
    <2>3. AllHold(ProtocolPart(protocol), p) <=> Carries(p, {"Udp"})
        BY <2>1, <2>2, PlainTermsHold
    <2>4. Direct(p) => (Decoded(p).proto = "Udp" <=> Carries(p, {"Udp"}))
        BY DirectSeen
    <2>5. Carries(p, {"Udp"}) => Direct(p)
        BY SeenDirect
    <2> QED BY <1>2, <1>6, <2>1, <2>2, <2>3, <2>4, <2>5 DEF ProtoNames
<1>7. CASE protocol = "Arp"
    <2>1. ProtocolPart(protocol) = And("arp", Unset)
        BY <1>2, <1>7 DEF ProtocolPart, ProtoNames
    <2>2. /\ And("arp", Unset) \in Conjunctions
          /\ AllHold(And("arp", Unset), p) <=> Holds(Term("and", FALSE, "arp", Unset), p)
        BY <1>1, PlainTerm DEF Kinds
    <2>3. AllHold(ProtocolPart(protocol), p) <=> (~p.tagged /\ p.net = "Arp")
        BY <2>1, <2>2, PlainTermsHold
    <2>4. Direct(p) => (Decoded(p).proto = "Arp" <=> (~p.tagged /\ p.net = "Arp"))
        BY DirectSeen
    <2>5. (~p.tagged /\ p.net = "Arp") => Direct(p)
        BY SeenDirect
    <2> QED BY <1>2, <1>7, <2>1, <2>2, <2>3, <2>4, <2>5 DEF ProtoNames
<1>8. CASE protocol = "Other"
    <2>1. ProtocolPart(protocol) = NoneNamed
        BY <1>2, <1>8 DEF ProtocolPart, ProtoNames
    <2>2. ASSUME Direct(p) PROVE AllHold(NoneNamed, p) <=> Decoded(p).proto = "Other"
        <3>1. /\ Decoded(p).proto \in {"Tcp", "Udp", "Icmp", "Arp", "Other"}
              /\ Decoded(p).proto = "Tcp" <=> Carries(p, {"Tcp"})
              /\ Decoded(p).proto = "Udp" <=> Carries(p, {"Udp"})
              /\ Decoded(p).proto = "Arp" <=> ~p.tagged /\ p.net = "Arp"
              /\ Decoded(p).proto = "Icmp" <=> \/ p.net = "Ip4" /\ Carries(p, {"Icmp"})
                                               \/ p.net = "Ip6" /\ Carries(p, {"Icmp6"})
            BY <2>2, DirectSeen DEF ProtoNames
        <3>2. AllHold(NoneNamed, p) <=>
                  /\ Decoded(p).proto # "Tcp" /\ Decoded(p).proto # "Udp"
                  /\ Decoded(p).proto # "Icmp" /\ Decoded(p).proto # "Arp"
            <4>1. AllHold(NoneNamed, p) <=>
                      /\ ~Carries(p, {"Tcp"}) /\ ~Carries(p, {"Udp"})
                      /\ ~(p.net = "Ip4" /\ Carries(p, {"Icmp"}))
                      /\ ~(p.net = "Ip6" /\ Carries(p, {"Icmp6"}))
                      /\ ~(~p.tagged /\ p.net = "Arp")
                BY NoneNamedCompiled
            <4> HIDE DEF Decoded
            <4> QED BY <3>1, <4>1
        <3> QED BY <3>1, <3>2
    <2> QED BY <1>2, <1>8, <2>1, <2>2, NoneNamedCompiled DEF ProtoNames
<1> QED BY <1>3, <1>4, <1>5, <1>6, <1>7, <1>8 DEF ProtoNames

\* A port is compiled to what it matches of a direct packet, on the side chosen.
LEMMA PortCompiled ==
    ASSUME NEW s \in FilterSpecs, s.port \in {Unset} \cup Ports, NEW p \in WholePackets
    PROVE  /\ PortPart(s) \in Conjunctions
           /\ s.port = Unset => AllHold(PortPart(s), p) /\ s.port \notin Ports
           /\ Direct(p) => (AllHold(PortPart(s), p) <=> (s.port \in Ports => PortMatches(s, Decoded(p))))
<1> DEFINE q == Decoded(p)
<1>1. Unset \notin Ports /\ Absent \notin Ports
    BY FilterAssumption DEF FilterAssumption
<1>2. s.port \in HostTexts \cup PortTexts
    BY DEF PortTexts
<1>3. s.port_side \in {"Either", "Source", "Destination"}
    BY SidesNamed DEF FilterSpecs
<1>4. q.sport = p.sport /\ q.dport = p.dport
    BY DecodedFields
<1>5. /\ s.port_side = "Either" => (PortMatches(s, q) <=> q.sport = s.port \/ q.dport = s.port)
      /\ s.port_side = "Source" => (PortMatches(s, q) <=> q.sport = s.port)
      /\ s.port_side = "Destination" => (PortMatches(s, q) <=> q.dport = s.port)
    BY PortSides
<1> HIDE DEF q
\* Only TCP and UDP have ports.
<1>6. ASSUME Direct(p), s.port \in Ports, s.port \in {p.sport, p.dport}
      PROVE  Carries(p, {"Tcp", "Udp"})
    <2>1. s.port # Absent
        BY <1>1, <1>6
    <2>2. p.last \in {"Tcp", "Udp"}
        BY <1>6, <2>1 DEF WholePackets
    <2> QED BY <1>6, <2>2 DEF Direct, Carries
<1>7. CASE s.port = Unset
    <2>1. PortPart(s) = <<>>
        BY <1>7 DEF PortPart
    <2> QED BY <1>1, <1>7, <2>1, NoTerms
<1>8. CASE s.port # Unset
    <2>1. s.port \in Ports
        BY <1>8
    <2>2. \A kind \in {"port", "src port", "dst port"} :
              /\ And(kind, s.port) \in Conjunctions
              /\ AllHold(And(kind, s.port), p) <=> Holds(Term("and", FALSE, kind, s.port), p)
        BY <1>2, PlainTerm DEF Kinds
    <2>3. CASE s.port_side = "Either"
        <3>1. PortPart(s) = And("port", s.port)
            BY <1>8, <2>3 DEF PortPart
        <3>2. Holds(Term("and", FALSE, "port", s.port), p)
                 <=> Carries(p, {"Tcp", "Udp"}) /\ s.port \in {p.sport, p.dport}
            BY PlainTermsHold
        <3>3. PortMatches(s, q) <=> s.port \in {p.sport, p.dport}
            BY <1>4, <1>5, <2>3
        <3> QED BY <1>6, <1>8, <2>1, <2>2, <3>1, <3>2, <3>3 DEF q
    <2>4. CASE s.port_side = "Source"
        <3>1. PortPart(s) = And("src port", s.port)
            BY <1>8, <2>4 DEF PortPart
        <3>2. Holds(Term("and", FALSE, "src port", s.port), p)
                 <=> Carries(p, {"Tcp", "Udp"}) /\ p.sport = s.port
            BY PlainTermsHold
        <3>3. PortMatches(s, q) <=> p.sport = s.port
            BY <1>4, <1>5, <2>4
        <3> QED BY <1>6, <1>8, <2>1, <2>2, <3>1, <3>2, <3>3 DEF q
    <2>5. CASE s.port_side = "Destination"
        <3>1. PortPart(s) = And("dst port", s.port)
            BY <1>8, <2>5 DEF PortPart
        <3>2. Holds(Term("and", FALSE, "dst port", s.port), p)
                 <=> Carries(p, {"Tcp", "Udp"}) /\ p.dport = s.port
            BY PlainTermsHold
        <3>3. PortMatches(s, q) <=> p.dport = s.port
            BY <1>4, <1>5, <2>5
        <3> QED BY <1>6, <1>8, <2>1, <2>2, <3>1, <3>2, <3>3 DEF q
    <2> QED BY <1>3, <2>3, <2>4, <2>5
<1> QED BY <1>7, <1>8

-------------------------------------------------------------------------------
(* Whole specifications.                                                   *)

\* What a specification that compiles has in its fields.
LEMMA CompiledFields ==
    ASSUME NEW s \in FilterSpecs, ~Refused(s)
    PROVE  /\ s.source \in {Unset} \cup Addrs /\ s.destination \in {Unset} \cup Addrs
           /\ s.protocol \in {Unset} \cup Protos /\ s.port \in {Unset} \cup Ports
           /\ s.protocol = "Icmp" => s.port = Unset
BY DEF FilterSpecs, Refused, HostTexts, PortTexts

\* The two hosts together.
LEMMA HostsCompiled ==
    ASSUME NEW s \in FilterSpecs, ~Refused(s), NEW p
    PROVE  LET hosts == HostPart("src host", s.source) \o HostPart("dst host", s.destination)
           IN  /\ hosts \in Conjunctions
               /\ ~p.tagged =>
                     (AllHold(hosts, p) <=>
                         HostMatches(s.source, p.src) /\ HostMatches(s.destination, p.dst))
<1> DEFINE a == HostPart("src host", s.source)
           b == HostPart("dst host", s.destination)
<1>1. /\ a \in Conjunctions /\ b \in Conjunctions
      /\ ~p.tagged => /\ AllHold(a, p) <=> HostMatches(s.source, p.src)
                      /\ AllHold(b, p) <=> HostMatches(s.destination, p.dst)
    BY CompiledFields, HostCompiled
<1> HIDE DEF a, b
<1>2. a \o b \in Conjunctions /\ (AllHold(a \o b, p) <=> AllHold(a, p) /\ AllHold(b, p))
    BY <1>1, JoinedHold
<1> QED BY <1>1, <1>2 DEF a, b

\* Matches by parts, over what decode() leaves of a packet.
LEMMA MatchesByParts ==
    ASSUME NEW s, NEW p
    PROVE  Matches(s, Decoded(p)) <=>
               /\ s.protocol = Unset \/ Decoded(p).proto = s.protocol
               /\ HostMatches(s.source, p.src) /\ HostMatches(s.destination, p.dst)
               /\ s.port \in Ports => PortMatches(s, Decoded(p))
<1> DEFINE q == Decoded(p)
<1>1. q.src = p.src /\ q.dst = p.dst
    BY DecodedFields
<1> HIDE DEF q
<1>2. Matches(s, q) <=>
          /\ s.protocol = Unset \/ q.proto = s.protocol
          /\ HostMatches(s.source, p.src) /\ HostMatches(s.destination, p.dst)
          /\ s.port \in Ports => PortMatches(s, q)
    BY <1>1 DEF Matches
<1> QED BY <1>2 DEF q

\* But for ICMP the compiled program is the conjunction of what the fields ask for, as far
\* as the primitives see; one that names a protocol sees direct packets only.
LEMMA SelectorCompiled ==
    ASSUME NEW s \in FilterSpecs, ~Refused(s), s.protocol # "Icmp", NEW p \in WholePackets
    PROVE  /\ Direct(p) \/ (~p.tagged /\ s.protocol = Unset /\ s.port = Unset) =>
                 (Accepts(ToBpf(s), p) <=> Matches(s, Decoded(p)))
           /\ s.protocol \in {"Tcp", "Udp", "Arp"} /\ Accepts(ToBpf(s), p) => Direct(p)
<1> DEFINE hosts == HostPart("src host", s.source) \o HostPart("dst host", s.destination)
           proto == ProtocolPart(s.protocol)
           port == PortPart(s)
           both == hosts \o proto
           all == both \o port
<1>1. ToBpf(s) = all
    BY DEF ToBpf
<1>2. /\ hosts \in Conjunctions
      /\ ~p.tagged => (AllHold(hosts, p) <=>
                           HostMatches(s.source, p.src) /\ HostMatches(s.destination, p.dst))
    BY HostsCompiled
<1>3. /\ proto \in Conjunctions
      /\ s.protocol = Unset => AllHold(proto, p)
      /\ Direct(p) => (AllHold(proto, p) <=> s.protocol = Unset \/ Decoded(p).proto = s.protocol)
      /\ s.protocol \in {"Tcp", "Udp", "Arp"} /\ AllHold(proto, p) => Direct(p)
    BY CompiledFields, ProtocolCompiled
<1>4. /\ port \in Conjunctions
      /\ s.port = Unset => AllHold(port, p) /\ s.port \notin Ports
      /\ Direct(p) => (AllHold(port, p) <=> (s.port \in Ports => PortMatches(s, Decoded(p))))
    BY CompiledFields, PortCompiled
<1> HIDE DEF hosts, proto, port
<1>5. both \in Conjunctions /\ (AllHold(both, p) <=> AllHold(hosts, p) /\ AllHold(proto, p))
    BY <1>2, <1>3, JoinedHold
<1> HIDE DEF both
<1>6. all \in Conjunctions /\ (AllHold(all, p) <=> AllHold(both, p) /\ AllHold(port, p))
    BY <1>4, <1>5, JoinedHold
<1> HIDE DEF all
<1>7. Accepts(ToBpf(s), p) <=> AllHold(hosts, p) /\ AllHold(proto, p) /\ AllHold(port, p)
    BY <1>1, <1>5, <1>6, ConjunctionAccepts
<1>8. ASSUME Direct(p) PROVE Accepts(ToBpf(s), p) <=> Matches(s, Decoded(p))
    <2>1. ~p.tagged
        BY <1>8 DEF Direct
    <2> QED BY <1>2, <1>3, <1>4, <1>7, <1>8, <2>1, MatchesByParts
<1>9. ASSUME ~p.tagged, s.protocol = Unset, s.port = Unset
      PROVE  Accepts(ToBpf(s), p) <=> Matches(s, Decoded(p))
    BY <1>2, <1>3, <1>4, <1>7, <1>9, MatchesByParts
<1> QED BY <1>3, <1>7, <1>8, <1>9

\* With ICMP the "or" of bpf_protocol, unparenthesised, lets all of ICMPv6 through that
\* stands right behind the IP header.
LEMMA IcmpCompiled ==
    ASSUME NEW s \in FilterSpecs, ~Refused(s), s.protocol = "Icmp", NEW p \in WholePackets
    PROVE  Accepts(ToBpf(s), p) <=>
               \/ Direct(p) /\ Matches(s, Decoded(p))
               \/ p.net = "Ip6" /\ Carries(p, {"Icmp6"})
<1> DEFINE hosts == HostPart("src host", s.source) \o HostPart("dst host", s.destination)
           icmp == And("icmp", Unset)
           icmp6 == Term("or", FALSE, "icmp6", Unset)
           v4 == hosts \o icmp
<1>1. Unset \notin Ports /\ Unset \notin ProtoNames
    BY FilterAssumption DEF FilterAssumption
<1>2. Unset \in HostTexts \cup PortTexts
    BY DEF HostTexts
<1>3. s.port = Unset
    BY CompiledFields
<1>4. /\ hosts \in Conjunctions
      /\ ~p.tagged => (AllHold(hosts, p) <=>
                           HostMatches(s.source, p.src) /\ HostMatches(s.destination, p.dst))
    BY HostsCompiled
<1>5. /\ icmp \in Conjunctions
      /\ AllHold(icmp, p) <=> Holds(Term("and", FALSE, "icmp", Unset), p)
    BY <1>2, PlainTerm DEF Kinds
<1>6. icmp6 \in Terms /\ icmp6.join = "or"
    BY <1>2 DEF Term, Terms, Kinds
<1>7. TermHolds(icmp6, p) <=> p.net = "Ip6" /\ Carries(p, {"Icmp6"})
    BY DEF TermHolds, Holds, Term, Carries
<1>8. ToBpf(s) = Append(v4, icmp6)
    <2>1. ProtocolPart(s.protocol) = icmp \o <<icmp6>>
        BY <1>1 DEF ProtocolPart, ProtoNames, Or
    <2>2. PortPart(s) = <<>>
        BY <1>3 DEF PortPart
    <2>3. ToBpf(s) = hosts \o (icmp \o <<icmp6>>) \o <<>>
        BY <2>1, <2>2 DEF ToBpf
    <2>4. hosts \in Seq(Terms) /\ icmp \in Seq(Terms) /\ icmp6 \in Terms
        BY <1>4, <1>5, <1>6 DEF Conjunctions
    <2> HIDE DEF hosts, icmp, icmp6
    <2> QED BY <2>3, <2>4
<1> HIDE DEF hosts, icmp, icmp6
<1>9. v4 \in Conjunctions /\ (AllHold(v4, p) <=> AllHold(hosts, p) /\ AllHold(icmp, p))
    BY <1>4, <1>5, JoinedHold
<1> HIDE DEF v4
<1>10. Accepts(ToBpf(s), p) <=> AllHold(v4, p) \/ TermHolds(icmp6, p)
    BY <1>6, <1>8, <1>9, LastOrAccepts
<1>11. Holds(Term("and", FALSE, "icmp", Unset), p) <=> p.net = "Ip4" /\ Carries(p, {"Icmp"})
    BY PlainTermsHold
<1>12. Matches(s, Decoded(p)) <=>
           /\ Decoded(p).proto = "Icmp"
           /\ HostMatches(s.source, p.src) /\ HostMatches(s.destination, p.dst)
    BY <1>1, <1>3, MatchesByParts DEF ProtoNames
<1>13. p.net = "Ip4" /\ Carries(p, {"Icmp"}) => Direct(p)
    BY SeenDirect
<1>14. Direct(p) => /\ ~p.tagged
                    /\ Decoded(p).proto = "Icmp" <=> \/ p.net = "Ip4" /\ Carries(p, {"Icmp"})
                                                     \/ p.net = "Ip6" /\ Carries(p, {"Icmp6"})
    <2>1. SUFFICES ASSUME Direct(p)
                   PROVE  /\ ~p.tagged
                          /\ Decoded(p).proto = "Icmp" <=> \/ p.net = "Ip4" /\ Carries(p, {"Icmp"})
                                                           \/ p.net = "Ip6" /\ Carries(p, {"Icmp6"})
        OBVIOUS
    <2> QED BY <2>1, DirectSeen DEF Direct
<1>15. Accepts(ToBpf(s), p) <=> \/ AllHold(hosts, p) /\ p.net = "Ip4" /\ Carries(p, {"Icmp"})
                                \/ p.net = "Ip6" /\ Carries(p, {"Icmp6"})
    BY <1>5, <1>7, <1>9, <1>10, <1>11
<1>16. CASE Direct(p)
    <2>1. Decoded(p).proto = "Icmp" <=> \/ p.net = "Ip4" /\ Carries(p, {"Icmp"})
                                        \/ p.net = "Ip6" /\ Carries(p, {"Icmp6"})
        BY <1>14, <1>16
    <2>2. AllHold(hosts, p) <=>
              HostMatches(s.source, p.src) /\ HostMatches(s.destination, p.dst)
        BY <1>4, <1>14, <1>16
    <2>3. Matches(s, Decoded(p)) <=>
              /\ AllHold(hosts, p)
              /\ \/ p.net = "Ip4" /\ Carries(p, {"Icmp"})
                 \/ p.net = "Ip6" /\ Carries(p, {"Icmp6"})
        BY <1>12, <2>1, <2>2
    <2> QED BY <1>15, <1>16, <2>3
<1>17. CASE ~Direct(p)
    BY <1>13, <1>15, <1>17
<1> QED BY <1>16, <1>17

-------------------------------------------------------------------------------

Typed == spec \in FilterSpecs

\* Setting one field after another gives specifications and nothing else.
LEMMA SelectorTyped == Spec => []Typed
<1>1. Init => Typed
    BY FilterAssumption
    DEF Typed, Init, Default, FilterSpecs, FilterAssumption, HostTexts, PortTexts
<1>2. Typed /\ [Next]_spec => Typed'
    <2>1. ASSUME Typed, NEW t \in HostTexts
          PROVE  /\ [spec EXCEPT !["source"] = t] \in FilterSpecs
                 /\ [spec EXCEPT !["destination"] = t] \in FilterSpecs
        BY <2>1 DEF Typed, FilterSpecs
    <2>2. SUFFICES ASSUME Typed, [Next]_spec PROVE spec' \in FilterSpecs
        BY DEF Typed
    <2>3. CASE SetHost
        BY <2>1, <2>2, <2>3 DEF SetHost
    <2>4. CASE SetPort
        BY <2>2, <2>4 DEF SetPort, Typed, FilterSpecs
    <2>5. CASE SetProtocol
        BY <2>2, <2>5 DEF SetProtocol, Typed, FilterSpecs
    <2>6. CASE SetSide
        BY <2>2, <2>6 DEF SetSide, Typed, FilterSpecs
    <2>7. CASE UNCHANGED spec
        BY <2>2, <2>7 DEF Typed
    <2> QED BY <2>2, <2>3, <2>4, <2>5, <2>6, <2>7 DEF Next
<1> QED BY <1>1, <1>2, PTL DEF Spec

\* But for ICMP, and as far as the primitives see, the kernel copies exactly the packets
\* that the same specification would show as a display filter (FilterSpec::to_bpf and
\* FilterSpec::matches).
THEOREM KernelAlwaysAgrees == Spec => []KernelAgrees
<1>1. Typed => KernelAgrees
    BY SelectorCompiled DEF Typed, KernelAgrees, Compiled, InView
<1> QED BY <1>1, SelectorTyped, PTL

\* No specification that compiles withholds a packet it asks for and its primitives see.
THEOREM KernelAlwaysKeeps == Spec => []KernelKeeps
<1>1. ASSUME Typed, Compiled, NEW p \in WholePackets, InView(p), Matches(spec, Decoded(p))
      PROVE  Accepts(ToBpf(spec), p)
    <2>1. CASE spec.protocol # "Icmp"
        BY <1>1, <2>1, SelectorCompiled DEF Typed, Compiled, InView
    <2>2. CASE spec.protocol = "Icmp"
        <3>1. Unset \notin ProtoNames
            BY FilterAssumption DEF FilterAssumption
        <3>2. Direct(p)
            BY <1>1, <2>2, <3>1 DEF InView, ProtoNames
        <3> QED BY <1>1, <2>2, <3>2, IcmpCompiled DEF Typed, Compiled
    <2> QED BY <2>1, <2>2
<1>2. Typed => KernelKeeps
    BY <1>1 DEF KernelKeeps
<1> QED BY <1>2, SelectorTyped, PTL

\* The price of a protocol in the selector: of TCP, UDP and ARP the program accepts what
\* was asked for as far as it stands right behind the IP header of an untagged frame.
\* What decode() finds behind an extension header is withheld (bpf_protocol).
THEOREM NamedAcceptsDirect ==
    Spec => [](Compiled /\ spec.protocol \in {"Tcp", "Udp", "Arp"} =>
                  \A p \in WholePackets :
                      Accepts(ToBpf(spec), p) <=> Direct(p) /\ Matches(spec, Decoded(p)))
<1>1. Typed =>
          (Compiled /\ spec.protocol \in {"Tcp", "Udp", "Arp"} =>
              \A p \in WholePackets :
                  Accepts(ToBpf(spec), p) <=> Direct(p) /\ Matches(spec, Decoded(p)))
    BY SelectorCompiled DEF Typed, Compiled
<1> QED BY <1>1, SelectorTyped, PTL

\* What ICMP in the selector lets through: what was asked for, as far as it stands right
\* behind the IP header, and every ICMPv6 packet that does, from anywhere to anywhere
\* (bpf_protocol's "icmp or icmp6", joined unparenthesised).
THEOREM IcmpAdmitsAllV6 ==
    Spec => [](Compiled /\ spec.protocol = "Icmp" =>
                  \A p \in WholePackets :
                      Accepts(ToBpf(spec), p) <=>
                          \/ Direct(p) /\ Matches(spec, Decoded(p))
                          \/ p.net = "Ip6" /\ Carries(p, {"Icmp6"}))
<1>1. Typed =>
          (Compiled /\ spec.protocol = "Icmp" =>
              \A p \in WholePackets :
                  Accepts(ToBpf(spec), p) <=>
                      \/ Direct(p) /\ Matches(spec, Decoded(p))
                      \/ p.net = "Ip6" /\ Carries(p, {"Icmp6"}))
    BY IcmpCompiled DEF Typed, Compiled
<1> QED BY <1>1, SelectorTyped, PTL
===============================================================================
