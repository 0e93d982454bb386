------------------------------- MODULE Selector -------------------------------
(***************************************************************************)
(* The selector a form edits, one field at a time, and the promise that    *)
(* its two uses agree: evaluated over packets held (the display target)    *)
(* and compiled for the kernel (the capture target).                       *)
(***************************************************************************)
EXTENDS FilterSpec

VARIABLE spec  \* Builder::spec

Init == spec = Default

SetHost == \E f \in {"source", "destination"}, t \in HostTexts : spec' = [spec EXCEPT ![f] = t]

SetPort == \E t \in PortTexts : spec' = [spec EXCEPT !.port = t]

SetProtocol == \E p \in {Unset} \cup Protos : spec' = [spec EXCEPT !.protocol = p]

SetSide == \E s \in Sides : spec' = [spec EXCEPT !.port_side = s]

Next == SetHost \/ SetPort \/ SetProtocol \/ SetSide

Spec == Init /\ [][Next]_spec

-------------------------------------------------------------------------------
(* Properties                                                              *)

Compiled == ~Refused(spec)

\* Nothing stands between the IP header and what it carries, which is of its version.
Direct(p) ==
    /\ ~p.tagged
    /\ p.next = p.last
    /\ p.last = "Icmp" => p.net = "Ip4"
    /\ p.last = "Icmp6" => p.net = "Ip6"

\* The packets of which the primitives of a program see all that decode() does: with
\* nothing but hosts to look at, those with extension headers too.
InView(p) == Direct(p) \/ (~p.tagged /\ spec.protocol = Unset /\ spec.port = Unset)

\* One specification drives two mechanisms (filter.rs): but for ICMP, and as far as the
\* primitives see, what the compiled program lets the kernel copy is what the same
\* specification, used as a display filter, shows.
KernelAgrees ==
    Compiled /\ spec.protocol # "Icmp" =>
        \A p \in WholePackets :
            InView(p) => (Accepts(ToBpf(spec), p) <=> Matches(spec, Decoded(p)))

\* The capture filter withholds no packet that the specification asks for and the
\* primitives can see, with ICMP neither.
KernelKeeps ==
    Compiled =>
        \A p \in WholePackets :
            InView(p) /\ Matches(spec, Decoded(p)) => Accepts(ToBpf(spec), p)

\* "Empty fields mean any" (filter.rs:75), and a set one constrains: the parts are
\* joined with "and" (test fields_are_joined_with_and_in_tcpdump_syntax).
SetFieldsConstrain ==
    Compiled =>
        \A p \in WholePackets :
            Direct(p) /\ Accepts(ToBpf(spec), p) => Matches(spec, Decoded(p))
===============================================================================
