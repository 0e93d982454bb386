\* Two IPv4 addresses and an IPv6 one, a part that two of them contain, two ports.
CONSTANTS
    a4 = a4
    b4 = b4
    part = part
    AllProtos <- MCAllProtos
    AllSides <- MCAllSides
    Addrs = {a4, b4, a6}
    V6 = {a6}
    Parts = {part}
    Within <- MCWithin
    Ports = {ssh, dns}
    PortWords = {word}
    Unset = Unset
    Absent = Absent
SPECIFICATION Spec
INVARIANTS
    KernelAgrees
    KernelKeeps
