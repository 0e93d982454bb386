CONSTANTS
    Protos = {tcp, udp}
    Contents = {a, b}
    Capacity = 3
    Heights = {1, 2}
    MaxSeq = 5
SPECIFICATION Spec
INVARIANTS
    RingContiguous
