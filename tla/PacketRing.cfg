\* A budget that affords a ring of three of the five packets asked for, and five
\* packets a capture: two evictions, and gaps before, inside and after the ring.
\* The table has one or two rows.
CONSTANTS
    Protos = {tcp, udp}
    short = short
    long = long
    Contents = {short, long}
    Capacity = 3
    Heights = {1, 2}
    MaxSeq = 5
    MIN_BUFFER = 2
    MIN_MEMORY_MB = 2
    MAX_MEMORY_MB = 4
    MiB = 8
    MAX_STORED_BYTES = 4
    STRING_ALLOWANCE = 1
    PACKET_SIZE = 2
    Usize = 64
    Buffer = 5
    Memory = 3
    DataLen <- MCDataLen
    StringsLen <- MCStringsLen
SPECIFICATION MonitorSpec
SYMMETRY ProtoSymmetry
INVARIANTS
    TypeOK
    ViewIsFilteredRing
    FollowPinsCursor
    CursorInView
    RowsResolve
    MemoryBounded
PROPERTIES
    CursorStays
    AnchorKept
    WindowShowsCursor
    HighlightIsSelected
