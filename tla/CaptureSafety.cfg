\* Two sessions, a channel of two events, three packets each, a budget of one
\* packet per frame: the channel fills, the budget runs out, a thread outlives
\* its handle while its successor runs.
CONSTANTS
    Sessions = {s1, s2}
    NoSession = NoSession
    ChannelCapacity = 2
    DrainBudget = 1
    MaxPackets = 3
SPECIFICATION Spec
SYMMETRY SessionSymmetry
INVARIANTS
    TypeOK
    ChannelProtocol
    NumbersAscend
    Accounted
    FinalCountExact
    OneLiveReader
PROPERTIES
    LifecycleSpec
