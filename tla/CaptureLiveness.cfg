\* One packet fills the channel; two sessions, so that a stop also precedes a restart.
CONSTANTS
    Sessions = {s1, s2}
    NoSession = NoSession
    ChannelCapacity = 1
    DrainBudget = 1
    MaxPackets = 1
SPECIFICATION Spec
PROPERTIES
    StopByDraining
    StopByDeadline
    StoppedThreadExits
    EndIsShown
