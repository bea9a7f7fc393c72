SPECIFICATION FairChannelSpec
CONSTANTS
    WindowSize = 2
    Windows = 6
    FreeWindows = 3
    LastUnreliable = 3
    MaxInTransit = 3
    Plans <- MCPlans
    Starts = {10}
    Lifetime = 6
    MaxQueued = 6
    MaxOnWire = 2
INVARIANTS ChannelInv NothingAcknowledgedIsLost OldestIsAnswered
PROPERTIES ImplementsOrderedChannel ReliableArrives
CHECK_DEADLOCK FALSE
