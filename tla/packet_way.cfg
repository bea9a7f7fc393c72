SPECIFICATION MCSpec
CONSTANTS
    Percents <- MCPercents
    Arrivals <- MCArrivals
    InitOk = 0
    WriteOk = 0
    Connections = {c1, c2}
    Length = 2
    MaxReplies = 1
INVARIANTS Inv OutputsFollowCommands DecoderTypeOK ReversingIsExact SidesAreMirrored StickIsMonotone ForwarderInv
PROPERTIES MovesOnlyAsCommanded RestartMovesNothing MessagesReachTheRobot
\* one packet per behaviour: the decoder stops once it is decoded, and the
\* forwarder once everything has been written
CHECK_DEADLOCK FALSE
