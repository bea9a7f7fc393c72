SPECIFICATION ForwarderSpec
CONSTANTS
    Connections = {c1, c2}
    Length = 2
    MaxReplies = 1
INVARIANT HostIsGuarded
CHECK_DEADLOCK FALSE
