SPECIFICATION WebSocketSpec
CONSTANTS
    max_message_size = 3
    Requests <- MCRequests
    Scripts <- MCScripts
    MaxSends = 2
    MaxCloses = 1
INVARIANT TextsAreWhole
CHECK_DEADLOCK FALSE
