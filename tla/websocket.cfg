SPECIFICATION FairWebSocketSpec
CONSTANTS
    max_message_size = 3
    Requests <- MCRequests
    Scripts <- MCScripts
    MaxSends = 2
    MaxCloses = 1
INVARIANTS WebSocketInv DeliversEveryMessage QueueIsAttended NothingFollowsTheLast
PROPERTIES RefusesOnlyTheMalformed ImplementsWebSocketEvents
CHECK_DEADLOCK FALSE
