SPECIFICATION MCSpec
CONSTANTS
    PeerCount = 2
    forward = forward
    backward = backward
    Payloads = {forward, backward}
    MaxInFlight = 2
    MaxWaiting = 2
    MaxDatagrams = 2
INVARIANTS HostInv NeverSleepsOnWork
PROPERTIES QueueIsFair ImplementsLinkEvents DeadLinksReported AcceptedIsDelivered
