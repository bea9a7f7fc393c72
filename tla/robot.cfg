SPECIFICATION MCSpec
CONSTANTS
    PeerCount = 2
    Payloads <- MCPayloads
    MaxInFlight = 1
    MaxWaiting = 2
    MaxDatagrams = 2
    Percents <- MCPercents
    InitOk = 0
    WriteOk = 0
INVARIANT RobotInv
PROPERTIES UnaskedMovesNothing AcceptedIsObeyed
