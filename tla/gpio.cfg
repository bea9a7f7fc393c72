SPECIFICATION MCSpec
CONSTANTS
    Pins = {19, 21, 33}
    IsrPins = {21}
    Buses = {1}
    Channels = {0, 2}
    compass = compass
    Devices = {compass}
    MaxThreads = 2
    MaxLives = 2
INVARIANTS JetInv NoThreadOutlivesLibrary TerminateRestores ClockGivenBack
PROPERTY TerminateReturns
\* the lives are used up, or the process died
CHECK_DEADLOCK FALSE
