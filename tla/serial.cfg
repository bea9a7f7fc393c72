SPECIFICATION MCSpec
CONSTANTS
    usb = usb
    uart = uart
    Ports = {usb, uart}
    NoDevice = NoDevice
    Device <- MCDevice
    Eol <- MCEol
    Requests <- MCRequests
    MaxCalls = 5
INVARIANTS SerialInv BytesStayTogether LinesAreCut
PROPERTIES PortChangesAlone CallsReturn
\* the calls are used up
CHECK_DEADLOCK FALSE
