SPECIFICATION SerialSpec
CONSTANTS
    usb = usb
    uart = uart
    Ports = {usb, uart}
    NoDevice = NoDevice
    Device <- MCDevice
    Eol <- MCEol
    Requests <- MCRequests
    MaxCalls = 1
INVARIANT LinesFit
\* the calls are used up
CHECK_DEADLOCK FALSE
