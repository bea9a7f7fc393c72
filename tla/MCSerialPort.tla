--------------------------- MODULE MCSerialPort ---------------------------
(* Two devices: the values of SerialPort's constants, and the behaviours     *)
(* that are explored.                                                       *)
EXTENDS SerialPort

CONSTANTS usb, uart

MCEol == <<"cr", "nl">>
MCDevice == (usb :> <<"cr", "nl", "cr", "nl">>) @@ (uart :> <<"x", "cr", "cr", "nl">>)

\* readline below and above the length of the end of line, and nothing asked
MCRequests ==
    {[op |-> o, arg |-> 0] : o \in {"flush", "flushInput", "flushOutput", "open", "close", "readlines"}}
    \cup {[op |-> "readline", arg |-> n] : n \in {1, 3}}
    \cup {[op |-> "readlines", arg |-> n] : n \in {1, 4}}
    \cup {[op |-> o, arg |-> 2] : o \in {"read", "write"}}
    \cup {[op |-> "setPort", arg |-> uart]}

\* Any three calls; and five, which the descriptor needs to leave the port and
\* come back to it in the middle of a line.  That they start in this order
\* leaves nothing out: a call may start and do nothing until the others end.
MCAnyCalls == 3
MCFiveCalls == <<[op |-> "setPort", arg |-> uart], [op |-> "open", arg |-> 0],
                 [op |-> "readline", arg |-> 3], [op |-> "close", arg |-> 0],
                 [op |-> "open", arg |-> 0]>>

\* The other device is one setPort away.
MCInit == SerialInit /\ port = usb

MCNext ==
    /\ SerialNext
    /\ made' > MCAnyCalls =>
         \A t \in 1..made' : [op |-> call'[t].op, arg |-> call'[t].arg] = MCFiveCalls[t]

MCSpec == MCInit /\ [][MCNext]_vars /\ \A t \in Threads : WF_vars(CallStep(t))
=============================================================================
