------------------------------- MODULE LinkEvents -------------------------------
(****************************************************************************)
(* What enet_host_service promises the program that calls it (the events of  *)
(* src/enet-1.3.18/include/enet/enet.h), with no peers' queues, datagrams or  *)
(* time-outs: per peer slot, a link that opens with a CONNECT event, delivers *)
(* a prefix of what the other end sent, in order and each packet once, and    *)
(* closes with a DISCONNECT event.  Nothing of an earlier link is delivered   *)
(* on a later one.  EnetHost implements this.                               *)
(****************************************************************************)
EXTENDS Integers, Sequences

CONSTANTS Peers, Payloads

VARIABLES
    link,       \* "closed", "opening" or "open", as the program can tell
    sending,    \* peers whose other end may still send on this link
    channel,    \* what was sent and can still be delivered
    event       \* the event the last call reported, or is about to report

vars == <<link, sending, channel, event>>

NoEvent == [type |-> "NONE"]
Connect(p) == [type |-> "CONNECT", peer |-> p]
Receive(p, m) == [type |-> "RECEIVE", peer |-> p, packet |-> m]
Disconnect(p) == [type |-> "DISCONNECT", peer |-> p]

Init ==
    /\ link = [p \in Peers |-> "closed"]
    /\ sending = {}
    /\ channel = [p \in Peers |-> <<>>]
    /\ event = NoEvent

(* The program asks for the next event; there may be none to report.          *)
Ask == event' = NoEvent /\ UNCHANGED <<link, sending, channel>>

Arrive(p) ==
    /\ link[p] = "closed"
    /\ link' = [link EXCEPT ![p] = "opening"]
    /\ UNCHANGED <<sending, channel, event>>

(* The other end learns that it is being accepted, and may send.              *)
Accept(p) ==
    /\ link[p] = "opening"
    /\ sending' = sending \cup {p}
    /\ UNCHANGED <<link, channel, event>>

Send(p, m) ==
    /\ p \in sending
    /\ channel' = [channel EXCEPT ![p] = Append(@, m)]
    /\ UNCHANGED <<link, sending, event>>

(* The link breaks: only what came before the break can still be delivered.   *)
Break(p) ==
    /\ link[p] # "closed"
    /\ sending' = sending \ {p}
    /\ \E k \in 0..Len(channel[p]) : channel' = [channel EXCEPT ![p] = SubSeq(@, 1, k)]
    /\ UNCHANGED <<link, event>>

Open(p) ==
    /\ link[p] = "opening" /\ event = NoEvent
    /\ link' = [link EXCEPT ![p] = "open"]
    /\ event' = Connect(p)
    /\ UNCHANGED <<sending, channel>>

Deliver(p) ==
    /\ link[p] = "open" /\ channel[p] # <<>> /\ event = NoEvent
    /\ event' = Receive(p, Head(channel[p]))
    /\ channel' = [channel EXCEPT ![p] = Tail(@)]
    /\ UNCHANGED <<link, sending>>

Shut(p) ==
    /\ link' = [link EXCEPT ![p] = "closed"]
    /\ sending' = sending \ {p}
    /\ channel' = [channel EXCEPT ![p] = <<>>]

Close(p) == link[p] = "open" /\ event = NoEvent /\ event' = Disconnect(p) /\ Shut(p)

(* A link that never opened may be given up without a word.                   *)
Abandon(p) == link[p] = "opening" /\ Shut(p) /\ UNCHANGED event

(* The program stops and starts again: every link is forgotten.               *)
Crash ==
    /\ link' = [p \in Peers |-> "closed"]
    /\ sending' = {}
    /\ channel' = [p \in Peers |-> <<>>]
    /\ event' = NoEvent

Next ==
    \/ Ask \/ Crash
    \/ \E p \in Peers :
         \/ Arrive(p) \/ Accept(p) \/ Break(p) \/ Abandon(p)
         \/ \E m \in Payloads : Send(p, m)
         \/ Open(p) \/ Deliver(p) \/ Close(p)

Spec == Init /\ [][Next]_vars
================================================================================
