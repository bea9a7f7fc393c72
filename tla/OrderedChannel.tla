----------------------------- MODULE OrderedChannel -----------------------------
(****************************************************************************)
(* What one ENet channel promises: packets come out in the order they were    *)
(* put in, each at most once, and no reliable one is passed over.  EnetChannel *)
(* implements this over datagrams that are lost, repeated and reordered.      *)
(****************************************************************************)
EXTENDS Integers, Sequences

VARIABLES channel, delivered    \* packets still to come, and those that came out

Put(packet) == channel' = Append(channel, packet) /\ UNCHANGED delivered

(* The packets at these places come out, in the order of the places.  With them    *)
(* come all the reliable ones before the last; the others before it are given up.  *)
Deliver(places) ==
    LET last == places[Len(places)]
    IN  /\ \A i, j \in DOMAIN places : i < j => places[i] < places[j]
        /\ \A k \in 1..last : channel[k].reliable => \E i \in DOMAIN places : places[i] = k
        /\ channel' = SubSeq(channel, last + 1, Len(channel))
        /\ delivered' = delivered \o [i \in DOMAIN places |-> channel[places[i]]]

(* The first packet comes out: a channel that carries reliable ones only.        *)
DeliverFirst ==
    /\ channel # <<>>
    /\ channel' = Tail(channel)
    /\ delivered' = Append(delivered, Head(channel))

Init == channel = <<>> /\ delivered = <<>>
Next == \/ /\ Len(channel') > Len(channel)
           /\ Put(channel'[Len(channel')])
        \/ \E places \in [1..(Len(delivered') - Len(delivered)) -> 1..Len(channel)] :
              places # <<>> /\ Deliver(places)
Spec == Init /\ [][Next]_<<channel, delivered>>
================================================================================
