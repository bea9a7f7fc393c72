---------------------------- MODULE WebSocketEvents ----------------------------
(****************************************************************************)
(* What the WebSocket endpoint promises the handlers registered with it        *)
(* (set_message_handler, set_fail_handler, set_close_handler of              *)
(* src/websocketpp/websocketpp/endpoint.hpp), with no frames, timers or writes:  *)
(* per connection, either the fail handler once, or the messages the client     *)
(* wrote, in order, and then the close handler once.  WebSocketConnection       *)
(* implements this.                                                          *)
(****************************************************************************)
EXTENDS Sequences

CONSTANT Connections

VARIABLES
    session,    \* "idle", "opening", "open", "closing", and then "failed" or "closed"
    unread      \* the messages the client writes that no handler has been given

eventVars == <<session, unread>>

SessionTypeOK == session \in [Connections ->
                 {"idle", "opening", "open", "closing", "failed", "closed"}]

Init == session = [c \in Connections |-> "idle"]

Becomes(c, from, to) ==
    session[c] \in from /\ session' = [session EXCEPT ![c] = to] /\ UNCHANGED unread

Accept(c) == Becomes(c, {"idle"}, "opening")
Open(c) == Becomes(c, {"opening"}, "open")
StartClosing(c) == Becomes(c, {"open"}, "closing")

Message(c) ==
    /\ session[c] = "open"
    /\ unread[c] # <<>>
    /\ unread' = [unread EXCEPT ![c] = Tail(@)]
    /\ UNCHANGED session

Fail(c) == Becomes(c, {"idle", "opening"}, "failed")
Close(c) == Becomes(c, {"open", "closing"}, "closed")

Next == \E c \in Connections : Accept(c) \/ Open(c) \/ StartClosing(c) \/ Message(c)
                                 \/ Fail(c) \/ Close(c)

(* The handshakes are timed: neither lasts for ever.                           *)
Fairness == \A c \in Connections :
    /\ WF_eventVars(Open(c) \/ (session[c] = "opening" /\ Fail(c)))
    /\ WF_eventVars(session[c] = "closing" /\ Close(c))

Safe == Init /\ [][Next]_eventVars
Spec == Safe /\ Fairness
================================================================================
