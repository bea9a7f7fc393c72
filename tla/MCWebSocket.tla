------------------------------ MODULE MCWebSocket ------------------------------
(* What the client writes: each script ends where a client may simply stop.      *)
EXTENDS WebSocketConnection

F(op, fin, name) == [op |-> op, fin |-> fin, rsv |-> FALSE, masked |-> TRUE, code |-> "basic",
                     size |-> 1, text |-> "ok", name |-> name]
Close == [F("CLOSE", TRUE, "z") EXCEPT !.size = 0]

MCScripts == {
    \* messages, one in two frames around a ping, and the client's close
    <<[F("TEXT", FALSE, "a") EXCEPT !.size = 2], F("PING", TRUE, "p"), F("CONTINUATION", TRUE, "b"), Close>>,
    <<F("BINARY", TRUE, "a"), [F("TEXT", TRUE, "b") EXCEPT !.text = "cut"]>>,
    \* a text whose second frame ends inside a character
    <<F("TEXT", FALSE, "a"), [F("CONTINUATION", TRUE, "b") EXCEPT !.text = "cut"]>>,
    \* a message that begins in another, one that continues nothing
    <<F("BINARY", FALSE, "a"), F("TEXT", TRUE, "b")>>,
    <<F("PONG", TRUE, "p"), F("CONTINUATION", TRUE, "b")>>,
    \* a bad header, a bad length, too long a message
    <<F("TEXT", TRUE, "a"), [F("BINARY", TRUE, "b") EXCEPT !.masked = FALSE]>>,
    <<[F("BINARY", TRUE, "a") EXCEPT !.code = "16bit"]>>,
    <<[F("BINARY", FALSE, "a") EXCEPT !.size = 2], [F("CONTINUATION", TRUE, "b") EXCEPT !.size = 2]>>,
    \* two closes, the second not a valid one
    <<Close, [F("CLOSE", TRUE, "y") EXCEPT !.text = "bad"]>>}

\* A browser's request, and some that are refused.
Asked == [lines |-> TRUE, host |-> TRUE, upgrade |-> TRUE, connection |-> TRUE, version |-> 13,
          method |-> "GET", http |-> "HTTP/1.1", key |-> TRUE, extensions |-> TRUE, uri |-> TRUE,
          body |-> 0]

MCRequests == {
    Asked,
    [Asked EXCEPT !.upgrade = FALSE, !.version = 0, !.body = 1],
    [Asked EXCEPT !.version = -1],
    [Asked EXCEPT !.key = FALSE],
    [Asked EXCEPT !.lines = FALSE],
    [Asked EXCEPT !.host = FALSE]}
================================================================================
