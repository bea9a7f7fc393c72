---------------------------- MODULE WebSocketHandshake ----------------------------
(****************************************************************************)
(* What websocketpp's server answers to the request that opens a connection    *)
(* (src/websocketpp/websocketpp: http/impl/request.hpp, processors/          *)
(* processor.hpp and hybi13.hpp, and impl/connection_impl.hpp).              *)
(*                                                                          *)
(* A request is a record of what these look at: lines, whether its lines can be  *)
(* read; host; upgrade and connection, whether the header has the token;       *)
(* version, 0 without one and -1 if it is no number; method; http; key;        *)
(* extensions, whether the header can be read; uri, whether Host and the path     *)
(* make one; and body, the pieces its body arrives in.                       *)
(****************************************************************************)
EXTENDS Integers

\* The head of a request may be read in two pieces, of which the second has the blank
\* line.
HeadPieces == 2
Pieces(request) == HeadPieces + request.body

\* After n pieces: "error", "more" to read, or "ready".  A line is refused at once, a
\* missing Host at the blank line.
consume(request, n) ==
    CASE ~ request.lines -> "error"
      [] n >= HeadPieces /\ request.lines /\ ~ request.host -> "error"
      [] n >= Pieces(request) /\ request.lines /\ request.host -> "ready"
      [] OTHER -> "more"

is_websocket_handshake(request) == request.upgrade /\ request.connection

get_websocket_version(request) == request.version

\* The processors there are, of which hybi00 is not modelled.
get_processor(version) == version \in {7, 8, 13}

\* The status set by initialize_processor, or 0 when it lets the request through.
initialize_processor(request) ==
    IF is_websocket_handshake(request) /\ ~ get_processor(get_websocket_version(request))
    THEN 400 ELSE 0

validate_handshake(request) ==
    request.method = "GET" /\ request.http = "HTTP/1.1" /\ request.key

\* No extension is implemented; what cannot be read is refused all the same.
negotiate_extensions(request) == request.extensions

get_uri(request) == request.uri

\* The server has no validate handler.
process_handshake(request) == 101

process_handshake_request(request) ==
    IF ~ is_websocket_handshake(request)
    THEN IF get_uri(request) THEN 426 ELSE 400
    ELSE IF validate_handshake(request) /\ negotiate_extensions(request) /\ get_uri(request)
    THEN process_handshake(request)
    ELSE 400

\* The status of the response to a request of which n pieces were read.
Response(request, n) ==
    IF consume(request, n) = "error" THEN 400
    ELSE IF initialize_processor(request) # 0 THEN initialize_processor(request)
    ELSE process_handshake_request(request)
================================================================================
