------------------------ MODULE MCWebSocketEndpoint ------------------------
(* A client of two connections, or the server side of one; two messages.    *)
EXTENDS WebSocketEndpoint
=============================================================================
