--------------------------- MODULE MCHttpEndpoint ---------------------------
(* A client of two connections, or the server side of one, with a peer      *)
(* whose messages have all the forms.                                       *)
EXTENDS HttpEndpoint

Mixes == {{"unsolicited"}, {"SSL", "close", "reopen"}, {"close", "reopen", "failures"}}
=============================================================================
