--------------------------- MODULE MCSslEndpoint ---------------------------
(* Payloads of up to two bytes and room for four.                          *)
EXTENDS SslEndpoint
=============================================================================
