--------------------------- MODULE MCShmBroadcast ---------------------------
(* Two client processes for two channels of one message each.               *)
EXTENDS ShmBroadcast

CONSTANTS k1, k2

MCClients == {k1, k2}
=============================================================================
