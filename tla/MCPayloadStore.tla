--------------------------- MODULE MCPayloadStore ---------------------------
(* The loop thread and one producer, rings of two places, and a counter of  *)
(* two bits, so that it wraps and reaches the size of the ring.             *)
EXTENDS PayloadStore, TLC

CONSTANT producer

MCProducers == {producer}
=============================================================================
