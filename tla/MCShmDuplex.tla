---------------------------- MODULE MCShmDuplex ----------------------------
(* Small instances of ShmDuplex for TLC. *)
EXTENDS ShmDuplex, TLC

CONSTANTS k1, k2
TwoAndOne == k1 :> 2 @@ k2 :> 1
=============================================================================
