---------------------------- MODULE MCShmChannel ----------------------------
(* A channel of two messages, so that the ring wraps after three.           *)
EXTENDS ShmChannel

CONSTANTS m1, m2

MCMessages == {m1, m2}
=============================================================================
