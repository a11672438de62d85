---------------------------- MODULE MCSocketLoop ----------------------------
(* Small instances of SocketLoop for TLC. *)
EXTENDS SocketLoop, TLC

TwiceAndOnce == [o \in Clients \union {Listener} |-> IF o = Listener THEN 1 ELSE 2]
=============================================================================
