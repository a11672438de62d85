--------------------------- MODULE BoundedChannel ---------------------------
(***************************************************************************)
(* What a channel of a shared memory queue promises to the process that    *)
(* writes to it and the process that reads from it: a first-in first-out   *)
(* buffer of Capacity messages that refuses a message only when it is full *)
(* and in which a message keeps its place until it has been handled.       *)
(***************************************************************************)
EXTENDS Naturals, Sequences

CONSTANTS
    Messages,
    Capacity,
    NoMessage       \* no message is being handled

VARIABLES
    buffer,         \* the messages in the channel, oldest first
    handling,       \* the message the reader is handling, or NoMessage
    answer          \* what the last enqueue returned: "none", "sent" or "full"

channelVars == <<buffer, handling, answer>>

Init ==
    /\ buffer = <<>>
    /\ handling = NoMessage
    /\ answer = "none"

Send(m) ==
    /\ Len(buffer) < Capacity
    /\ buffer' = Append(buffer, m)
    /\ answer' = "sent"
    /\ UNCHANGED handling

Refuse ==
    /\ Len(buffer) = Capacity
    /\ answer' = "full"
    /\ UNCHANGED <<buffer, handling>>

Deliver ==
    /\ buffer # <<>> /\ handling = NoMessage
    /\ handling' = Head(buffer)
    /\ UNCHANGED <<buffer, answer>>

Remove ==
    /\ handling # NoMessage
    /\ buffer' = Tail(buffer)
    /\ handling' = NoMessage
    /\ UNCHANGED answer

Next == (\E m \in Messages : Send(m)) \/ Refuse \/ Deliver \/ Remove

Spec == Init /\ [][Next]_channelVars
=============================================================================
