----------------------------- MODULE ShmChannel -----------------------------
(***************************************************************************)
(* FixedConstructLenSPSC (shm_endpoints/SharedMemPODQueueDefinition.hpp):  *)
(* one channel of a shared memory queue, a ring with one place more than   *)
(* its capacity, written by one process and read by another.               *)
(*                                                                         *)
(* Each side loads the other side's index once and then works on the ring  *)
(* alone; every atomic access and every access to the storage is a step.   *)
(* The acquire loads and release stores of the code make the storage       *)
(* written before a store visible after the load that sees it, so the      *)
(* steps may be taken as sequentially consistent.                          *)
(***************************************************************************)
EXTENDS Naturals, Sequences

CONSTANTS
    Messages,
    QueueSize,      \* the constructor's queueSize
    NoMessage       \* no message is being handled

ASSUME ChannelAssumption ==
    /\ QueueSize \in Nat \ {0}
    /\ NoMessage \notin Messages

VARIABLES
    head,           \* _head
    tail,           \* _tail
    storage,        \* _storage
    writer,         \* where the writing process is in enqueue
    message,        \* its argument
    answer,         \* what enqueue returned last
    reader,         \* where the reading process is
    handling        \* what its handler was called with

writerVars == <<writer, message, answer>>
readingVars == <<reader, handling>>
ringVars == <<head, tail, storage, writerVars, readingVars>>

Size == QueueSize + 1
Places == 0 .. QueueSize

(* (i + 1) % _queueSize, of an index of the ring. *)
Succ(i) == IF i = QueueSize THEN 0 ELSE i + 1

(* The storage of a new channel holds whatever the memory held. *)
RingInit ==
    /\ head = 0 /\ tail = 0
    /\ storage \in [Places -> Messages]
    /\ writer = "idle" /\ message = NoMessage /\ answer = "none"
    /\ reader = "idle" /\ handling = NoMessage

-----------------------------------------------------------------------------
(* Mutated: the ring is taken to be full when both indices are equal. *)
M_Enqueue(m) ==
    /\ writer = "idle"
    /\ writer' = "write"
    /\ message' = m
    /\ UNCHANGED <<head, tail, storage, answer, readingVars>>

(* The load of _head and the comparison with the next tail. *)
Enqueue(m) ==
    /\ writer = "idle"
    /\ \/ /\ Succ(tail) = head
          /\ answer' = "full"
          /\ UNCHANGED <<writer, message>>
       \/ /\ Succ(tail) # head
          /\ writer' = "write"
          /\ message' = m
          /\ UNCHANGED answer
    /\ UNCHANGED <<head, tail, storage, readingVars>>

Write ==
    /\ writer = "write"
    /\ storage' = [storage EXCEPT ![tail] = message]
    /\ writer' = "publish"
    /\ UNCHANGED <<head, tail, message, answer, readingVars>>

Publish ==
    /\ writer = "publish"
    /\ tail' = Succ(tail)
    /\ answer' = "sent"
    /\ message' = NoMessage
    /\ writer' = "idle"
    /\ UNCHANGED <<head, storage, readingVars>>

-----------------------------------------------------------------------------
(* updatesAvailable, or the test in consume: nothing changes on an empty    *)
(* ring.                                                                    *)
UpdatesAvailable ==
    /\ reader = "idle"
    /\ head # tail
    /\ reader' = "handle"
    /\ UNCHANGED <<head, tail, storage, writerVars, handling>>

(* Mutated: the place is given back before its message is handled. *)
M_Handle ==
    /\ reader = "handle"
    /\ head' = Succ(head)
    /\ handling' = storage[Succ(head)]
    /\ reader' = "release"
    /\ UNCHANGED <<tail, storage, writerVars>>

(* consumeAvailable: the handler is called with the message in the ring,    *)
(* which is removed afterwards, whatever the handler returned.              *)
Handle ==
    /\ reader = "handle"
    /\ handling' = storage[head]
    /\ reader' = "release"
    /\ UNCHANGED <<head, tail, storage, writerVars>>

Release ==
    /\ reader = "release"
    /\ head' = Succ(head)
    /\ handling' = NoMessage
    /\ reader' = "idle"
    /\ UNCHANGED <<tail, storage, writerVars>>

RingNext ==
    \/ \E m \in Messages : Enqueue(m)
    \/ Write \/ Publish
    \/ UpdatesAvailable \/ Handle \/ Release

RingSpec == RingInit /\ [][RingNext]_ringVars

-----------------------------------------------------------------------------
RingTypeOK ==
    /\ head \in Places /\ tail \in Places
    /\ storage \in [Places -> Messages]
    /\ writer \in {"idle", "write", "publish"}
    /\ message \in Messages \union {NoMessage}
    /\ writer = "idle" <=> message = NoMessage
    /\ answer \in {"none", "sent", "full"}
    /\ reader \in {"idle", "handle", "release"}
    /\ handling \in Messages \union {NoMessage}

(* The writer never writes the place the reader reads: the message that is  *)
(* being handled stays what it was until the handler has returned.          *)
HandledIntact ==
    /\ reader # "idle" /\ writer # "idle" => head # tail
    /\ reader = "release" => handling = storage[head]

(* The number of messages between the indices, and the messages. *)
Used == IF tail >= head THEN tail - head ELSE tail + Size - head
PlaceOf(i) == IF head + i - 1 > QueueSize THEN head + i - 1 - Size ELSE head + i - 1
Buffer == [i \in 1 .. Used |-> storage[PlaceOf(i)]]

(* Whatever the interleaving of the two processes, the ring is the buffer   *)
(* the abstract channel promises: messages arrive once, in order, unharmed, *)
(* and enqueue fails only when QueueSize messages are in the channel.        *)
Channel == INSTANCE BoundedChannel WITH Capacity <- QueueSize, buffer <- Buffer
ChannelPromise == Channel!Spec
=============================================================================
