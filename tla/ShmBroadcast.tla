---------------------------- MODULE ShmBroadcast ----------------------------
(***************************************************************************)
(* A shared memory queue with one producing server and several consuming   *)
(* client processes (shm_endpoints/SPMCEndpointsImpl.hpp, with the channel *)
(* allocation of SharedMemPODQueueDefinition.hpp).                         *)
(*                                                                         *)
(* A client allocates a channel under the mutex in the shared memory and   *)
(* reads it; it can die at any step.  The server pushes a message to every *)
(* channel, or to one; a message that finds its channel full waits in that *)
(* channel's back pressure queue, which an asynchronous action on the      *)
(* server's event queue empties into the channel.                          *)
(*                                                                         *)
(* A channel is the buffer of BoundedChannel, which ShmQueueProofs shows   *)
(* the ring to implement.  Pushes and the asynchronous actions all run on  *)
(* the thread of the server's event queue, one at a time.                  *)
(***************************************************************************)
EXTENDS Naturals, Sequences, FiniteSets, Functions

CONSTANTS
    Clients,        \* client processes, each with its own consumerId
    MaxChannels,    \* _allowedChannels
    Capacity,       \* _consumerQueueSize
    MaxPushes,      \* bound: messages pushed
    Handlers,       \* back pressure handlers the server's pushes use
    NoClient,
    NoChannel

ASSUME BroadcastAssumption ==
    /\ MaxChannels \in Nat \ {0} /\ Capacity \in Nat \ {0} /\ MaxPushes \in Nat
    /\ Handlers \subseteq {"default", "reject"}
    /\ NoClient \notin Clients /\ NoChannel \notin Nat

Channels == 0 .. MaxChannels - 1

VARIABLES
    active,         \* _activeChannels
    name,           \* name of each channel: the client it was given to
    mutex,          \* who holds _allocationMutex
    client,         \* where each client process is
    seen,           \* currentChannels, in AllocQueueChannel
    ring,           \* the messages in each channel, oldest first
    backPressure,   \* _backPressureChannels
    outgoing,       \* _activeOutgoingChannel
    drains,         \* asynchronous actions on the event queue, by channel
    prepared,       \* _preparedEntry of the server's event queue is set
    server,         \* what the server's thread is doing
    pushes,         \* history: what each message was pushed for
    joinedAt,       \* history: broadcasts that had begun when the channel joined
    received,       \* history: what each channel's client has handled
    stranded        \* history: channels whose back pressure queue nobody empties

allocVars == <<active, name, mutex, seen, joinedAt>>
readerVars == <<client, received>>
queueVars == <<backPressure, drains, stranded>>
serverVars == <<queueVars, outgoing, prepared, server, pushes>>
vars == <<allocVars, readerVars, ring, serverVars>>

Idle == [at |-> "idle"]

Init ==
    /\ active = 0
    /\ name = [c \in Channels |-> NoClient]
    /\ mutex = NoClient
    /\ client = [k \in Clients |-> "out"]
    /\ seen = [k \in Clients |-> 0]
    /\ ring = [c \in Channels |-> <<>>]
    /\ backPressure = [c \in Channels |-> <<>>]
    /\ outgoing = 0
    /\ drains = <<>>
    /\ prepared = FALSE
    /\ server = Idle
    /\ pushes = <<>>
    /\ joinedAt = [c \in Channels |-> 0]
    /\ received = [c \in Channels |-> <<>>]
    /\ stranded = {}

-----------------------------------------------------------------------------
(* The client processes: AllocQueueChannel.                                 *)

To(k, place) == client' = [client EXCEPT ![k] = place]

(* Mutated: the mutex is private to each process. *)
M_Lock(k) ==
    /\ client[k] \in {"out", "dead"}
    /\ mutex' = k
    /\ To(k, "locked")
    /\ UNCHANGED <<active, name, seen, joinedAt, received, ring, serverVars>>

(* A process that died may be started again with the same consumerId. *)
Lock(k) ==
    /\ client[k] \in {"out", "dead"}
    /\ mutex = NoClient
    /\ mutex' = k
    /\ To(k, "locked")
    /\ UNCHANGED <<active, name, seen, joinedAt, received, ring, serverVars>>

(* The load of _activeChannels and the two reasons to throw: the name is    *)
(* taken, or no channel is left.                                            *)
Examine(k) ==
    /\ client[k] = "locked"
    /\ IF (\E c \in Channels : c < active /\ name[c] = k) \/ active >= MaxChannels
          THEN /\ To(k, "dead") /\ mutex' = NoClient
               /\ UNCHANGED seen
          ELSE /\ To(k, "naming") /\ seen' = [seen EXCEPT ![k] = active]
               /\ UNCHANGED mutex
    /\ UNCHANGED <<active, name, joinedAt, received, ring, serverVars>>

Broadcasts == Cardinality({n \in DOMAIN pushes : pushes[n].to = NoChannel})

(* The channel gets its name. *)
NameChannel(k) ==
    /\ client[k] = "naming"
    /\ name' = [name EXCEPT ![seen[k]] = k]
    /\ To(k, "named")
    /\ UNCHANGED <<active, mutex, seen, joinedAt, received, ring, serverVars>>

(* It joins the active ones: the server pushes to it from now on. *)
Activate(k) ==
    /\ client[k] = "named"
    /\ active' = seen[k] + 1
    /\ joinedAt' = [joinedAt EXCEPT ![seen[k]] = Broadcasts]
    /\ To(k, "activated")
    /\ UNCHANGED <<name, mutex, seen, received, ring, serverVars>>

(* The mutex is given back.  The constructor of the client may throw after  *)
(* that: the queue has another type, or its messages have.                  *)
Unlock(k) ==
    /\ client[k] = "activated"
    /\ mutex' = NoClient
    /\ To(k, "reading") \/ To(k, "dead")
    /\ UNCHANGED <<active, name, seen, joinedAt, received, ring, serverVars>>

(* The mutex is not robust: one that dies holding it keeps it. *)
Die(k) ==
    /\ client[k] \in {"locked", "naming", "named", "activated", "reading"}
    /\ To(k, "dead")
    /\ UNCHANGED <<allocVars, received, ring, serverVars>>

-----------------------------------------------------------------------------
(* pollAndDispatch of a client, on its own channel: the handler's message    *)
(* leaves the channel when the handler has returned.                        *)
Dispatch(k) ==
    /\ client[k] = "reading"
    /\ LET c == seen[k] IN
          /\ ring[c] # <<>>
          /\ received' = [received EXCEPT ![c] = Append(@, Head(ring[c]))]
          /\ ring' = [ring EXCEPT ![c] = Tail(@)]
    /\ UNCHANGED <<allocVars, client, serverVars>>

-----------------------------------------------------------------------------
(* The server's thread.                                                     *)

(* enqueue fails on this channel. *)
Full(c) == Len(ring[c]) = Capacity

(* pushMessage to every channel: the channels active when it begins. *)
Broadcast(h) ==
    /\ server = Idle /\ Len(pushes) < MaxPushes
    /\ server' = [at |-> "push", message |-> Len(pushes) + 1, handler |-> h,
                  next |-> 0, end |-> active]
    /\ pushes' = Append(pushes, [to |-> NoChannel, refusedAt |-> MaxChannels])
    /\ UNCHANGED <<allocVars, readerVars, ring, queueVars, outgoing, prepared>>

(* pushMessage to one channel, which need not be active. *)
PushTo(c, h) ==
    /\ server = Idle /\ Len(pushes) < MaxPushes
    /\ server' = [at |-> "push", message |-> Len(pushes) + 1, handler |-> h,
                  next |-> c, end |-> c + 1]
    /\ pushes' = Append(pushes, [to |-> c, refusedAt |-> MaxChannels])
    /\ UNCHANGED <<allocVars, readerVars, ring, queueVars, outgoing, prepared>>

(* The action that startBackPressureQueue posts is refused on a thread with *)
(* a prepared payload, which nobody looks at.                               *)
StartBackPressureQueue(c, m) ==
    /\ backPressure' = [backPressure EXCEPT ![c] = Append(@, m)]
    /\ IF prepared THEN stranded' = stranded \union {c} /\ UNCHANGED drains
       ELSE drains' = Append(drains, c) /\ UNCHANGED stranded

(* Mutated: the message that finds the channel full starts no action. *)
M_DefaultHandler(c, m) ==
    /\ backPressure' = [backPressure EXCEPT ![c] = Append(@, m)]
    /\ UNCHANGED <<drains, stranded>>

(* applyDefaultBackPressureHandler *)
DefaultHandler(c, m) ==
    IF backPressure[c] = <<>>
      THEN StartBackPressureQueue(c, m)
      ELSE /\ backPressure' = [backPressure EXCEPT ![c] = Append(@, m)]
           /\ UNCHANGED <<drains, stranded>>

NextChannel == [server EXCEPT !.next = @ + 1]

(* Mutated: only a full channel makes a message wait. *)
M_Congested(c) == Full(c)

(* Does the message for channel c go to the back pressure handler? *)
Congested(c) == backPressure[c] # <<>> \/ Full(c)

(* pushMessageToChannel refuses a channel that is not active. *)
PushInvalid ==
    /\ server.at = "push" /\ server.next < server.end
    /\ server.next >= active
    /\ server' = Idle
    /\ pushes' = [pushes EXCEPT ![server.message].refusedAt = server.next]
    /\ UNCHANGED <<allocVars, readerVars, ring, queueVars, outgoing, prepared>>

PushThrough ==
    /\ server.at = "push" /\ server.next < server.end
    /\ server.next < active
    /\ outgoing' = server.next
    /\ ~Congested(server.next)
    /\ ring' = [ring EXCEPT ![server.next] = Append(@, server.message)]
    /\ server' = NextChannel
    /\ UNCHANGED <<allocVars, readerVars, queueVars, prepared, pushes>>

PushBuffered ==
    /\ server.at = "push" /\ server.next < server.end
    /\ server.next < active
    /\ outgoing' = server.next
    /\ Congested(server.next)
    /\ server.handler = "default"
    /\ DefaultHandler(outgoing', server.message)
    /\ server' = NextChannel
    /\ UNCHANGED <<allocVars, readerVars, ring, prepared, pushes>>

(* The error of a back pressure handler ends the push, channels to go or not. *)
PushRejected ==
    /\ server.at = "push" /\ server.next < server.end
    /\ server.next < active
    /\ outgoing' = server.next
    /\ Congested(server.next)
    /\ server.handler = "reject"
    /\ server' = Idle
    /\ pushes' = [pushes EXCEPT ![server.message].refusedAt = server.next]
    /\ UNCHANGED <<allocVars, readerVars, ring, queueVars, prepared>>

PushDone ==
    /\ server.at = "push" /\ server.next = server.end
    /\ server' = Idle
    /\ UNCHANGED <<allocVars, readerVars, ring, queueVars, outgoing, prepared, pushes>>

(* A user's callback may take a payload, and another post an action that    *)
(* uses it.                                                                 *)
Prepare ==
    /\ server = Idle
    /\ prepared' = ~prepared
    /\ UNCHANGED <<allocVars, readerVars, ring, queueVars, outgoing, server, pushes>>

-----------------------------------------------------------------------------
(* The asynchronous action of startBackPressureQueue.                       *)
Drain ==
    /\ server = Idle /\ drains # <<>>
    /\ server' = [at |-> "drain", channel |-> Head(drains)]
    /\ drains' = Tail(drains)
    /\ UNCHANGED <<allocVars, readerVars, ring, backPressure, stranded, outgoing, prepared, pushes>>

DrainOne ==
    /\ server.at = "drain"
    /\ LET c == server.channel IN
          /\ backPressure[c] # <<>> /\ ~Full(c)
          /\ ring' = [ring EXCEPT ![c] = Append(@, Head(backPressure[c]))]
          /\ backPressure' = [backPressure EXCEPT ![c] = Tail(@)]
    /\ UNCHANGED <<allocVars, readerVars, outgoing, drains, stranded, prepared, server, pushes>>

(* Mutated: the action is over when the channel is full. *)
M_DrainRetry ==
    /\ server.at = "drain"
    /\ backPressure[server.channel] # <<>> /\ Full(server.channel)
    /\ server' = Idle
    /\ UNCHANGED <<allocVars, readerVars, ring, queueVars, outgoing, prepared, pushes>>

(* A full channel makes the action try again in a later cycle: its wrapper  *)
(* posts it again, and an error there ends the event loop.                  *)
DrainRetry ==
    /\ server.at = "drain"
    /\ backPressure[server.channel] # <<>> /\ Full(server.channel)
    /\ IF prepared
          THEN server' = [at |-> "failed"] /\ UNCHANGED drains
          ELSE server' = Idle /\ drains' = Append(drains, server.channel)
    /\ UNCHANGED <<allocVars, readerVars, ring, backPressure, stranded, outgoing, prepared, pushes>>

DrainDone ==
    /\ server.at = "drain"
    /\ backPressure[server.channel] = <<>>
    /\ server' = Idle
    /\ UNCHANGED <<allocVars, readerVars, ring, queueVars, outgoing, prepared, pushes>>

-----------------------------------------------------------------------------
ServerWork ==
    \/ PushInvalid \/ PushThrough \/ PushBuffered \/ PushRejected \/ PushDone
    \/ Drain \/ DrainOne \/ DrainRetry \/ DrainDone

ClientStep(k) ==
    \/ Lock(k) \/ Examine(k) \/ NameChannel(k) \/ Activate(k) \/ Unlock(k)
    \/ Die(k) \/ Dispatch(k)

Next ==
    \/ ServerWork \/ Prepare
    \/ \E h \in Handlers : Broadcast(h)
    \/ \E h \in Handlers, c \in Channels : PushTo(c, h)
    \/ \E k \in Clients : ClientStep(k)

Spec == Init /\ [][Next]_vars

(* The server's loop keeps running what is posted to it, and a client that  *)
(* lives keeps polling; nobody has to push, to join or to die.              *)
FairSpec ==
    /\ Spec
    /\ WF_vars(ServerWork)
    /\ \A k \in Clients : WF_vars(Dispatch(k))

-----------------------------------------------------------------------------
TypeOK ==
    /\ active \in 0 .. MaxChannels
    /\ name \in [Channels -> Clients \union {NoClient}]
    /\ mutex \in Clients \union {NoClient}
    /\ client \in [Clients -> {"out", "locked", "naming", "named", "activated", "reading", "dead"}]
    /\ seen \in [Clients -> 0 .. MaxChannels - 1]
    /\ \A c \in Channels : /\ ring[c] \in Seq(DOMAIN pushes) /\ Len(ring[c]) <= Capacity
                          /\ backPressure[c] \in Seq(DOMAIN pushes)
                          /\ received[c] \in Seq(DOMAIN pushes)
                          /\ joinedAt[c] \in 0 .. MaxPushes
    /\ outgoing \in Channels
    /\ drains \in Seq(Channels)
    /\ prepared \in BOOLEAN /\ stranded \subseteq Channels
    /\ server.at \in {"idle", "push", "drain", "failed"}
    /\ Len(pushes) <= MaxPushes

(* AllocQueueChannel gives a channel to one process and a process one       *)
(* channel: whatever processes start, die at any step and start again, a    *)
(* client that reads is the one its channel is named for, and no two active *)
(* channels bear the same name.  A channel with a name that is not active   *)
(* is the next one, and whoever named it holds the mutex, dead or alive: no *)
(* channel is given out before it is active.                                *)
ChannelsOwned ==
    /\ \A k \in Clients : client[k] = "reading" => seen[k] < active /\ name[seen[k]] = k
    /\ \A c \in Channels : c < active => name[c] # NoClient
    /\ \A b, c \in Channels : b < active /\ c < active /\ name[b] = name[c] => b = c
    /\ \A c \in Channels : c >= active /\ name[c] # NoClient =>
          /\ c = active /\ name[c] = mutex
          /\ client[mutex] \in {"named", "dead"}

(* The messages channel c has been promised: those pushed to it alone, and  *)
(* every broadcast that began after it became active, as far as the loops   *)
(* of the pushes have come and no back pressure handler has refused.        *)
Ordinal(n) == Cardinality({i \in 1 .. n : pushes[i].to = NoChannel})
Reached(n, c) == server.at = "push" /\ server.message = n => c < server.next
Promised(n, c) ==
    /\ \/ pushes[n].to = c
       \/ pushes[n].to = NoChannel /\ c < active /\ Ordinal(n) > joinedAt[c]
    /\ c < pushes[n].refusedAt
    /\ Reached(n, c)
PromisedTo(c) == {n \in DOMAIN pushes : Promised(n, c)}

(* The messages that have come to channel c, and where they are, the oldest *)
(* first.                                                                   *)
Carried(c) == received[c] \o ring[c] \o backPressure[c]
InOrder(s) == \A i, j \in DOMAIN s : i < j => s[i] < s[j]

(* Messages take three ways to a client: into the channel, through the back *)
(* pressure queue, and through it after a failed attempt.  On all of them   *)
(* together a channel carries each message it was promised once, in the     *)
(* order of the pushes, and a full channel costs another none.              *)
EachInOrder ==
    \A c \in Channels : Range(Carried(c)) = PromisedTo(c) /\ InOrder(Carried(c))

(* "Queue already active so just amend it": a back pressure queue with      *)
(* messages has one action that empties it, posted or running, and an empty *)
(* one has no action waiting, unless the action was refused, unnoticed, for *)
(* a payload that the thread had prepared.                                  *)
Draining(c) == server.at = "drain" /\ server.channel = c
Drainers(c) == Cardinality({i \in DOMAIN drains : drains[i] = c}) + (IF Draining(c) THEN 1 ELSE 0)
DrainerAlive ==
    server.at # "failed" =>
        \A c \in Channels \ stranded :
            Drainers(c) = IF backPressure[c] # <<>> \/ Draining(c) THEN 1 ELSE 0

(* Whatever is buffered, and however many clients have died with their      *)
(* channels full, a client that stays alive gets every message its channel  *)
(* was promised, while the loop runs and its channel is not stranded.       *)
Delivered ==
    \A k \in Clients, n \in 1 .. MaxPushes :
        client[k] = "reading" /\ Cardinality(PromisedTo(seen[k])) >= n
          ~> \/ client[k] # "reading" \/ Len(received[seen[k]]) >= n
             \/ seen[k] \in stranded \/ server.at = "failed"
=============================================================================
