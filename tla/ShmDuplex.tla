----------------------------- MODULE ShmDuplex -----------------------------
(***************************************************************************)
(* The full duplex endpoints of the shared memory library                  *)
(* (shm_endpoints/FullDuplexEndpointsImpl.hpp) with what they are made of: *)
(* the fan-in queue of the requests (SCMPEndpointsImpl.hpp), the queue of  *)
(* the replies (SPMCEndpointsImpl.hpp), the segments all three live in     *)
(* (SharedMemoryObjectManager.hpp) and the factory that polls them.        *)
(*                                                                         *)
(* A server process creates the segments, clears those that are there      *)
(* already, crashes, exits and starts again.  A client process joins in    *)
(* steps, can die between any two, and can outlive the server it joined.   *)
(*                                                                         *)
(* A channel is the buffer of BoundedChannel, which ShmQueueProofs shows   *)
(* the ring to implement; the allocation of one is a single step here and  *)
(* is taken apart in ShmBroadcast.  std::rand is not seeded: each process  *)
(* of a server gives its two queues the same names.  Left out: the pushes  *)
(* that are no reply (ShmBroadcast has them) and back pressure handlers of *)
(* the application's own.                                                  *)
(***************************************************************************)
EXTENDS Naturals, Sequences, FiniteSets, SequencesExt

CONSTANTS
    Clients,        \* client processes, each with its own clientId
    MaxClients,     \* maxClients of the server
    Capacity,       \* producerQueueSize and consumerQueueSize
    MaxRequests,    \* bound: requests of each client, a function
    MaxFaults       \* bound: starts of the server and deaths of clients, in all

ASSUME DuplexAssumption ==
    /\ MaxClients \in Nat \ {0} /\ Capacity \in Nat \ {0}
    /\ MaxRequests \in [Clients -> Nat] /\ MaxFaults \in Nat

Queues == {"requests", "replies"}
Segments == {"duplex"} \union Queues
Channels == 0 .. MaxClients - 1
(* A segment's objects: a name that was unlinked stands for a new one.      *)
Objects == 1 .. MaxFaults

VARIABLES
    names,          \* the object each name stands for, 0 for none
    built,          \* the object holds its layout, and not zeroes
    entries,        \* _consumerProducerMap, its first _activeClients
    owner,          \* names of the active channels of a queue
    ring,           \* the messages in each channel, oldest first
    server,         \* what the server process is doing
    starts,         \* server processes so far
    created,        \* the segments the server has _created
    activeClientProducerIndex,
    backPressure,   \* _backPressureChannels of the replies
    drains,         \* the server's asynchronous actions, by channel
    stranded,       \* history: channels whose back pressure nobody empties
    client,         \* where each client process is
    object,         \* the object of each segment it has mapped
    channel,        \* its channel of each queue
    waiting,        \* its _backPressureQueue
    unposted,       \* history: clients whose queue nobody empties
    sent,           \* history: requests of each client
    joined,         \* history: how many of them an earlier process sent
    handled,        \* history: requests the server has handled, by client
    answers,        \* history: requests each client has a reply to
    stale,          \* history: clients whose segment was cleared or replaced
    torn,           \* history: clients two of which wrote to one channel at once
    deaths

shmVars == <<names, built, entries, owner, ring>>
serverVars == <<server, starts, created, activeClientProducerIndex, backPressure, drains,
                stranded>>
clientVars == <<client, object, channel, waiting, unposted, sent, joined, answers, torn, deaths>>
duplexVars == <<shmVars, serverVars, clientVars, handled, stale>>

Empty == [c \in Channels |-> <<>>]
Down == [at |-> "down"]
Idle == [at |-> "idle"]

DuplexInit ==
    /\ names = [s \in Segments |-> 0]
    /\ built = [s \in Segments |-> [o \in Objects |-> FALSE]]
    /\ entries = [o \in Objects |-> <<>>]
    /\ owner = [q \in Queues |-> [o \in Objects |-> <<>>]]
    /\ ring = [q \in Queues |-> [o \in Objects |-> Empty]]
    /\ server = Down /\ starts = 0 /\ created = {}
    /\ activeClientProducerIndex = 0 /\ backPressure = Empty /\ drains = <<>>
    /\ stranded = {} /\ unposted = {} /\ torn = {}
    /\ client = [k \in Clients |-> "out"]
    /\ object = [k \in Clients |-> [s \in Segments |-> 0]]
    /\ channel = [k \in Clients |-> [q \in Queues |-> 0]]
    /\ waiting = [k \in Clients |-> <<>>]
    /\ sent = [k \in Clients |-> 0] /\ joined = [k \in Clients |-> 0]
    /\ handled = [k \in Clients |-> <<>>] /\ answers = [k \in Clients |-> {}]
    /\ stale = {} /\ deaths = 0

-----------------------------------------------------------------------------
(* The server process: its segments.                                        *)

UsersOf(s, o) == {k \in Clients : object[k][s] = o}

(* CREATE_OR_OPEN: a segment that exists is resized and cleared, whoever    *)
(* uses it, and is not this process's to unlink.                            *)
OpenSegment(s, new) ==
    LET o == IF names[s] = 0 THEN new ELSE names[s] IN
    /\ names' = [names EXCEPT ![s] = o]
    /\ created' = IF names[s] = 0 THEN created \union {s} ELSE created
    /\ built' = [built EXCEPT ![s][o] = FALSE]
    /\ IF s = "duplex" THEN entries' = [entries EXCEPT ![o] = <<>>] /\ UNCHANGED <<owner, ring>>
       ELSE /\ owner' = [owner EXCEPT ![s][o] = <<>>]
            /\ ring' = [ring EXCEPT ![s][o] = Empty]
            /\ UNCHANGED entries
    /\ stale' = stale \union UsersOf(s, o)

(* The constructor of the server endpoint opens the three, in this order.   *)
StartServer ==
    /\ server = Down /\ starts + deaths < MaxFaults
    /\ starts' = starts + 1
    /\ OpenSegment("duplex", starts + 1)
    /\ server' = [at |-> "opened", segment |-> "duplex"]
    /\ UNCHANGED <<activeClientProducerIndex, backPressure, drains, stranded, clientVars, handled>>

(* construct_at, and for the duplex segment the names of the queues.        *)
Construct ==
    /\ server.at = "opened"
    /\ built' = [built EXCEPT ![server.segment][names[server.segment]] = TRUE]
    /\ server' = IF server.segment = "requests" THEN Idle
                 ELSE [at |-> "built", segment |-> server.segment]
    /\ UNCHANGED <<names, entries, owner, ring, starts, created, activeClientProducerIndex,
                   backPressure, drains, stranded, clientVars, handled, stale>>

OpenNext ==
    /\ server.at = "built"
    /\ LET s == IF server.segment = "duplex" THEN "replies" ELSE "requests" IN
          /\ OpenSegment(s, starts)
          /\ server' = [at |-> "opened", segment |-> s]
    /\ UNCHANGED <<starts, activeClientProducerIndex, backPressure, drains, stranded, clientVars,
                   handled>>

Gone ==
    /\ server' = Down /\ created' = {}
    /\ activeClientProducerIndex' = 0 /\ backPressure' = Empty /\ drains' = <<>>
    /\ stranded' = {}
    /\ UNCHANGED <<starts, built, entries, owner, ring, clientVars, handled>>

(* Nothing is unlinked.  So ends also a server whose loop cannot post an    *)
(* action again (Drain), because its thread has a prepared payload.         *)
Crash ==
    /\ server # Down
    /\ Gone
    /\ UNCHANGED <<names, stale>>

(* The destructors unlink what this process created, and the queue of the   *)
(* replies in any case.  Clients keep what they have mapped.                *)
Exit ==
    /\ server = Idle
    /\ Gone
    /\ names' = [s \in Segments |-> IF s \in created \union {"replies"} THEN 0 ELSE names[s]]
    /\ stale' = stale \union UNION {UsersOf(s, names[s]) : s \in created \union {"replies"}}

-----------------------------------------------------------------------------
(* The client processes: joining.                                           *)

To(k, place) == client' = [client EXCEPT ![k] = place]

(* What a process that ends, or does not get on, leaves behind.             *)
Leave(k) ==
    /\ To(k, "out")
    /\ object' = [object EXCEPT ![k] = [s \in Segments |-> 0]]
    /\ channel' = [channel EXCEPT ![k] = [q \in Queues |-> 0]]
    /\ waiting' = [waiting EXCEPT ![k] = <<>>]
    /\ unposted' = unposted \ {k} /\ torn' = torn \ {k} /\ stale' = stale \ {k}

(* A segment that is missing, or is not a duplex one yet, makes the         *)
(* constructor throw.                                                       *)
Attach(k) ==
    /\ client[k] = "out"
    /\ names["duplex"] # 0 /\ built["duplex"][names["duplex"]]
    /\ object' = [object EXCEPT ![k]["duplex"] = names["duplex"]]
    /\ joined' = [joined EXCEPT ![k] = sent[k]]
    /\ To(k, "attached")
    /\ UNCHANGED <<shmVars, serverVars, channel, waiting, unposted, sent, answers, torn, deaths,
                   handled, stale>>

(* AllocQueueChannel gives this client a channel of the queue.              *)
CanAlloc(k, q) ==
    LET o == names[q] IN
    /\ built["duplex"][object[k]["duplex"]]
    /\ o # 0 /\ built[q][o]
    /\ Len(owner[q][o]) < MaxClients
    /\ ~Contains(owner[q][o], k)

AllocQueueChannel(k, q) ==
    LET o == names[q] IN
    /\ channel' = [channel EXCEPT ![k][q] = Len(owner[q][o])]
    /\ object' = [object EXCEPT ![k][q] = o]
    /\ owner' = [owner EXCEPT ![q][o] = Append(@, k)]

(* The producer of the requests, then the consumer of the replies.          *)
Alloc(k, from, q, to) ==
    /\ client[k] = from
    /\ CanAlloc(k, q)
    /\ AllocQueueChannel(k, q)
    /\ To(k, to)
    /\ UNCHANGED <<names, built, entries, ring, serverVars, waiting, unposted, sent, joined,
                   answers, torn, deaths, handled, stale>>

CreateProducer(k) == Alloc(k, "attached", "requests", "sending")
CreateConsumer(k) == Alloc(k, "sending", "replies", "mapping")

(* An exception ends the attempt: channels it has taken stay taken.         *)
Refused(k) ==
    /\ \/ client[k] = "attached" /\ ~CanAlloc(k, "requests")
       \/ client[k] = "sending" /\ ~CanAlloc(k, "replies")
       \/ client[k] = "mapping" /\ ~built["duplex"][object[k]["duplex"]]
    /\ Leave(k)
    /\ UNCHANGED <<shmVars, serverVars, sent, joined, answers, deaths, handled>>

(* The map has room: every client that comes here has a channel.            *)
AddMapEntry(k) ==
    /\ client[k] = "mapping"
    /\ LET o == object[k]["duplex"] IN
          /\ built["duplex"][o]
          /\ entries' = IF Len(entries[o]) >= MaxClients THEN entries
                        ELSE [entries EXCEPT ![o] = Append(@,
                                [consumerIndex |-> channel[k]["replies"],
                                 producerIndex |-> channel[k]["requests"]])]
          /\ IF Len(entries[o]) >= MaxClients THEN Leave(k)
             ELSE To(k, "ready") /\ UNCHANGED <<object, channel, waiting, unposted, torn, stale>>
    /\ UNCHANGED <<names, built, owner, ring, serverVars, sent, joined, answers, deaths,
                   handled>>

(* So ends also a client whose loop cannot post EmptyWaiting again.         *)
Die(k) ==
    /\ client[k] # "out" /\ starts + deaths < MaxFaults
    /\ deaths' = deaths + 1
    /\ Leave(k)
    /\ UNCHANGED <<shmVars, serverVars, sent, joined, answers, handled>>

-----------------------------------------------------------------------------
(* The client processes: requests and replies.                              *)

Own(k, q) == ring[q][object[k][q]][channel[k][q]]
RoomIn(r) == Capacity - Len(r)

(* enqueue() loads the tail, writes the slot and stores the tail, for one   *)
(* writer; of two at once see Collide.                                      *)
Enqueue(k, ms) ==
    ring' = [ring EXCEPT !["requests"][object[k]["requests"]][channel[k]["requests"]] = @ \o ms]

(* A segment that a new server has cleared gives out its channels anew,     *)
(* while clients that outlived the old server go on writing to the same     *)
(* memory.                                                                  *)
Sharers(k) ==
    {j \in Clients : client[j] \in {"sending", "mapping", "ready"}
                     /\ object[j]["requests"] = object[k]["requests"]
                     /\ channel[j]["requests"] = channel[k]["requests"]}

(* What its slots can hold: requests of those who have the channel, or of   *)
(* processes that are gone.                                                 *)
Slots(k) ==
    {m \in UNION {[from : {j}, n : 1 .. sent[j]] : j \in Clients} :
        client[m.from] = "ready" /\ m.n > joined[m.from] => m.from \in Sharers(k)}

(* Their calls of enqueue() overlap: a slot is written twice, or a tail is  *)
(* set back, and the channel shows any of what its slots hold.  Nothing is  *)
(* said of these clients from then on, so once is enough.  A client that    *)
(* still has the cleared channel for itself only puts its own there.        *)
Collide(k) ==
    /\ client[k] = "ready" /\ k \in stale
    /\ Sharers(k) # {k} /\ ~(Sharers(k) \subseteq torn)
    /\ object[k]["requests"] = names["requests"] /\ built["requests"][names["requests"]]
    /\ \E r \in BoundedSeq(Slots(k), Capacity) :
          ring' = [ring EXCEPT !["requests"][names["requests"]][channel[k]["requests"]] = r]
    /\ torn' = torn \union Sharers(k)
    /\ UNCHANGED <<names, built, entries, owner, serverVars, client, object, channel, waiting,
                   unposted, sent, joined, answers, deaths, handled, stale>>

(* Mutated: only a full channel makes a request wait. *)
M_MustWait(k) == RoomIn(Own(k, "requests")) = 0

(* Does the request go to applyDefaultBackPressureHandler? *)
MustWait(k) == waiting[k] # <<>> \/ RoomIn(Own(k, "requests")) = 0

(* startBackPressureQueue posts the action that empties the queue and does  *)
(* not look whether the loop refused it.                                    *)
PostEmptying(k) ==
    \/ UNCHANGED unposted
    \/ waiting[k] = <<>> /\ unposted' = unposted \union {k}

(* pushMessage; in a segment that was just cleared the size of the ring is  *)
(* zero, and the remainder by it ends the process.                          *)
PushMessage(k) ==
    /\ client[k] = "ready" /\ sent[k] < MaxRequests[k]
    /\ built["requests"][object[k]["requests"]]
    /\ sent' = [sent EXCEPT ![k] = @ + 1]
    /\ LET m == [from |-> k, n |-> sent[k] + 1] IN
          IF MustWait(k)
            THEN /\ waiting' = [waiting EXCEPT ![k] = Append(@, m)]
                 /\ PostEmptying(k)
                 /\ UNCHANGED ring
            ELSE Enqueue(k, <<m>>) /\ UNCHANGED <<waiting, unposted>>
    /\ UNCHANGED <<names, built, entries, owner, serverVars, client, object, channel, joined,
                   answers, torn, deaths, handled, stale>>

PushIntoZeroes(k) ==
    /\ client[k] = "ready"
    /\ sent[k] < MaxRequests[k] \/ waiting[k] # <<>>
    /\ ~built["requests"][object[k]["requests"]]
    /\ Leave(k)
    /\ UNCHANGED <<shmVars, serverVars, sent, joined, answers, deaths, handled>>

(* A run of that action: as many as fit.  It is posted while requests wait, *)
(* and posts itself again until none does.                                  *)
EmptyWaiting(k) ==
    /\ client[k] = "ready" /\ waiting[k] # <<>> /\ k \notin unposted
    /\ built["requests"][object[k]["requests"]]
    /\ LET n == Min({RoomIn(Own(k, "requests")), Len(waiting[k])}) IN
          /\ n > 0
          /\ Enqueue(k, SubSeq(waiting[k], 1, n))
          /\ waiting' = [waiting EXCEPT ![k] = SubSeq(@, n + 1, Len(@))]
    /\ UNCHANGED <<names, built, entries, owner, serverVars, client, object, channel,
                   unposted, sent, joined, answers, torn, deaths, handled, stale>>

(* pollAndDispatch of the factory in the client, from AllocQueueChannel on. *)
(* Two readers of one channel, as the two writers above, can show again     *)
(* what was in it; that is left out.                                        *)
Receive(k) ==
    /\ client[k] \in {"mapping", "ready"} /\ Own(k, "replies") # <<>>
    /\ LET m == Head(Own(k, "replies")) IN
          answers' = IF m.from = k THEN [answers EXCEPT ![k] = @ \union {m.n}] ELSE answers
    /\ ring' = [ring EXCEPT !["replies"][object[k]["replies"]][channel[k]["replies"]] = Tail(@)]
    /\ UNCHANGED <<names, built, entries, owner, serverVars, client, object, channel, waiting,
                   unposted, sent, joined, torn, deaths, handled, stale>>

-----------------------------------------------------------------------------
(* The server's thread: pollAndDispatch of the fan-in queue.                *)

Requests == ring["requests"][names["requests"]]
Replies == ring["replies"][names["replies"]]

ActiveChannels == Len(owner["requests"][names["requests"]])

Poll ==
    /\ server = Idle /\ ActiveChannels > 0
    /\ server' = [at |-> "poll", next |-> 0, end |-> ActiveChannels]
    /\ UNCHANGED <<shmVars, starts, created, activeClientProducerIndex, backPressure, drains,
                   stranded, clientVars, handled, stale>>

(* A channel is left when it is found empty. *)
NextChannel ==
    /\ server.at = "poll" /\ Requests[server.next] = <<>>
    /\ server' = IF server.next + 1 < server.end THEN [server EXCEPT !.next = @ + 1] ELSE Idle
    /\ UNCHANGED <<shmVars, starts, created, activeClientProducerIndex, backPressure, drains,
                   stranded, clientVars, handled, stale>>

(* Mutated: the first entry of the map is taken. *)
M_Route(c) ==
    LET es == entries[names["duplex"]] IN
    IF \E i \in DOMAIN es : es[i].consumerIndex = c
      THEN es[1].producerIndex
      ELSE activeClientProducerIndex

(* The handler around the application's: the first entry whose              *)
(* consumerIndex is the channel the request came by.  The client has put    *)
(* the channel of its replies there.                                        *)
Route(c) ==
    LET es == entries[names["duplex"]]
        found == {i \in DOMAIN es : es[i].consumerIndex = c}
    IN  IF found = {} THEN activeClientProducerIndex ELSE es[Min(found)].producerIndex

Congested(c) == backPressure[c] # <<>> \/ RoomIn(Replies[c]) = 0

(* pushResponseMessage; a channel that is not active is refused, and the    *)
(* posting of the emptying action can be refused as in PostEmptying.        *)
PushResponse(c, m, rest) ==
    IF c >= Len(owner["replies"][names["replies"]])
      THEN ring' = rest /\ UNCHANGED <<backPressure, drains, stranded>>
      ELSE IF Congested(c)
        THEN /\ backPressure' = [backPressure EXCEPT ![c] = Append(@, m)]
             /\ IF backPressure[c] # <<>> THEN UNCHANGED <<drains, stranded>>
                ELSE \/ drains' = Append(drains, c) /\ UNCHANGED stranded
                     \/ stranded' = stranded \union {c} /\ UNCHANGED drains
             /\ ring' = rest
        ELSE /\ ring' = [rest EXCEPT !["replies"][names["replies"]][c] = Append(@, m)]
             /\ UNCHANGED <<backPressure, drains, stranded>>

(* The application answers each request in its handler.                     *)
Dispatch ==
    /\ server.at = "poll"
    /\ Requests[server.next] # <<>>
    /\ LET m == Head(Requests[server.next]) IN
          /\ handled' = [handled EXCEPT ![m.from] = Append(@, m.n)]
          /\ activeClientProducerIndex' = Route(server.next)
          /\ PushResponse(activeClientProducerIndex', m,
                [ring EXCEPT !["requests"][names["requests"]][server.next] = Tail(@)])
    /\ UNCHANGED <<names, built, entries, owner, server, starts, created, clientVars, stale>>

(* Mutated: the action is not posted again. *)
M_StillWaiting(c, n) == FALSE

(* The action posts itself again. *)
StillWaiting(c, n) == n < Len(backPressure[c])

(* A run of the asynchronous action of a channel's back pressure queue.     *)
Drain ==
    /\ server = Idle /\ drains # <<>>
    /\ LET c == Head(drains)
           n == Min({RoomIn(Replies[c]), Len(backPressure[c])}) IN
          /\ ring' = [ring EXCEPT !["replies"][names["replies"]][c] =
                                      @ \o SubSeq(backPressure[c], 1, n)]
          /\ backPressure' = [backPressure EXCEPT ![c] = SubSeq(@, n + 1, Len(@))]
          /\ drains' = IF StillWaiting(c, n) THEN Append(Tail(drains), c) ELSE Tail(drains)
    /\ UNCHANGED <<names, built, entries, owner, server, starts, created,
                   activeClientProducerIndex, stranded, clientVars, handled, stale>>

-----------------------------------------------------------------------------
ServerWork == Construct \/ OpenNext \/ NextChannel \/ Dispatch
ClientWork(k) == EmptyWaiting(k) \/ Receive(k)
Joining(k) ==
    \/ Attach(k) \/ CreateProducer(k) \/ CreateConsumer(k)
    \/ AddMapEntry(k) \/ Refused(k)

DuplexNext ==
    \/ StartServer \/ Crash \/ Exit
    \/ ServerWork \/ Poll \/ Drain
    \/ \E k \in Clients :
          \/ Joining(k) \/ ClientWork(k)
          \/ Die(k) \/ PushMessage(k) \/ PushIntoZeroes(k) \/ Collide(k)

DuplexSpec == DuplexInit /\ [][DuplexNext]_duplexVars

(* The cycle of the server's loop polls and runs the actions in turn, and a *)
(* client's loop does the same.  Nobody has to join, to push or to start.   *)
FairDuplexSpec ==
    /\ DuplexSpec
    /\ WF_duplexVars(ServerWork) /\ SF_duplexVars(Poll) /\ SF_duplexVars(Drain)
    /\ \A k \in Clients : WF_duplexVars(EmptyWaiting(k)) /\ WF_duplexVars(Receive(k))

-----------------------------------------------------------------------------
(* A client of this server, whose segments have not been cleared or         *)
(* replaced since it came.                                                  *)
Served(k) == client[k] = "ready" /\ k \notin stale
ServedMessage(m) == Served(m.from) /\ m.n > joined[m.from]

(* The three places a request of client k takes on its way to the server.  *)
Trail(k) ==
    [i \in DOMAIN handled[k] |-> [from |-> k, n |-> handled[k][i]]]
        \o Own(k, "requests") \o waiting[k]

(* Whatever processes start, die and start again, the requests of a client  *)
(* are handled once and in order: what was handled, is in the channel and   *)
(* waits at the client is together what the client has sent since it joined *)
(* this server; and nobody else who is served writes into its channel.      *)
(* Not so for a client whose channel a client of an earlier server wrote to *)
(* at the same time.                                                        *)
RequestsOnce ==
    \A k \in Clients : Served(k) /\ k \notin torn =>
        LET trail == Trail(k)
            own == {i \in DOMAIN trail : trail[i].from = k /\ trail[i].n > joined[k]}
        IN  /\ {trail[i].n : i \in own} = joined[k] + 1 .. sent[k]
            /\ \A i, j \in own : i < j => trail[i].n < trail[j].n
            /\ \A i \in DOMAIN Own(k, "requests") :
                  ServedMessage(Own(k, "requests")[i]) => Own(k, "requests")[i].from = k

(* Every client has the same number in both queues, as the handler takes it *)
(* to have: not if joins overlapped, one was given up half way, or one      *)
(* began at a server and ended at the next.                                 *)
Straight ==
    LET es == entries[names["duplex"]] IN
    \A i \in DOMAIN es : es[i].consumerIndex = es[i].producerIndex

(* As Straight fails, or is about to.                                       *)
Crossed ==
    LET rs == owner["requests"][names["requests"]]
        ps == owner["replies"][names["replies"]]
    IN  ~IsPrefix(ps, rs) \/ Len(rs) > Len(ps) + 1 \/ ~Straight

(* "Push message to active client producer channel": a reply is on its way  *)
(* to the client that sent the request.                                     *)
RightChannel(m, c) ==
    /\ c < Len(owner["replies"][names["replies"]])
    /\ owner["replies"][names["replies"]][c + 1] = m.from
ReplyToSender ==
    server.at \in {"idle", "poll"} =>
        \A c \in Channels : \A i \in DOMAIN (Replies[c] \o backPressure[c]) :
            RightChannel((Replies[c] \o backPressure[c])[i], c)

(* ReplyToSender holds for the requests of clients of this server as long   *)
(* as every client has the same number in both queues.                      *)
RepliesRouted ==
    server.at \in {"idle", "poll"} /\ Straight =>
        \A c \in Channels : \A i \in DOMAIN (Replies[c] \o backPressure[c]) :
            LET m == (Replies[c] \o backPressure[c])[i] IN
            ServedMessage(m) => RightChannel(m, c)

(* Nobody who outlived a server reads or writes the channels of this one.   *)
Outlived == stale # {}

(* Every request of a client is answered in the end, through two queues of  *)
(* back pressure and two bounded channels, unless the client or the server  *)
(* goes, the replies go wrong, or the action that empties one of the two    *)
(* queues was never posted.                                                 *)
Unhandled(k, n) ==
    LET ms == waiting[k] \o Own(k, "requests") IN
    \E i \in DOMAIN ms : ms[i] = [from |-> k, n |-> n]
Answered ==
    \A k \in Clients : \A n \in 1 .. MaxRequests[k] :
        client[k] = "ready" /\ Unhandled(k, n)
          ~> \/ ~Served(k) \/ Crossed \/ Outlived \/ server.at \notin {"idle", "poll"}
             \/ k \in unposted \/ channel[k]["replies"] \in stranded
             \/ n \in answers[k]
=============================================================================
