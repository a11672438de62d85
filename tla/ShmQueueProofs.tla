--------------------------- MODULE ShmQueueProofs ---------------------------
(***************************************************************************)
(* Proofs about the queues in shared memory: one channel, for any capacity *)
(* and any set of messages, and the broadcast queue made of channels, for  *)
(* any number of clients, channels, messages and places.                   *)
(***************************************************************************)
EXTENDS ShmChannel, ShmBroadcast, FiniteSetTheorems, SequenceTheorems, TLAPS

-----------------------------------------------------------------------------
(* A channel: the writer and the reader never meet in one place, and the    *)
(* ring implements the bounded channel.                                     *)
(*                                                                          *)
(* The argument: only the writer moves tail and only the reader moves head. *)
(* So what each of them has found out about the other's index - there is a  *)
(* free place, there is a message - stays true until it acts.               *)

(* What a process has found out stays true until it moves its index. *)
RoomFound == writer # "idle" => Succ(tail) # head
MessageFound == reader # "idle" => head # tail
WrittenFound == writer = "publish" => storage[tail] = message
HandlingFound ==
    /\ reader = "release" => handling = storage[head]
    /\ reader # "release" => handling = NoMessage

ChannelInv ==
    /\ RingTypeOK
    /\ RoomFound /\ MessageFound /\ WrittenFound /\ HandlingFound

-----------------------------------------------------------------------------
(* The invariant holds of a new channel. *)
LEMMA ChannelInit == RingInit => ChannelInv
BY ChannelAssumption
   DEF RingInit, ChannelInv, RingTypeOK, RoomFound, MessageFound, WrittenFound, HandlingFound, Places

(* The next index is a place of the ring, another one than the index. *)
LEMMA SuccPlace ==
    ASSUME NEW i \in Places
    PROVE  Succ(i) \in Places /\ Succ(i) # i
BY ChannelAssumption DEF Places, Succ

(* Different indices have different successors. *)
LEMMA SuccInjective ==
    ASSUME NEW i \in Places, NEW j \in Places, i # j
    PROVE  Succ(i) # Succ(j)
BY ChannelAssumption DEF Places, Succ

(* Every step of either process preserves the invariant. *)
LEMMA ChannelStep == ChannelInv /\ [RingNext]_ringVars => ChannelInv'
<1> SUFFICES ASSUME ChannelInv, [RingNext]_ringVars
             PROVE  ChannelInv'
  OBVIOUS
<1> USE DEF ChannelInv, RingTypeOK, RoomFound, MessageFound, WrittenFound, HandlingFound
<1>0. /\ Succ(head) \in Places /\ Succ(tail) \in Places
      /\ Succ(tail) # tail
      /\ NoMessage \notin Messages
  BY SuccPlace, ChannelAssumption
<1>1. ASSUME NEW m \in Messages, Enqueue(m)
      PROVE  ChannelInv'
  BY <1>0, <1>1 DEF Enqueue, readingVars
<1>2. CASE Write
  BY <1>0, <1>2 DEF Write, readingVars
<1>3. CASE Publish
  BY <1>0, <1>3 DEF Publish, readingVars
<1>4. CASE UpdatesAvailable
  BY <1>0, <1>4 DEF UpdatesAvailable, writerVars
<1>5. CASE Handle
  BY <1>0, <1>5 DEF Handle, writerVars
<1>6. CASE Release
  <2>1. head # tail /\ Succ(head) # Succ(tail)
    BY <1>6, SuccInjective DEF Release
  <2>2. QED
    BY <1>0, <1>6, <2>1 DEF Release, writerVars
<1>7. CASE UNCHANGED ringVars
  BY <1>7 DEF ringVars, writerVars, readingVars
<1>8. QED
  BY <1>1, <1>2, <1>3, <1>4, <1>5, <1>6, <1>7 DEF RingNext

(* The invariant, for every reachable state. *)
LEMMA ChannelCorrect == RingSpec => []ChannelInv
BY ChannelInit, ChannelStep, PTL DEF RingSpec

(* Type correctness: no index ever leaves the ring. *)
THEOREM ChannelTypeCorrect == RingSpec => []RingTypeOK
<1>1. ChannelInv => RingTypeOK
  BY DEF ChannelInv
<1>2. QED
  BY <1>1, ChannelCorrect, PTL

(* The writer never touches the place the reader is at, and a message is    *)
(* what it was when its handler was called until the handler returns.       *)
THEOREM MessagesIntact == RingSpec => []HandledIntact
<1>1. ChannelInv => HandledIntact
  BY DEF ChannelInv, HandledIntact, MessageFound, HandlingFound
<1>2. QED
  BY <1>1, ChannelCorrect, PTL

-----------------------------------------------------------------------------
(* The ring as a sequence: how many messages it holds, and where.           *)
LEMMA BufferShape ==
    ASSUME RingTypeOK
    PROVE  /\ Used \in 0 .. QueueSize
           /\ Used = 0 <=> head = tail
           /\ Used = QueueSize <=> Succ(tail) = head
           /\ \A i \in 1 .. Used : PlaceOf(i) \in Places /\ PlaceOf(i) # tail
           /\ Buffer \in Seq(Messages)
           /\ Len(Buffer) = Used
<1> USE ChannelAssumption DEF RingTypeOK, Places
<1>1. Used \in 0 .. QueueSize
  BY DEF Used, Size
<1>2. (Used = 0 <=> head = tail) /\ (Used = QueueSize <=> Succ(tail) = head)
  BY DEF Used, Size, Succ
<1>3. \A i \in 1 .. Used : PlaceOf(i) \in Places /\ PlaceOf(i) # tail
  BY DEF Used, Size, PlaceOf
<1>4. \A i \in 1 .. Used : storage[PlaceOf(i)] \in Messages
  BY <1>3
<1>5. Buffer \in [1 .. Used -> Messages] /\ Used \in Nat
  BY <1>1, <1>4 DEF Buffer
<1>6. Buffer \in Seq(Messages)
  BY <1>5
<1>7. Len(Buffer) = Used
  BY <1>1, <1>5 DEF Buffer
<1>8. QED
  BY <1>1, <1>2, <1>3, <1>6, <1>7

(* Every step of the two processes is a step of the bounded channel, or     *)
(* none: a message enters it when tail is stored and leaves it when head is *)
(* stored.                                                                  *)
LEMMA ChannelSimulates ==
    ASSUME ChannelInv, [RingNext]_ringVars
    PROVE  [Channel!Next]_(Channel!channelVars)
<1>0. RingTypeOK /\ RingTypeOK'
  BY ChannelStep DEF ChannelInv
<1>1. ASSUME UNCHANGED <<head, tail, storage>>
      PROVE  Buffer' = Buffer
  BY <1>1 DEF Buffer, Used, PlaceOf
<1>2. ASSUME NEW m \in Messages, Enqueue(m)
      PROVE  Channel!Refuse \/ UNCHANGED Channel!channelVars
  <2>1. Buffer' = Buffer /\ handling' = handling
    BY <1>1, <1>2 DEF Enqueue, readingVars
  <2>2. CASE Succ(tail) = head
    BY <1>0, <1>2, <2>1, <2>2, BufferShape DEF Enqueue, Channel!Refuse
  <2>3. CASE Succ(tail) # head
    BY <1>2, <2>1, <2>3 DEF Enqueue, Channel!channelVars
  <2>4. QED
    BY <2>2, <2>3
<1>3. ASSUME Write
      PROVE  UNCHANGED Channel!channelVars
  <2>1. Used' = Used /\ \A i \in 1 .. Used : PlaceOf(i)' = PlaceOf(i)
    BY <1>3 DEF Write, Used, PlaceOf
  <2>2. \A i \in 1 .. Used : storage'[PlaceOf(i)] = storage[PlaceOf(i)]
    BY <1>0, <1>3, BufferShape DEF Write, RingTypeOK
  <2>3. Buffer' = Buffer
    BY <2>1, <2>2 DEF Buffer
  <2>4. QED
    BY <1>3, <2>3 DEF Write, readingVars, Channel!channelVars
<1>4. ASSUME Publish
      PROVE  \E m \in Messages : Channel!Send(m)
  <2>1. /\ tail' = Succ(tail) /\ head' = head /\ storage' = storage
        /\ answer' = "sent" /\ handling' = handling
        /\ Succ(tail) # head /\ storage[tail] = message
    BY <1>4 DEF Publish, readingVars, ChannelInv, RoomFound, WrittenFound
  <2>2. message \in Messages
    BY <1>0, <2>1 DEF RingTypeOK
  <2>3. Used' = Used + 1 /\ \A i \in 1 .. Used' : PlaceOf(i)' = PlaceOf(i)
    BY <1>0, <2>1, ChannelAssumption DEF Used, PlaceOf, Size, Succ, RingTypeOK, Places
  <2>4. PlaceOf(Used + 1) = tail
    BY <1>0, <2>1, ChannelAssumption DEF Used, PlaceOf, Size, Succ, RingTypeOK, Places
  <2>5. Buffer \in Seq(Messages) /\ Len(Buffer) = Used /\ Used \in Nat
    BY <1>0, BufferShape
  <2>6. Buffer' = Append(Buffer, message)
    <3>1. /\ Buffer' = [i \in 1 .. (Used + 1) |-> storage[PlaceOf(i)]]
          /\ \A i \in 1 .. (Used + 1) : storage[PlaceOf(i)] \in Messages
      <4>1. \A i \in 1 .. Used : PlaceOf(i) \in Places
        BY <1>0, BufferShape
      <4>2. \A i \in 1 .. (Used + 1) : PlaceOf(i) \in Places
        BY <1>0, <2>4, <2>5, <4>1 DEF RingTypeOK
      <4>3. QED
        BY <1>0, <2>1, <2>3, <4>2 DEF Buffer, RingTypeOK
    <3>2. Append(Buffer, message) \in Seq(Messages) /\ Buffer' \in Seq(Messages)
      <4>1. Buffer' \in [1 .. (Used + 1) -> Messages] /\ Used + 1 \in Nat
        BY <2>5, <3>1
      <4>2. QED
        BY <2>2, <2>5, <4>1, AppendProperties
    <3>3. Len(Append(Buffer, message)) = Used + 1 /\ Len(Buffer') = Used + 1
      BY <2>2, <2>5, <3>1, AppendProperties
    <3>4. \A i \in 1 .. Used : Append(Buffer, message)[i] = Buffer[i]
      BY <2>2, <2>5, AppendProperties
    <3>5. Append(Buffer, message)[Used + 1] = message
      BY <2>2, <2>5, AppendProperties
    <3>6. \A i \in 1 .. (Used + 1) : Buffer'[i] = IF i = Used + 1 THEN message ELSE Buffer[i]
      BY <2>1, <2>3, <2>4, <2>5 DEF Buffer
    <3>7. \A i \in 1 .. (Used + 1) : Buffer'[i] = Append(Buffer, message)[i]
      BY <2>5, <3>4, <3>5, <3>6
    <3>8. QED
      BY <3>2, <3>3, <3>7, SeqEqual
  <2>7. Len(Buffer) < QueueSize
    BY <1>0, <2>1, <2>5, BufferShape, ChannelAssumption
  <2>8. QED
    BY <2>1, <2>2, <2>6, <2>7 DEF Channel!Send
<1>5. ASSUME UpdatesAvailable
      PROVE  UNCHANGED Channel!channelVars
  BY <1>1, <1>5 DEF UpdatesAvailable, writerVars, Channel!channelVars
<1>6. ASSUME Handle
      PROVE  Channel!Deliver
  <2>1. /\ head # tail /\ handling = NoMessage
        /\ handling' = storage[head] /\ answer' = answer
    BY <1>6 DEF Handle, writerVars, ChannelInv, MessageFound, HandlingFound
  <2>2. Buffer' = Buffer
    BY <1>1, <1>6 DEF Handle
  <2>3. Buffer \in Seq(Messages) /\ Len(Buffer) = Used /\ Used >= 1 /\ Used \in Nat
    BY <1>0, <2>1, BufferShape
  <2>4. PlaceOf(1) = head
    BY <1>0, ChannelAssumption DEF PlaceOf, RingTypeOK, Places
  <2>5. Buffer # <<>> /\ Head(Buffer) = storage[head]
    BY <2>3, <2>4 DEF Buffer
  <2>6. QED
    BY <2>1, <2>2, <2>5 DEF Channel!Deliver
<1>7. ASSUME Release
      PROVE  Channel!Remove
  <2>1. /\ head # tail /\ handling = storage[head] /\ handling' = NoMessage
        /\ head' = Succ(head) /\ tail' = tail /\ storage' = storage /\ answer' = answer
    BY <1>7 DEF Release, writerVars, ChannelInv, MessageFound, HandlingFound
  <2>2. handling # NoMessage
    BY <1>0, <2>1, ChannelAssumption DEF RingTypeOK
  <2>3. Used' = Used - 1 /\ \A i \in 1 .. Used' : PlaceOf(i)' = PlaceOf(i + 1)
    BY <1>0, <2>1, ChannelAssumption DEF Used, PlaceOf, Size, Succ, RingTypeOK, Places
  <2>4. Buffer \in Seq(Messages) /\ Len(Buffer) = Used /\ Used >= 1 /\ Used \in Nat
    BY <1>0, <2>1, BufferShape
  <2>5. Buffer' = Tail(Buffer)
    <3>1. Buffer # <<>>
      BY <2>4
    <3>2. /\ Buffer' = [i \in 1 .. (Used - 1) |-> storage[PlaceOf(i + 1)]]
          /\ \A i \in 1 .. (Used - 1) : storage[PlaceOf(i + 1)] \in Messages
      <4>1. \A i \in 1 .. (Used - 1) : PlaceOf(i + 1) \in Places
        BY <1>0, <2>4, BufferShape
      <4>2. QED
        BY <1>0, <2>1, <2>3, <4>1 DEF Buffer, RingTypeOK
    <3>3. Tail(Buffer) \in Seq(Messages) /\ Buffer' \in Seq(Messages)
      <4>1. Buffer' \in [1 .. (Used - 1) -> Messages] /\ Used - 1 \in Nat
        BY <2>4, <3>2
      <4>2. QED
        BY <2>4, <3>1, <4>1, HeadTailProperties
    <3>4. Len(Tail(Buffer)) = Used - 1 /\ Len(Buffer') = Used - 1
      BY <2>4, <3>1, <3>2, HeadTailProperties
    <3>5. \A i \in 1 .. (Used - 1) : Tail(Buffer)[i] = Buffer[i + 1]
      BY <2>4, <3>1, <3>4, HeadTailProperties
    <3>6. \A i \in 1 .. (Used - 1) : Buffer'[i] = Buffer[i + 1]
      BY <2>1, <2>3, <2>4 DEF Buffer
    <3>7. QED
      BY <3>3, <3>4, <3>5, <3>6, SeqEqual
  <2>6. QED
    BY <2>1, <2>2, <2>5 DEF Channel!Remove
<1>8. ASSUME UNCHANGED ringVars
      PROVE  UNCHANGED Channel!channelVars
  BY <1>1, <1>8 DEF ringVars, writerVars, readingVars, Channel!channelVars
<1>9. QED
  BY <1>2, <1>3, <1>4, <1>5, <1>6, <1>7, <1>8 DEF RingNext, Channel!Next

(* For every capacity and every set of messages, the ring implements the    *)
(* bounded first-in first-out channel.                                      *)
THEOREM ChannelImplements == RingSpec => ChannelPromise
<1>1. RingInit => Channel!Init
  <2> SUFFICES ASSUME RingInit PROVE Channel!Init
    OBVIOUS
  <2>1. Used = 0
    BY DEF RingInit, Used
  <2>2. Buffer = <<>>
    BY <2>1 DEF Buffer
  <2>3. QED
    BY <2>2 DEF RingInit, Channel!Init
<1>2. ChannelInv /\ [RingNext]_ringVars => [Channel!Next]_(Channel!channelVars)
  BY ChannelSimulates
<1>3. QED
  BY <1>1, <1>2, ChannelCorrect, PTL DEF RingSpec, ChannelPromise, Channel!Spec

-----------------------------------------------------------------------------
(* Channels. *)

ClientPlaces == {"out", "locked", "naming", "named", "activated", "reading", "dead"}
InAllocation == {"locked", "naming", "named", "activated"}

AllocationTypes ==
    /\ active \in 0 .. MaxChannels
    /\ name \in [Channels -> Clients \union {NoClient}]
    /\ mutex \in Clients \union {NoClient}
    /\ client \in [Clients -> ClientPlaces]
    /\ seen \in [Clients -> Channels]

(* A client between its lock and its unlock has the mutex, what it has read *)
(* of _activeChannels and of the names holds until it has activated its     *)
(* channel, and its channel bears its name.                                 *)
Exclusive ==
    \A k \in Clients :
        /\ client[k] \in InAllocation => mutex = k
        /\ client[k] \in {"naming", "named"} =>
              /\ seen[k] = active /\ active < MaxChannels
              /\ \A c \in Channels : c < active => name[c] # k
        /\ client[k] \in {"named", "activated"} => name[seen[k]] = k
        /\ client[k] = "activated" => seen[k] < active

AllocationInv == AllocationTypes /\ Exclusive /\ ChannelsOwned

LEMMA AllocationInit == Init => AllocationInv
<1> SUFFICES ASSUME Init PROVE AllocationInv
  OBVIOUS
<1>1. 0 \in 0 .. MaxChannels /\ 0 \in Channels /\ \A c \in Channels : ~(c < 0)
  BY BroadcastAssumption DEF Channels
<1> QED BY <1>1 DEF Init, AllocationInv, AllocationTypes, Exclusive, ChannelsOwned, ClientPlaces, InAllocation

LEMMA ClientAllocation ==
    ASSUME AllocationInv, NEW k \in Clients,
           Lock(k) \/ Examine(k) \/ NameChannel(k) \/ Activate(k) \/ Unlock(k) \/ Die(k)
    PROVE  AllocationInv'
<1>1. client[k] \in ClientPlaces /\ k # NoClient
  BY BroadcastAssumption DEF AllocationInv, AllocationTypes
<1>2. ASSUME NEW place \in ClientPlaces, To(k, place)
      PROVE  /\ client' \in [Clients -> ClientPlaces] /\ client'[k] = place
             /\ \A o \in Clients \ {k} : client'[o] = client[o]
  BY <1>2 DEF To, AllocationInv, AllocationTypes
(* Nobody else is between lock and unlock while the mutex is free or with k.*)
<1>a. mutex \in {NoClient, k} => \A o \in Clients \ {k} : client[o] \notin InAllocation
  BY BroadcastAssumption DEF AllocationInv, Exclusive
<1>3. CASE Lock(k)
  <2>1. /\ mutex = NoClient /\ mutex' = k /\ To(k, "locked") /\ UNCHANGED <<active, name, seen>>
    BY <1>3 DEF Lock
  <2>2. \A c \in Channels : c >= active => name[c] = NoClient
    BY <2>1 DEF AllocationInv, ChannelsOwned
  <2>3. "locked" \in ClientPlaces
    BY DEF ClientPlaces
  <2>4. /\ client' \in [Clients -> ClientPlaces] /\ client'[k] = "locked"
        /\ \A o \in Clients \ {k} : client'[o] = client[o]
    BY <1>2, <2>1, <2>3
  <2>5. AllocationTypes'
    BY <2>1, <2>4 DEF AllocationInv, AllocationTypes
  <2>6. Exclusive'
    BY <1>a, <2>1, <2>4 DEF Exclusive, InAllocation
  <2>7. ChannelsOwned'
    BY <2>1, <2>2, <2>4 DEF AllocationInv, ChannelsOwned
  <2> QED BY <2>5, <2>6, <2>7 DEF AllocationInv
<1>4. CASE Examine(k)
  <2>1. client[k] = "locked" /\ mutex = k /\ UNCHANGED <<active, name>>
    BY <1>4 DEF Examine, AllocationInv, Exclusive, InAllocation
  <2>2. \A c \in Channels : c >= active => name[c] = NoClient
    BY <2>1 DEF AllocationInv, ChannelsOwned
  <2>3. CASE To(k, "dead") /\ mutex' = NoClient /\ UNCHANGED seen
    <3>1. /\ client' \in [Clients -> ClientPlaces] /\ client'[k] = "dead"
          /\ \A o \in Clients \ {k} : client'[o] = client[o]
      BY <1>2, <2>3 DEF ClientPlaces
    <3>2. AllocationTypes'
      BY <2>1, <2>3, <3>1 DEF AllocationInv, AllocationTypes
    <3>3. Exclusive'
      BY <1>a, <2>1, <3>1 DEF Exclusive, InAllocation
    <3>4. ChannelsOwned'
      BY <2>1, <2>2, <2>3, <3>1 DEF AllocationInv, ChannelsOwned
    <3> QED BY <3>2, <3>3, <3>4 DEF AllocationInv
  <2>4. CASE /\ To(k, "naming") /\ seen' = [seen EXCEPT ![k] = active] /\ mutex' = mutex
             /\ ~((\E c \in Channels : c < active /\ name[c] = k) \/ active >= MaxChannels)
    <3>1. active \in Channels /\ active < MaxChannels
      BY <2>4, BroadcastAssumption DEF AllocationInv, AllocationTypes, Channels
    <3>2. seen' \in [Clients -> Channels] /\ seen'[k] = active
          /\ \A o \in Clients \ {k} : seen'[o] = seen[o]
      BY <2>4, <3>1 DEF AllocationInv, AllocationTypes
    <3>3. /\ client' \in [Clients -> ClientPlaces] /\ client'[k] = "naming"
          /\ \A o \in Clients \ {k} : client'[o] = client[o]
      BY <1>2, <2>4 DEF ClientPlaces
    <3>4. AllocationTypes'
      BY <2>1, <2>4, <3>2, <3>3 DEF AllocationInv, AllocationTypes
    <3>5. Exclusive'
      BY <1>a, <2>1, <2>4, <3>1, <3>2, <3>3 DEF Exclusive, InAllocation
    <3>6. ChannelsOwned'
      BY <2>1, <2>2, <2>4, <3>2, <3>3 DEF AllocationInv, ChannelsOwned
    <3> QED BY <3>4, <3>5, <3>6 DEF AllocationInv
  <2> QED BY <1>4, <2>3, <2>4 DEF Examine
<1>5. CASE NameChannel(k)
  <2>1. /\ client[k] = "naming" /\ mutex = k /\ seen[k] = active /\ active < MaxChannels
        /\ name' = [name EXCEPT ![seen[k]] = k] /\ UNCHANGED <<active, mutex, seen>>
        /\ To(k, "named")
        /\ \A c \in Channels : c < active => name[c] # k
    BY <1>5 DEF NameChannel, AllocationInv, Exclusive, InAllocation
  <2>2. /\ active \in Channels /\ \A c \in Channels : c < active => c # active
        /\ ~(active < active)
    BY <2>1, BroadcastAssumption DEF AllocationInv, AllocationTypes, Channels
  <2>3. /\ name' \in [Channels -> Clients \union {NoClient}] /\ name'[active] = k
        /\ \A c \in Channels : c # active => name'[c] = name[c]
    BY <2>1, <2>2 DEF AllocationInv, AllocationTypes
  <2>4. /\ client' \in [Clients -> ClientPlaces] /\ client'[k] = "named"
        /\ \A o \in Clients \ {k} : client'[o] = client[o]
    BY <1>2, <2>1 DEF ClientPlaces
  <2>5. AllocationTypes'
    BY <2>1, <2>3, <2>4 DEF AllocationInv, AllocationTypes
  <2>6. Exclusive'
    BY <1>a, <2>1, <2>2, <2>3, <2>4 DEF Exclusive, InAllocation
  <2>7. \A c \in Channels : c >= active => name[c] = NoClient
    BY <2>1 DEF AllocationInv, ChannelsOwned
  <2>8. \A o \in Clients : client'[o] = "reading" => seen[o] < active /\ name'[seen[o]] = o
    <3> SUFFICES ASSUME NEW o \in Clients, client'[o] = "reading"
                 PROVE  seen[o] < active /\ name'[seen[o]] = o
      OBVIOUS
    <3>1. client[o] = "reading" /\ seen[o] \in Channels
      BY <2>4 DEF AllocationInv, AllocationTypes
    <3>2. seen[o] < active /\ name[seen[o]] = o
      BY <3>1 DEF AllocationInv, ChannelsOwned
    <3> QED BY <2>2, <2>3, <3>1, <3>2
  <2>9. ChannelsOwned'
    <3>1. \A c \in Channels : c < active => name'[c] # NoClient
      BY <2>2, <2>3 DEF AllocationInv, ChannelsOwned
    <3>2. \A b, c \in Channels : b < active /\ c < active /\ name'[b] = name'[c] => b = c
      BY <2>2, <2>3 DEF AllocationInv, ChannelsOwned
    <3>3. \A c \in Channels : c >= active /\ name'[c] # NoClient => c = active /\ name'[c] = k
      BY <2>3, <2>7
    <3> QED BY <2>1, <2>4, <2>8, <3>1, <3>2, <3>3 DEF ChannelsOwned
  <2> QED BY <2>5, <2>6, <2>9 DEF AllocationInv
<1>6. CASE Activate(k)
  <2>1. /\ client[k] = "named" /\ mutex = k /\ seen[k] = active /\ active < MaxChannels
        /\ name[active] = k /\ active' = seen[k] + 1 /\ UNCHANGED <<name, mutex, seen>>
        /\ To(k, "activated")
        /\ \A c \in Channels : c < active => name[c] # k
    BY <1>6 DEF Activate, AllocationInv, Exclusive, InAllocation
  <2>2. /\ active \in Channels /\ active' = active + 1 /\ active' \in 0 .. MaxChannels
        /\ \A c \in Channels : /\ c < active' <=> c < active \/ c = active
                               /\ c >= active' => c >= active /\ c # active
    BY <2>1, BroadcastAssumption DEF AllocationInv, AllocationTypes, Channels
  <2>4. /\ client' \in [Clients -> ClientPlaces] /\ client'[k] = "activated"
        /\ \A o \in Clients \ {k} : client'[o] = client[o]
    BY <1>2, <2>1 DEF ClientPlaces
  <2>5. AllocationTypes'
    BY <2>1, <2>2, <2>4 DEF AllocationInv, AllocationTypes
  <2>6. Exclusive'
    BY <1>a, <2>1, <2>2, <2>4 DEF Exclusive, InAllocation
  <2>7. ChannelsOwned'
    <3>1. \A o \in Clients : client'[o] = "reading" => seen[o] < active' /\ name[seen[o]] = o
      BY <2>2, <2>4 DEF AllocationInv, AllocationTypes, ChannelsOwned
    <3>2. \A c \in Channels : c < active' => name[c] # NoClient
      BY <1>1, <2>1, <2>2 DEF AllocationInv, ChannelsOwned
    <3>3. \A b, c \in Channels : b < active' /\ c < active' /\ name[b] = name[c] => b = c
      BY <2>1, <2>2 DEF AllocationInv, ChannelsOwned
    <3>4. \A c \in Channels : c >= active' => name[c] = NoClient
      BY <2>2 DEF AllocationInv, ChannelsOwned
    <3> QED BY <2>1, <3>1, <3>2, <3>3, <3>4 DEF ChannelsOwned
  <2> QED BY <2>5, <2>6, <2>7 DEF AllocationInv
<1>7. CASE Unlock(k)
  <2>1. /\ client[k] = "activated" /\ mutex = k /\ seen[k] < active /\ name[seen[k]] = k
        /\ mutex' = NoClient /\ UNCHANGED <<active, name, seen>>
        /\ To(k, "reading") \/ To(k, "dead")
    BY <1>7 DEF Unlock, AllocationInv, Exclusive, InAllocation
  <2>2. /\ client' \in [Clients -> ClientPlaces] /\ client'[k] \in {"reading", "dead"}
        /\ \A o \in Clients \ {k} : client'[o] = client[o]
    BY <1>2, <2>1 DEF ClientPlaces
  <2>3. \A c \in Channels : c >= active => name[c] = NoClient
    BY <2>1 DEF AllocationInv, ChannelsOwned
  <2>4. AllocationTypes'
    BY <2>1, <2>2 DEF AllocationInv, AllocationTypes
  <2>5. Exclusive'
    BY <1>a, <2>1, <2>2 DEF Exclusive, InAllocation
  <2>6. ChannelsOwned'
    BY <2>1, <2>2, <2>3 DEF AllocationInv, ChannelsOwned
  <2> QED BY <2>4, <2>5, <2>6 DEF AllocationInv
<1>8. CASE Die(k)
  <2>1. To(k, "dead") /\ UNCHANGED <<active, name, mutex, seen>>
    BY <1>8 DEF Die, allocVars
  <2>2. /\ client' \in [Clients -> ClientPlaces] /\ client'[k] = "dead"
        /\ \A o \in Clients \ {k} : client'[o] = client[o]
    BY <1>2, <2>1 DEF ClientPlaces
  <2>3. AllocationTypes'
    BY <2>1, <2>2 DEF AllocationInv, AllocationTypes
  <2>4. Exclusive'
    BY <2>1, <2>2 DEF AllocationInv, Exclusive, InAllocation
  <2>5. ChannelsOwned'
    <3>1. \A o \in Clients : client'[o] = "reading" => seen[o] < active /\ name[seen[o]] = o
      BY <2>2 DEF AllocationInv, ChannelsOwned
    <3>2. mutex \in Clients /\ client[mutex] \in {"named", "dead"} => client'[mutex] \in {"named", "dead"}
      BY <2>2
    <3>3. \A c \in Channels : c >= active /\ name[c] # NoClient =>
             mutex \in Clients /\ c = active /\ name[c] = mutex /\ client[mutex] \in {"named", "dead"}
      BY DEF AllocationInv, AllocationTypes, ChannelsOwned
    <3> QED BY <2>1, <3>1, <3>2, <3>3 DEF AllocationInv, ChannelsOwned
  <2> QED BY <2>3, <2>4, <2>5 DEF AllocationInv
<1> QED BY <1>3, <1>4, <1>5, <1>6, <1>7, <1>8

LEMMA AllocationStep == AllocationInv /\ [Next]_vars => AllocationInv'
<1> SUFFICES ASSUME AllocationInv, [Next]_vars PROVE AllocationInv'
  OBVIOUS
<1>1. ASSUME UNCHANGED <<active, name, mutex, client, seen>> PROVE AllocationInv'
  BY <1>1 DEF AllocationInv, AllocationTypes, Exclusive, ChannelsOwned
<1>2. CASE ServerWork
  BY <1>1, <1>2 DEF ServerWork, PushInvalid, PushThrough, PushBuffered, PushRejected, PushDone,
                    Drain, DrainOne, DrainRetry, DrainDone, allocVars, readerVars
<1>3. CASE Prepare
  BY <1>1, <1>3 DEF Prepare, allocVars, readerVars
<1>4. ASSUME NEW h \in Handlers, Broadcast(h) PROVE AllocationInv'
  BY <1>1, <1>4 DEF Broadcast, allocVars, readerVars
<1>5. ASSUME NEW h \in Handlers, NEW c \in Channels, PushTo(c, h) PROVE AllocationInv'
  BY <1>1, <1>5 DEF PushTo, allocVars, readerVars
<1>6. ASSUME NEW k \in Clients, Dispatch(k) PROVE AllocationInv'
  BY <1>1, <1>6 DEF Dispatch, allocVars
<1>7. ASSUME NEW k \in Clients,
             Lock(k) \/ Examine(k) \/ NameChannel(k) \/ Activate(k) \/ Unlock(k) \/ Die(k)
      PROVE  AllocationInv'
  BY <1>7, ClientAllocation
<1>8. CASE UNCHANGED vars
  BY <1>1, <1>8 DEF vars, allocVars, readerVars
<1> QED BY <1>2, <1>3, <1>4, <1>5, <1>6, <1>7, <1>8 DEF Next, ClientStep

(* However clients start, die at any step and start again, a reading client *)
(* reads the channel that AllocQueueChannel named for it, no other active   *)
(* channel has its name, and a name on a channel that is not active is that *)
(* of the holder of the mutex.                                              *)
THEOREM ClientsOwnChannels == Spec => []ChannelsOwned
<1>1. AllocationInv => ChannelsOwned
  BY DEF AllocationInv
<1> QED BY AllocationInit, AllocationStep, <1>1, PTL DEF Spec

-----------------------------------------------------------------------------
(* Back pressure. *)

ServerStates(messages) ==
    {Idle, [at |-> "failed"]} \union [at : {"drain"}, channel : Channels]
    \union [at : {"push"}, message : messages, handler : Handlers, next : Nat, end : Nat]

Pushed == [to : Channels \union {NoChannel}, refusedAt : Nat]

(* The places of messages, which are the numbers of pushes. *)
MessageTypes(messages) ==
    /\ server \in ServerStates(messages)
    /\ ring \in [Channels -> Seq(messages)]
    /\ backPressure \in [Channels -> Seq(messages)]
    /\ received \in [Channels -> Seq(messages)]

ServerTypes ==
    /\ pushes \in Seq(Pushed) /\ Len(pushes) <= MaxPushes
    /\ MessageTypes(1 .. Len(pushes))
    /\ \A c \in Channels : Len(ring[c]) <= Capacity
    /\ joinedAt \in [Channels -> 0 .. MaxPushes]
    /\ outgoing \in Channels
    /\ drains \in Seq(Channels)
    /\ prepared \in BOOLEAN /\ stranded \subseteq Channels

Posted(q, c) == {i \in DOMAIN q : q[i] = c}
One(c, d) == IF c = d THEN 1 ELSE 0

LEMMA PostedFinite ==
    ASSUME NEW q \in Seq(Channels), NEW c
    PROVE  IsFiniteSet(Posted(q, c)) /\ Cardinality(Posted(q, c)) \in Nat
<1>1. Len(q) \in Nat /\ DOMAIN q = 1 .. Len(q)
  OBVIOUS
<1>2. IsFiniteSet(1 .. Len(q))
  BY <1>1, FS_Interval
<1>3. Posted(q, c) \in SUBSET (1 .. Len(q))
  BY <1>1 DEF Posted
<1> QED BY <1>2, <1>3, FS_Subset, FS_CardinalityType

LEMMA PostedAppend ==
    ASSUME NEW q \in Seq(Channels), NEW d \in Channels, NEW c
    PROVE  Cardinality(Posted(Append(q, d), c)) = Cardinality(Posted(q, c)) + One(c, d)
<1>1. /\ Len(q) \in Nat /\ DOMAIN q = 1 .. Len(q) /\ DOMAIN Append(q, d) = 1 .. (Len(q) + 1)
      /\ \A i \in 1 .. Len(q) : Append(q, d)[i] = q[i]
      /\ Append(q, d)[Len(q) + 1] = d
  BY AppendProperties
<1>2. /\ Len(q) + 1 \notin 1 .. Len(q)
      /\ \A i : i \in 1 .. (Len(q) + 1) <=> i \in 1 .. Len(q) \/ i = Len(q) + 1
  BY <1>1
<1>3. IsFiniteSet(Posted(q, c)) /\ Cardinality(Posted(q, c)) \in Nat
  BY PostedFinite
<1>4. CASE c = d
  <2>1. Posted(Append(q, d), c) = Posted(q, c) \union {Len(q) + 1} /\ Len(q) + 1 \notin Posted(q, c)
    BY <1>1, <1>2, <1>4 DEF Posted
  <2>2. Cardinality(Posted(Append(q, d), c)) = Cardinality(Posted(q, c)) + 1
    BY <1>3, <2>1, FS_AddElement
  <2> QED BY <1>4, <2>2 DEF One
<1>5. CASE c # d
  <2>1. Posted(Append(q, d), c) = Posted(q, c)
    BY <1>1, <1>2, <1>5 DEF Posted
  <2> QED BY <1>3, <1>5, <2>1 DEF One
<1> QED BY <1>4, <1>5

LEMMA PostedTail ==
    ASSUME NEW q \in Seq(Channels), q # <<>>, NEW c
    PROVE  Cardinality(Posted(q, c)) = Cardinality(Posted(Tail(q), c)) + One(c, Head(q))
<1> DEFINE r == Tail(q)
           S == Posted(q, c) \ {1}
           T == Posted(r, c)
           f == [i \in S |-> i - 1]
<1>1. /\ r \in Seq(Channels) /\ Head(q) = q[1] /\ 1 \in DOMAIN q
      /\ DOMAIN q = 1 .. Len(q) /\ DOMAIN r = 1 .. (Len(q) - 1) /\ Len(q) \in Nat
      /\ \A i \in DOMAIN r : r[i] = q[i + 1]
  <2>1. /\ r \in Seq(Channels) /\ Len(r) = Len(q) - 1 /\ \A i \in 1 .. Len(r) : r[i] = q[i + 1]
    BY HeadTailProperties
  <2>2. Len(q) \in Nat \ {0} /\ DOMAIN q = 1 .. Len(q) /\ DOMAIN r = 1 .. (Len(q) - 1) /\ Head(q) = q[1]
    BY <2>1, EmptySeq
  <2> QED BY <2>1, <2>2
<1> HIDE DEF r
<1>2. /\ \A i \in S : i - 1 \in T /\ i \in Nat
      /\ \A i \in T : i + 1 \in S /\ i \in Nat /\ (i + 1) - 1 = i
  BY <1>1 DEF Posted
<1> HIDE DEF S, T
<1>3. f \in [S -> T] /\ \A i \in S : f[i] = i - 1
  BY <1>2
<1>4. \A a, b \in S : f[a] = f[b] => a = b
  BY <1>2, <1>3
<1>5. \A t \in T : \E s \in S : f[s] = t
  BY <1>2, <1>3
<1> HIDE DEF f
<1>6. f \in Bijection(S, T)
  BY <1>3, <1>4, <1>5, Zenon DEF Bijection, Injection, Surjection, IsInjective
<1>7. /\ IsFiniteSet(S)
      /\ Cardinality(S) = Cardinality(Posted(q, c)) - (IF 1 \in Posted(q, c) THEN 1 ELSE 0)
      /\ Cardinality(Posted(q, c)) \in Nat
  BY PostedFinite, FS_RemoveElement DEF S
<1>8. Cardinality(S) = Cardinality(T)
  BY <1>6, <1>7, FS_Bijection DEF ExistsBijection
<1>9. 1 \in Posted(q, c) <=> c = Head(q)
  BY <1>1 DEF Posted
<1> QED BY <1>7, <1>8, <1>9 DEF One, T, r
-----------------------------------------------------------------------------
(* The types of the server. *)

LEMMA Wider ==
    ASSUME NEW m \in Nat, MessageTypes(1 .. m)
    PROVE  MessageTypes(1 .. (m + 1))
<1>1. 1 .. m \subseteq 1 .. (m + 1)
  OBVIOUS
<1> DEFINE S == 1 .. m
           T == 1 .. (m + 1)
<1>2. \A q \in Seq(S) : q \in Seq(T)
  BY <1>1
<1>3. S \subseteq T /\ MessageTypes(S)
  BY <1>1
<1> HIDE DEF S, T
<1>4. MessageTypes(T)
  BY <1>2, <1>3 DEF MessageTypes, ServerStates
<1> QED BY <1>4 DEF T

LEMMA Refused ==
    ASSUME NEW q \in Seq(Pushed), NEW m \in 1 .. Len(q), NEW place \in Nat
    PROVE  /\ [q EXCEPT ![m].refusedAt = place] \in Seq(Pushed)
           /\ Len([q EXCEPT ![m].refusedAt = place]) = Len(q)
<1>1. q[m] \in Pushed
  OBVIOUS
<1> DEFINE entry == [q[m] EXCEPT !.refusedAt = place]
<1>2. entry \in Pushed
  BY <1>1 DEF Pushed
<1>3. [q EXCEPT ![m].refusedAt = place] = [q EXCEPT ![m] = entry]
  OBVIOUS
<1> HIDE DEF entry
<1>4. [q EXCEPT ![m] = entry] \in Seq(Pushed) /\ Len([q EXCEPT ![m] = entry]) = Len(q)
  BY <1>2, ExceptSeq
<1> QED BY <1>3, <1>4

LEMMA BroadcastsBounded ==
    ASSUME ServerTypes
    PROVE  Broadcasts \in 0 .. MaxPushes
<1>1. Len(pushes) \in Nat /\ DOMAIN pushes = 1 .. Len(pushes) /\ Len(pushes) <= MaxPushes
  BY DEF ServerTypes
<1>2. IsFiniteSet(1 .. Len(pushes)) /\ Cardinality(1 .. Len(pushes)) = Len(pushes)
  <2>1. ASSUME NEW n \in Nat PROVE IsFiniteSet(1 .. n) /\ Cardinality(1 .. n) = n
    <3>1. IsFiniteSet(1 .. n) /\ Cardinality(1 .. n) = IF 1 > n THEN 0 ELSE n - 1 + 1
      BY FS_Interval, SMT
    <3> QED BY <3>1, SMT
  <2> QED BY <1>1, <2>1
<1>3. {n \in DOMAIN pushes : pushes[n].to = NoChannel} \in SUBSET (1 .. Len(pushes))
  BY <1>1
<1>4. Broadcasts \in Nat /\ Broadcasts <= Len(pushes)
  BY <1>2, <1>3, FS_Subset, FS_CardinalityType DEF Broadcasts
<1> QED BY <1>1, <1>4, BroadcastAssumption

LEMMA TypesInit == Init => ServerTypes
<1> SUFFICES ASSUME Init PROVE ServerTypes
  OBVIOUS
<1>1. 0 \in Channels /\ 0 \in 0 .. MaxPushes /\ Len(<< >>) = 0
  BY BroadcastAssumption DEF Channels
<1>2. pushes \in Seq(Pushed) /\ Len(pushes) = 0 /\ drains \in Seq(Channels)
  BY EmptySeq DEF Init
<1>3. MessageTypes(1 .. Len(pushes))
  <2> DEFINE M == 1 .. Len(pushes)
  <2>1. << >> \in Seq(M)
    BY EmptySeq
  <2> HIDE DEF M
  <2>2. MessageTypes(M)
    BY <2>1 DEF Init, MessageTypes, ServerStates
  <2> QED BY <2>2 DEF M
<1> QED BY <1>1, <1>2, <1>3, BroadcastAssumption DEF Init, ServerTypes

LEMMA PushBeginsTypes ==
    ASSUME AllocationInv, ServerTypes, NEW h \in Handlers,
           Broadcast(h) \/ \E c \in Channels : PushTo(c, h)
    PROVE  ServerTypes'
<1>1. PICK first \in Nat, last \in Nat, to \in Channels \union {NoChannel} :
        /\ Len(pushes) < MaxPushes
        /\ server' = [at |-> "push", message |-> Len(pushes) + 1, handler |-> h,
                      next |-> first, end |-> last]
        /\ pushes' = Append(pushes, [to |-> to, refusedAt |-> MaxChannels])
        /\ UNCHANGED <<joinedAt, received, ring, backPressure, drains, stranded, outgoing, prepared>>
  <2>1. active \in Nat /\ \A c \in Channels : c \in Nat /\ c + 1 \in Nat
    BY BroadcastAssumption DEF AllocationInv, AllocationTypes, Channels
  <2>2. CASE Broadcast(h)
    BY <2>1, <2>2 DEF Broadcast, allocVars, readerVars, queueVars
  <2>3. ASSUME NEW c \in Channels, PushTo(c, h)
        PROVE  \E first \in Nat, last \in Nat, to \in Channels \union {NoChannel} :
                 /\ Len(pushes) < MaxPushes
                 /\ server' = [at |-> "push", message |-> Len(pushes) + 1, handler |-> h,
                               next |-> first, end |-> last]
                 /\ pushes' = Append(pushes, [to |-> to, refusedAt |-> MaxChannels])
                 /\ UNCHANGED <<joinedAt, received, ring, backPressure, drains, stranded, outgoing, prepared>>
    BY <2>1, <2>3 DEF PushTo, allocVars, readerVars, queueVars
  <2> QED BY <2>2, <2>3
<1>2. pushes' \in Seq(Pushed) /\ Len(pushes') = Len(pushes) + 1
  <2>1. [to |-> to, refusedAt |-> MaxChannels] \in Pushed
    BY BroadcastAssumption DEF Pushed
  <2> QED BY <1>1, <2>1, AppendProperties DEF ServerTypes
<1>3. Len(pushes) \in Nat
  BY DEF ServerTypes
<1>4. Len(pushes') <= MaxPushes
  BY <1>1, <1>2, <1>3, BroadcastAssumption
<1>5. Len(pushes) + 1 \in 1 .. (Len(pushes) + 1)
  BY <1>3
<1> DEFINE m == Len(pushes) + 1
           M == 1 .. m
<1>6. MessageTypes(M) /\ M = 1 .. Len(pushes') /\ m \in M
  BY <1>2, <1>3, <1>5, Wider DEF ServerTypes
<1>7. server' = [at |-> "push", message |-> m, handler |-> h, next |-> first, end |-> last]
  BY <1>1
<1> HIDE DEF m, M
<1>8. server' \in ServerStates(M)
  BY <1>6, <1>7 DEF ServerStates
<1>9. MessageTypes(1 .. Len(pushes))'
  BY <1>1, <1>6, <1>8 DEF MessageTypes, ServerStates
<1> QED BY <1>1, <1>2, <1>4, <1>9 DEF ServerTypes

(* The steps of a push under way. *)
LEMMA PushTypes ==
    ASSUME AllocationInv, ServerTypes,
           PushInvalid \/ PushThrough \/ PushBuffered \/ PushRejected \/ PushDone
    PROVE  ServerTypes'
<1> DEFINE M == 1 .. Len(pushes)
<1>1. /\ server.at = "push" /\ server \in ServerStates(M)
      /\ UNCHANGED <<joinedAt, received, prepared>>
  BY DEF PushInvalid, PushThrough, PushBuffered, PushRejected, PushDone, allocVars, readerVars,
         ServerTypes, MessageTypes
<1>2. /\ server \in [at : {"push"}, message : M, handler : Handlers, next : Nat, end : Nat]
      /\ server.message \in M /\ server.next \in Nat
  BY <1>1 DEF ServerStates, Idle
<1>3. /\ ring \in [Channels -> Seq(M)] /\ backPressure \in [Channels -> Seq(M)]
      /\ received \in [Channels -> Seq(M)] /\ drains \in Seq(Channels) /\ stranded \subseteq Channels
      /\ \A c \in Channels : Len(ring[c]) <= Capacity
  BY DEF ServerTypes, MessageTypes
<1>4. pushes \in Seq(Pushed) /\ Len(pushes) <= MaxPushes
  BY DEF ServerTypes
<1>5. server.next < active => server.next \in Channels
  BY <1>2, BroadcastAssumption DEF AllocationInv, AllocationTypes, Channels
<1> HIDE DEF M
<1>6. NextChannel \in ServerStates(M) /\ Idle \in ServerStates(M)
  BY <1>2 DEF NextChannel, ServerStates
<1>7. CASE PushInvalid \/ PushRejected
  <2>1. /\ pushes' = [pushes EXCEPT ![server.message].refusedAt = server.next] /\ server' = Idle
        /\ UNCHANGED <<ring, backPressure, drains, stranded>>
        /\ outgoing' \in Channels
    BY <1>5, <1>7 DEF PushInvalid, PushRejected, queueVars, ServerTypes
  <2>2. pushes' \in Seq(Pushed) /\ Len(pushes') = Len(pushes)
    BY <1>2, <1>4, <2>1, Refused DEF M
  <2>3. MessageTypes(M)' /\ M' = M
    BY <1>1, <1>3, <1>6, <2>1, <2>2 DEF M, MessageTypes, ServerStates
  <2> QED BY <1>1, <1>3, <1>4, <2>1, <2>2, <2>3 DEF ServerTypes, M
<1>8. CASE PushThrough
  <2> DEFINE c == server.next
             q == ring[c]
  <2>1. /\ c \in Channels /\ ring' = [ring EXCEPT ![c] = Append(q, server.message)]
        /\ server' = NextChannel /\ outgoing' = c /\ Len(q) # Capacity
        /\ UNCHANGED <<backPressure, drains, stranded, pushes>>
    BY <1>5, <1>8 DEF PushThrough, queueVars, Congested, Full
  <2>2. /\ q \in Seq(M) /\ Append(q, server.message) \in Seq(M) /\ Len(q) \in Nat
        /\ Len(Append(q, server.message)) = Len(q) + 1 /\ Len(q) <= Capacity
    BY <1>2, <1>3, <2>1, AppendProperties
  <2>3. Len(q) + 1 <= Capacity
    BY <2>1, <2>2, BroadcastAssumption
  <2> HIDE DEF c, q
  <2>4. ring' \in [Channels -> Seq(M)] /\ \A d \in Channels : Len(ring'[d]) <= Capacity
    BY <1>3, <2>1, <2>2, <2>3
  <2>5. MessageTypes(M)' /\ M' = M
    BY <1>1, <1>3, <1>6, <2>1, <2>4 DEF M, MessageTypes, ServerStates
  <2> QED BY <1>1, <1>3, <1>4, <2>1, <2>4, <2>5 DEF ServerTypes, M
<1>9. CASE PushBuffered
  <2> DEFINE c == server.next
             q == backPressure[c]
  <2>1. /\ c \in Channels /\ backPressure' = [backPressure EXCEPT ![c] = Append(q, server.message)]
        /\ server' = NextChannel /\ outgoing' = c
        /\ UNCHANGED <<ring, pushes>>
        /\ drains' \in {drains, Append(drains, c)}
        /\ stranded' \in {stranded, stranded \union {c}}
    BY <1>5, <1>9 DEF PushBuffered, DefaultHandler, StartBackPressureQueue
  <2>2. q \in Seq(M) /\ Append(q, server.message) \in Seq(M) /\ Append(drains, c) \in Seq(Channels)
    BY <1>2, <1>3, <2>1, AppendProperties
  <2> HIDE DEF c, q
  <2>3. backPressure' \in [Channels -> Seq(M)]
    BY <1>3, <2>1, <2>2
  <2>4. MessageTypes(M)' /\ M' = M
    BY <1>1, <1>3, <1>6, <2>1, <2>3 DEF M, MessageTypes, ServerStates
  <2>5. drains' \in Seq(Channels) /\ stranded' \subseteq Channels
    BY <1>3, <2>1, <2>2
  <2> QED BY <1>1, <1>3, <1>4, <2>1, <2>4, <2>5 DEF ServerTypes, M
<1>10. CASE PushDone
  <2>1. server' = Idle /\ UNCHANGED <<ring, backPressure, drains, stranded, pushes, outgoing>>
    BY <1>10 DEF PushDone, queueVars
  <2>2. MessageTypes(M)' /\ M' = M
    BY <1>1, <1>3, <1>6, <2>1 DEF M, MessageTypes, ServerStates
  <2> QED BY <1>1, <1>3, <1>4, <2>1, <2>2 DEF ServerTypes, M
<1> QED BY <1>7, <1>8, <1>9, <1>10

(* The steps of the asynchronous action. *)
LEMMA DrainTypes ==
    ASSUME AllocationInv, ServerTypes, Drain \/ DrainOne \/ DrainRetry \/ DrainDone
    PROVE  ServerTypes'
<1> DEFINE M == 1 .. Len(pushes)
<1>1. /\ server \in ServerStates(M)
      /\ UNCHANGED <<joinedAt, received, prepared, pushes, outgoing, stranded>>
  BY DEF Drain, DrainOne, DrainRetry, DrainDone, allocVars, readerVars, queueVars, ServerTypes,
         MessageTypes
<1>2. server.at = "drain" => server.channel \in Channels
  BY <1>1 DEF ServerStates, Idle
<1>3. /\ ring \in [Channels -> Seq(M)] /\ backPressure \in [Channels -> Seq(M)]
      /\ received \in [Channels -> Seq(M)] /\ drains \in Seq(Channels) /\ stranded \subseteq Channels
      /\ \A c \in Channels : Len(ring[c]) <= Capacity
  BY DEF ServerTypes, MessageTypes
<1>4. pushes \in Seq(Pushed) /\ Len(pushes) <= MaxPushes
  BY DEF ServerTypes
<1>5. M' = M
  BY <1>1
<1> HIDE DEF M
<1>6. /\ Idle \in ServerStates(M) /\ [at |-> "failed"] \in ServerStates(M)
      /\ \A c \in Channels : [at |-> "drain", channel |-> c] \in ServerStates(M)
  BY DEF ServerStates
<1>7. CASE Drain
  <2>1. /\ drains # <<>> /\ drains' = Tail(drains)
        /\ server' = [at |-> "drain", channel |-> Head(drains)]
        /\ UNCHANGED <<ring, backPressure>>
    BY <1>7 DEF Drain
  <2>2. Head(drains) \in Channels /\ Tail(drains) \in Seq(Channels)
    BY <1>3, <2>1, HeadTailProperties
  <2>3. MessageTypes(M)'
    BY <1>1, <1>3, <1>5, <1>6, <2>1, <2>2 DEF MessageTypes, ServerStates
  <2> QED BY <1>1, <1>3, <1>4, <1>5, <2>1, <2>2, <2>3 DEF ServerTypes, M
<1>8. CASE DrainOne
  <2> DEFINE c == server.channel
             q == ring[c]
             b == backPressure[c]
  <2>1. /\ c \in Channels /\ b # <<>> /\ Len(q) # Capacity
        /\ ring' = [ring EXCEPT ![c] = Append(q, Head(b))]
        /\ backPressure' = [backPressure EXCEPT ![c] = Tail(b)]
        /\ UNCHANGED <<drains, server>>
    BY <1>2, <1>8 DEF DrainOne, Full
  <2>2. q \in Seq(M) /\ b \in Seq(M) /\ Len(q) \in Nat /\ Len(q) <= Capacity
    BY <1>3, <2>1
  <2>3. Head(b) \in M /\ Tail(b) \in Seq(M)
    BY <2>1, <2>2, HeadTailProperties
  <2>4. Append(q, Head(b)) \in Seq(M) /\ Len(Append(q, Head(b))) = Len(q) + 1
    BY <2>2, <2>3, AppendProperties
  <2>5. Len(q) + 1 <= Capacity
    BY <2>1, <2>2, BroadcastAssumption
  <2> HIDE DEF c, q, b
  <2>6. ring' \in [Channels -> Seq(M)] /\ \A d \in Channels : Len(ring'[d]) <= Capacity
    BY <1>3, <2>1, <2>4, <2>5
  <2>7. backPressure' \in [Channels -> Seq(M)]
    BY <1>3, <2>1, <2>3
  <2>8. MessageTypes(M)'
    BY <1>1, <1>3, <1>5, <2>1, <2>6, <2>7 DEF MessageTypes, ServerStates
  <2> QED BY <1>1, <1>3, <1>4, <1>5, <2>1, <2>6, <2>8 DEF ServerTypes, M
<1>9. CASE DrainRetry \/ DrainDone
  <2>1. /\ server' \in {Idle, [at |-> "failed"]} /\ server.channel \in Channels
        /\ drains' \in {drains, Append(drains, server.channel)}
        /\ UNCHANGED <<ring, backPressure>>
    BY <1>2, <1>9 DEF DrainRetry, DrainDone, queueVars
  <2>2. drains' \in Seq(Channels)
    <3>1. Append(drains, server.channel) \in Seq(Channels)
      BY <1>3, <2>1, AppendProperties
    <3> QED BY <1>3, <2>1, <3>1
  <2>3. server' \in ServerStates(M)
    BY <1>6, <2>1
  <2>4. MessageTypes(M)'
    BY <1>1, <1>3, <1>5, <2>1, <2>3 DEF MessageTypes, ServerStates
  <2> QED BY <1>1, <1>3, <1>4, <1>5, <2>1, <2>2, <2>4 DEF ServerTypes, M
<1> QED BY <1>7, <1>8, <1>9

(* The steps of the clients. *)
LEMMA ClientTypes ==
    ASSUME AllocationInv, ServerTypes, NEW k \in Clients, ClientStep(k)
    PROVE  ServerTypes'
<1> DEFINE M == 1 .. Len(pushes)
<1>1. UNCHANGED serverVars
  BY DEF ClientStep, Lock, Examine, NameChannel, Activate, Unlock, Die, Dispatch
<1>2. M' = M /\ UNCHANGED <<server, backPressure, drains, stranded, outgoing, prepared, pushes>>
  BY <1>1 DEF serverVars, queueVars
<1>3. ring \in [Channels -> Seq(M)] /\ received \in [Channels -> Seq(M)]
      /\ \A c \in Channels : Len(ring[c]) <= Capacity
  BY DEF ServerTypes, MessageTypes
<1> HIDE DEF M
<1>4. CASE Dispatch(k)
  <2> DEFINE c == seen[k]
             q == ring[c]
  <2>1. /\ c \in Channels /\ q # <<>> /\ UNCHANGED joinedAt
        /\ received' = [received EXCEPT ![c] = Append(received[c], Head(q))]
        /\ ring' = [ring EXCEPT ![c] = Tail(q)]
    BY <1>4 DEF Dispatch, allocVars, AllocationInv, AllocationTypes
  <2>2. q \in Seq(M) /\ received[c] \in Seq(M) /\ Len(q) \in Nat /\ Len(q) <= Capacity
    BY <1>3, <2>1
  <2>3. Head(q) \in M /\ Tail(q) \in Seq(M) /\ Len(Tail(q)) = Len(q) - 1
    BY <2>1, <2>2, HeadTailProperties
  <2>4. Append(received[c], Head(q)) \in Seq(M) /\ Len(Tail(q)) <= Capacity
    <3>1. Append(received[c], Head(q)) \in Seq(M)
      BY <2>2, <2>3, AppendProperties
    <3> DEFINE n == Len(q)
               m == Len(Tail(q))
    <3>2. n \in Nat /\ m = n - 1 /\ n <= Capacity
      BY <2>2, <2>3
    <3> HIDE DEF n, m
    <3>3. m <= Capacity
      BY <3>2, BroadcastAssumption
    <3> QED BY <3>1, <3>3 DEF m
  <2> HIDE DEF c, q
  <2>5. /\ received' \in [Channels -> Seq(M)] /\ ring' \in [Channels -> Seq(M)]
        /\ \A d \in Channels : Len(ring'[d]) <= Capacity
    BY <1>3, <2>1, <2>3, <2>4
  <2>6. MessageTypes(M)'
    BY <1>2, <2>5 DEF ServerTypes, MessageTypes, ServerStates, M
  <2> QED BY <1>2, <2>1, <2>5, <2>6 DEF ServerTypes, M
<1>5. CASE Lock(k) \/ Examine(k) \/ NameChannel(k) \/ Activate(k) \/ Unlock(k) \/ Die(k)
  <2>1. UNCHANGED <<ring, received>>
    BY <1>5 DEF Lock, Examine, NameChannel, Activate, Unlock, Die
  <2>2. joinedAt' \in [Channels -> 0 .. MaxPushes]
    <3>1. joinedAt' \in {joinedAt, [joinedAt EXCEPT ![seen[k]] = Broadcasts]}
      BY <1>5 DEF Lock, Examine, NameChannel, Activate, Unlock, Die, allocVars
    <3>2. Broadcasts \in 0 .. MaxPushes
      BY BroadcastsBounded
    <3> QED BY <3>1, <3>2 DEF ServerTypes
  <2>3. MessageTypes(M)'
    BY <1>2, <2>1 DEF ServerTypes, MessageTypes, ServerStates, M
  <2> QED BY <1>2, <2>1, <2>2, <2>3 DEF ServerTypes, M
<1> QED BY <1>4, <1>5 DEF ClientStep

LEMMA TypesStep == AllocationInv /\ ServerTypes /\ [Next]_vars => ServerTypes'
<1> SUFFICES ASSUME AllocationInv, ServerTypes, [Next]_vars PROVE ServerTypes'
  OBVIOUS
<1>1. CASE ServerWork
  BY <1>1, PushTypes, DrainTypes DEF ServerWork
<1>2. ASSUME NEW h \in Handlers, Broadcast(h) \/ \E c \in Channels : PushTo(c, h)
      PROVE  ServerTypes'
  BY <1>2, PushBeginsTypes
<1>3. ASSUME NEW k \in Clients, ClientStep(k) PROVE ServerTypes'
  BY <1>3, ClientTypes
<1>4. CASE Prepare \/ UNCHANGED vars
  <2>1. /\ UNCHANGED <<server, ring, backPressure, received, pushes, joinedAt, outgoing, drains, stranded>>
        /\ prepared' \in BOOLEAN
    BY <1>4 DEF Prepare, vars, allocVars, readerVars, queueVars, serverVars, ServerTypes
  <2> QED BY <2>1 DEF ServerTypes, MessageTypes, ServerStates
<1> QED BY <1>1, <1>2, <1>3, <1>4 DEF Next

(* The server's queues and the channels hold messages that were pushed, no  *)
(* channel more than fit.                                                   *)
THEOREM BroadcastTypeCorrect == Spec => []TypeOK
<1>1. Init => AllocationInv /\ ServerTypes
  BY AllocationInit, TypesInit
<1>2. AllocationInv /\ ServerTypes /\ [Next]_vars => (AllocationInv /\ ServerTypes)'
  BY AllocationStep, TypesStep
<1>3. ASSUME AllocationInv, ServerTypes PROVE TypeOK
  <2>1. DOMAIN pushes = 1 .. Len(pushes)
    BY <1>3 DEF ServerTypes
  <2>2. server.at \in {"idle", "push", "drain", "failed"}
    BY <1>3 DEF ServerTypes, MessageTypes, ServerStates, Idle
  <2> QED BY <1>3, <2>1, <2>2 DEF TypeOK, AllocationInv, AllocationTypes, ClientPlaces, Channels,
             ServerTypes, MessageTypes
<1> QED BY <1>1, <1>2, <1>3, PTL DEF Spec
-----------------------------------------------------------------------------
(* The actions that empty the back pressure queues. *)

Count(c) == Cardinality(Posted(drains, c))

(* One action for a queue that has messages, or that is being emptied. *)
Alive(c) ==
    Count(c) + (IF Draining(c) THEN 1 ELSE 0) = IF backPressure[c] # <<>> \/ Draining(c) THEN 1 ELSE 0

AllAlive == server.at # "failed" => \A c \in Channels \ stranded : Alive(c)

LEMMA CountTyped == ServerTypes => \A c \in Channels : Count(c) \in Nat
BY PostedFinite DEF ServerTypes, Count

(* A message that waits behind others, or the first to wait. *)
LEMMA BufferedAlive ==
    ASSUME AllocationInv, ServerTypes, AllAlive, PushBuffered
    PROVE  AllAlive'
<1> DEFINE c == server.next
<1>1. /\ server.at = "push" /\ server' = NextChannel /\ c < active
      /\ DefaultHandler(c, server.message)
  BY DEF PushBuffered
<1>2. /\ c \in Channels /\ drains \in Seq(Channels) /\ backPressure \in [Channels -> Seq(1 .. Len(pushes))]
      /\ server.message \in 1 .. Len(pushes)
  <2> DEFINE M == 1 .. Len(pushes)
  <2>1. server \in ServerStates(M) /\ drains \in Seq(Channels) /\ backPressure \in [Channels -> Seq(M)]
    BY DEF ServerTypes, MessageTypes
  <2> HIDE DEF M
  <2>2. server.message \in M /\ server.next \in Nat
    BY <1>1, <2>1 DEF ServerStates, Idle
  <2>3. server.next \in Channels
    BY <1>1, <2>2, BroadcastAssumption DEF AllocationInv, AllocationTypes, Channels
  <2> QED BY <2>1, <2>2, <2>3 DEF M
<1>3. server'.at = "push"
  <2> DEFINE M == 1 .. Len(pushes)
  <2>1. server \in ServerStates(M)
    BY DEF ServerTypes, MessageTypes
  <2> HIDE DEF M
  <2> QED BY <1>1, <2>1 DEF NextChannel, ServerStates, Idle
<1>4. \A d \in Channels \ stranded : Alive(d)
  BY <1>1 DEF AllAlive
<1>5. \A d \in Channels : ~Draining(d) /\ ~Draining(d)' /\ Count(d) \in Nat
  BY <1>1, <1>3, CountTyped DEF Draining
<1> DEFINE q == Append(backPressure[c], server.message)
<1>6. backPressure' = [backPressure EXCEPT ![c] = q] /\ q # <<>>
  <2>1. backPressure' = [backPressure EXCEPT ![c] = q]
    BY <1>1 DEF DefaultHandler, StartBackPressureQueue
  <2>2. Len(q) = Len(backPressure[c]) + 1 /\ Len(backPressure[c]) \in Nat
    BY <1>2, AppendProperties
  <2>3. Len(<< >>) = 0
    OBVIOUS
  <2>4. Len(q) # 0
    BY <2>2
  <2> QED BY <2>1, <2>3, <2>4
<1> HIDE DEF c, q
<1>7. backPressure'[c] # <<>> /\ \A d \in Channels : d # c => backPressure'[d] = backPressure[d]
  BY <1>2, <1>6
<1>8. CASE backPressure[c] = <<>> /\ ~prepared
  <2>1. drains' = Append(drains, c) /\ stranded' = stranded
    BY <1>1, <1>8 DEF DefaultHandler, StartBackPressureQueue, c
  <2>2. \A d \in Channels : Count(d)' = Count(d) + One(d, c)
    BY <1>2, <2>1, PostedAppend DEF Count
  <2>3. ASSUME NEW d \in Channels \ stranded PROVE Alive(d)'
    <3>1. CASE d = c
      <4>1. Count(d) = 0 /\ Count(d)' = Count(d) + 1
        BY <1>4, <1>5, <1>8, <2>2, <3>1 DEF Alive, One
      <4> QED BY <1>5, <1>7, <3>1, <4>1 DEF Alive
    <3>2. CASE d # c
      <4>1. Count(d)' = Count(d)
        BY <1>5, <2>2, <3>2 DEF One
      <4> QED BY <1>4, <1>5, <1>7, <3>2, <4>1 DEF Alive
    <3> QED BY <3>1, <3>2
  <2> QED BY <2>1, <2>3 DEF AllAlive
<1>9. CASE backPressure[c] # <<>> \/ prepared
  <2>1. drains' = drains /\ stranded \subseteq stranded'
        /\ (backPressure[c] # <<>> \/ c \in stranded')
    BY <1>1, <1>9 DEF DefaultHandler, StartBackPressureQueue, c
  <2>2. \A d : Count(d)' = Count(d)
    BY <2>1 DEF Count
  <2>3. ASSUME NEW d \in Channels \ stranded' PROVE Alive(d)'
    <3>1. d \in Channels \ stranded /\ Alive(d)
      BY <1>4, <2>1, <2>3
    <3>2. backPressure'[d] # <<>> <=> backPressure[d] # <<>>
      BY <1>7, <2>1, <2>3
    <3> QED BY <1>5, <2>2, <3>1, <3>2 DEF Alive
  <2> QED BY <2>3 DEF AllAlive
<1> QED BY <1>8, <1>9

(* The action takes the place of its entry when it runs, and leaves one     *)
(* behind when it has to run again.                                         *)
LEMMA DrainAlive ==
    ASSUME AllocationInv, ServerTypes, AllAlive, Drain \/ DrainOne \/ DrainRetry \/ DrainDone
    PROVE  AllAlive'
<1>1. drains \in Seq(Channels) /\ stranded' = stranded
      /\ server.at \in {"idle", "drain"} /\ \A d \in Channels \ stranded : Alive(d)
  BY DEF Drain, DrainOne, DrainRetry, DrainDone, queueVars, ServerTypes, Idle, AllAlive
<1>2. \A d \in Channels : Count(d) \in Nat
  BY CountTyped
<1>3. server.at = "drain" => server.channel \in Channels
  <2> DEFINE M == 1 .. Len(pushes)
  <2>1. server \in ServerStates(M)
    BY DEF ServerTypes, MessageTypes
  <2> HIDE DEF M
  <2> QED BY <2>1 DEF ServerStates, Idle
<1>4. CASE Drain
  <2> DEFINE c == Head(drains)
  <2>1. /\ server = Idle /\ drains # <<>> /\ drains' = Tail(drains) /\ UNCHANGED backPressure
        /\ server' = [at |-> "drain", channel |-> c]
    BY <1>4 DEF Drain
  <2>2. \A d : Count(d) = Count(d)' + One(d, c)
    BY <1>1, <2>1, PostedTail DEF Count
  <2>3. Tail(drains) \in Seq(Channels)
    BY <1>1, <2>1, HeadTailProperties
  <2>4. \A d \in Channels : Count(d)' \in Nat
    BY <2>1, <2>3, PostedFinite DEF Count
  <2> HIDE DEF c
  <2>5. \A d : ~Draining(d) /\ (Draining(d)' <=> d = c)
    BY <2>1 DEF Draining, Idle
  <2>6. ASSUME NEW d \in Channels \ stranded PROVE Alive(d)'
    <3>1. Alive(d) /\ Count(d) \in Nat /\ Count(d)' \in Nat /\ Count(d) = Count(d)' + One(d, c)
      BY <1>1, <1>2, <2>2, <2>4
    <3>2. CASE d = c
      <4>1. Count(d) = Count(d)' + 1
        BY <3>1, <3>2 DEF One
      <4>2. Count(d) = IF backPressure[d] # <<>> THEN 1 ELSE 0
        BY <2>5, <3>1 DEF Alive
      <4>3. Count(d)' = 0
        BY <3>1, <4>1, <4>2
      <4> QED BY <2>5, <3>2, <4>3 DEF Alive
    <3>3. CASE d # c
      <4>1. Count(d)' = Count(d)
        BY <3>1, <3>3 DEF One
      <4> QED BY <2>1, <2>5, <3>1, <3>3, <4>1 DEF Alive
    <3> QED BY <3>2, <3>3
  <2> QED BY <1>1, <2>6 DEF AllAlive
<1>5. CASE DrainOne
  <2>1. /\ server.at = "drain" /\ UNCHANGED <<drains, server>>
        /\ backPressure' = [backPressure EXCEPT ![server.channel] = Tail(backPressure[server.channel])]
    BY <1>5 DEF DrainOne
  <2>2. \A d \in Channels : d # server.channel => backPressure'[d] = backPressure[d]
    BY <2>1 DEF ServerTypes, MessageTypes
  <2>3. \A d : Count(d)' = Count(d) /\ (Draining(d)' <=> Draining(d))
               /\ (Draining(d) <=> d = server.channel)
    BY <2>1 DEF Count, Draining
  <2>4. ASSUME NEW d \in Channels \ stranded PROVE Alive(d)'
    <3>1. Alive(d)
      BY <1>1
    <3>2. CASE d = server.channel
      BY <2>3, <3>1, <3>2 DEF Alive
    <3>3. CASE d # server.channel
      BY <2>2, <2>3, <3>1, <3>3 DEF Alive
    <3> QED BY <3>2, <3>3
  <2> QED BY <1>1, <2>4 DEF AllAlive
<1>6. CASE DrainRetry
  <2> DEFINE c == server.channel
  <2>1. CASE server' = [at |-> "failed"]
    BY <2>1 DEF AllAlive
  <2>2. CASE server' = Idle /\ drains' = Append(drains, c)
    <3>1. /\ server.at = "drain" /\ backPressure[c] # <<>> /\ UNCHANGED backPressure
          /\ c \in Channels
      BY <1>3, <1>6 DEF DrainRetry
    <3>2. \A d : Count(d)' = Count(d) + One(d, c)
      BY <1>1, <2>2, <3>1, PostedAppend DEF Count
    <3>3. \A d : ~Draining(d)' /\ (Draining(d) <=> d = c)
      BY <2>2, <3>1 DEF Draining, Idle
    <3> HIDE DEF c
    <3>4. ASSUME NEW d \in Channels \ stranded PROVE Alive(d)'
      <4>1. Alive(d) /\ Count(d) \in Nat /\ Count(d)' = Count(d) + One(d, c)
        BY <1>1, <1>2, <3>2
      <4>2. CASE d = c
        <5>1. Count(d)' = Count(d) + 1 /\ Count(d) + 1 = 1
          BY <3>3, <4>1, <4>2 DEF Alive, One
        <5> QED BY <3>1, <3>3, <4>2, <5>1 DEF Alive
      <4>3. CASE d # c
        <5>1. Count(d)' = Count(d)
          BY <4>1, <4>3 DEF One
        <5> QED BY <3>1, <3>3, <4>1, <4>3, <5>1 DEF Alive
      <4> QED BY <4>2, <4>3
    <3> QED BY <1>1, <3>4 DEF AllAlive
  <2> QED BY <1>6, <2>1, <2>2 DEF DrainRetry
<1>7. CASE DrainDone
  <2>1. /\ server.at = "drain" /\ backPressure[server.channel] = <<>> /\ server' = Idle
        /\ UNCHANGED <<drains, backPressure>>
    BY <1>7 DEF DrainDone, queueVars
  <2>2. \A d : Count(d)' = Count(d) /\ ~Draining(d)' /\ (Draining(d) <=> d = server.channel)
    BY <2>1 DEF Count, Draining, Idle
  <2>3. ASSUME NEW d \in Channels \ stranded PROVE Alive(d)'
    <3>1. Alive(d) /\ Count(d) \in Nat
      BY <1>1, <1>2
    <3>2. CASE d = server.channel
      <4>1. Count(d) = 0
        BY <2>2, <3>1, <3>2 DEF Alive
      <4> QED BY <2>1, <2>2, <3>2, <4>1 DEF Alive
    <3>3. CASE d # server.channel
      BY <2>1, <2>2, <3>1, <3>3 DEF Alive
    <3> QED BY <3>2, <3>3
  <2> QED BY <1>1, <2>3 DEF AllAlive
<1> QED BY <1>4, <1>5, <1>6, <1>7

LEMMA AliveStep == AllocationInv /\ ServerTypes /\ AllAlive /\ [Next]_vars => AllAlive'
<1> SUFFICES ASSUME AllocationInv, ServerTypes, AllAlive, [Next]_vars PROVE AllAlive'
  OBVIOUS
<1>1. ASSUME UNCHANGED <<drains, backPressure, stranded>>,
             \/ server' = server
             \/ server.at \in {"idle", "push"} /\ server'.at \in {"idle", "push"}
      PROVE  AllAlive'
  <2>1. \A d : Count(d)' = Count(d) /\ (Draining(d)' <=> Draining(d))
    BY <1>1 DEF Count, Draining
  <2>2. server'.at # "failed" => server.at # "failed"
    BY <1>1
  <2> QED BY <1>1, <2>1, <2>2 DEF AllAlive, Alive
<1>2. CASE PushBuffered
  BY <1>2, BufferedAlive
<1>3. CASE Drain \/ DrainOne \/ DrainRetry \/ DrainDone
  BY <1>3, DrainAlive
<1>4. CASE PushInvalid \/ PushRejected \/ PushDone
  <2>1. server.at = "push" /\ server'.at = "idle" /\ UNCHANGED <<drains, backPressure, stranded>>
    BY <1>4 DEF PushInvalid, PushRejected, PushDone, queueVars, Idle
  <2> QED BY <1>1, <2>1
<1>5. CASE PushThrough
  <2> DEFINE M == 1 .. Len(pushes)
  <2>1. server \in ServerStates(M)
    BY DEF ServerTypes, MessageTypes
  <2> HIDE DEF M
  <2>2. server.at = "push" /\ server'.at = "push" /\ UNCHANGED <<drains, backPressure, stranded>>
    BY <1>5, <2>1 DEF PushThrough, NextChannel, queueVars, ServerStates, Idle
  <2> QED BY <1>1, <2>2
<1>6. ASSUME NEW h \in Handlers, Broadcast(h) \/ \E c \in Channels : PushTo(c, h) PROVE AllAlive'
  <2>1. server = Idle /\ server'.at = "push" /\ UNCHANGED <<drains, backPressure, stranded>>
    <3>1. CASE Broadcast(h)
      BY <3>1 DEF Broadcast, queueVars
    <3>2. ASSUME NEW c \in Channels, PushTo(c, h)
          PROVE  server = Idle /\ server'.at = "push" /\ UNCHANGED <<drains, backPressure, stranded>>
      BY <3>2 DEF PushTo, queueVars
    <3> QED BY <1>6, <3>1, <3>2
  <2>2. server.at = "idle"
    BY <2>1 DEF Idle
  <2> QED BY <1>1, <2>1, <2>2
<1>7. ASSUME NEW k \in Clients, ClientStep(k) PROVE AllAlive'
  <2>1. UNCHANGED serverVars
    BY <1>7 DEF ClientStep, Lock, Examine, NameChannel, Activate, Unlock, Die, Dispatch
  <2> QED BY <1>1, <2>1 DEF serverVars, queueVars
<1>8. CASE Prepare \/ UNCHANGED vars
  <2>1. UNCHANGED <<drains, backPressure, stranded, server>>
    BY <1>8 DEF Prepare, vars, serverVars, queueVars
  <2> QED BY <1>1, <2>1
<1> QED BY <1>2, <1>3, <1>4, <1>5, <1>6, <1>7, <1>8 DEF Next, ServerWork

(* A back pressure queue with messages always has one action that empties   *)
(* it, and an empty one has none waiting, whatever the clients do and       *)
(* however often the action has to be tried again.                          *)
THEOREM OneDrainerEach == Spec => []DrainerAlive
<1>1. Init => AllocationInv /\ ServerTypes /\ AllAlive
  <2>1. ASSUME Init PROVE AllAlive
    <3>1. \A c : Posted(drains, c) = {}
      BY <2>1 DEF Init, Posted
    <3>2. \A c : Count(c) = 0 /\ ~Draining(c)
      BY <2>1, <3>1, FS_EmptySet DEF Init, Count, Draining, Idle
    <3>3. \A c \in Channels : backPressure[c] = <<>>
      BY <2>1 DEF Init
    <3> QED BY <3>2, <3>3 DEF AllAlive, Alive
  <2> QED BY <2>1, AllocationInit, TypesInit
<1>2. AllocationInv /\ ServerTypes /\ AllAlive /\ [Next]_vars
        => (AllocationInv /\ ServerTypes /\ AllAlive)'
  BY AllocationStep, TypesStep, AliveStep
<1>3. AllAlive => DrainerAlive
  BY DEF AllAlive, Alive, Count, Posted, DrainerAlive, Drainers
<1> QED BY <1>1, <1>2, <1>3, PTL DEF Spec
-----------------------------------------------------------------------------
(* The order of the messages.  First, sequences of numbers.                 *)

LEMMA AppendInOrder ==
    ASSUME NEW s \in Seq(Nat), InOrder(s), NEW n \in Nat, \A x \in Range(s) : x < n
    PROVE  InOrder(Append(s, n)) /\ Range(Append(s, n)) = Range(s) \union {n}
<1> DEFINE t == Append(s, n)
<1>1. /\ Len(s) \in Nat /\ DOMAIN s = 1 .. Len(s) /\ DOMAIN t = 1 .. (Len(s) + 1)
      /\ \A i \in 1 .. Len(s) : t[i] = s[i] /\ s[i] \in Nat
      /\ t[Len(s) + 1] = n
  BY AppendProperties
<1>2. \A i : i \in DOMAIN t <=> i \in DOMAIN s \/ i = Len(s) + 1
  BY <1>1
<1> HIDE DEF t
<1>3. \A i \in DOMAIN s : s[i] < n
  BY DEF Range
<1>4. InOrder(t)
  BY <1>1, <1>2, <1>3 DEF InOrder
<1>5. Range(t) = Range(s) \union {n}
  BY <1>1, <1>2 DEF Range
<1> QED BY <1>4, <1>5 DEF t

(* A message that is appended to what a channel carries. *)
LEMMA AppendedLast ==
    ASSUME NEW M, NEW r \in Seq(M), NEW q \in Seq(M), NEW b \in Seq(M), NEW m \in M
    PROVE  r \o q \o Append(b, m) = Append(r \o q \o b, m)
<1>1. r \o q \in Seq(M) /\ r \o q \o b \in Seq(M) /\ <<m>> \in Seq(M)
  BY ConcatProperties
<1>2. Append(b, m) = b \o <<m>> /\ Append(r \o q \o b, m) = (r \o q \o b) \o <<m>>
  BY <1>1, AppendIsConcat
<1> QED BY <1>1, <1>2, ConcatAssociative

LEMMA AppendedMiddle ==
    ASSUME NEW M, NEW r \in Seq(M), NEW q \in Seq(M), NEW m \in M
    PROVE  r \o Append(q, m) \o << >> = Append(r \o q \o << >>, m)
<1>1. r \o q \in Seq(M) /\ <<m>> \in Seq(M) /\ Append(q, m) \in Seq(M)
  BY ConcatProperties, AppendProperties
<1>2. r \o Append(q, m) \in Seq(M)
  BY <1>1, ConcatProperties
<1>3. r \o q \o << >> = r \o q /\ r \o Append(q, m) \o << >> = r \o Append(q, m)
  BY <1>1, <1>2, ConcatEmptySeq
<1>4. Append(q, m) = q \o <<m>> /\ Append(r \o q, m) = (r \o q) \o <<m>>
  BY <1>1, AppendIsConcat
<1> QED BY <1>1, <1>3, <1>4, ConcatAssociative

(* A message that moves on to the end of the sequence before its own. *)
LEMMA Moved ==
    ASSUME NEW M, NEW q \in Seq(M), NEW b \in Seq(M), b # <<>>
    PROVE  Append(q, Head(b)) \o Tail(b) = q \o b
<1> DEFINE m == Head(b)
           t == Tail(b)
<1>1. m \in M /\ t \in Seq(M) /\ Len(t) = Len(b) - 1 /\ b[1] = m
      /\ Len(b) \in Nat /\ Len(q) \in Nat
      /\ \A i \in 1 .. Len(t) : t[i] = b[i + 1]
  BY HeadTailProperties, EmptySeq
<1>2. Len(t) \in Nat
  BY <1>1
<1> HIDE DEF m, t
<1> DEFINE a == Append(q, m)
<1>3. a \in Seq(M) /\ Len(a) = Len(q) + 1 /\ a[Len(q) + 1] = m /\ \A i \in 1 .. Len(q) : a[i] = q[i]
  BY <1>1, AppendProperties
<1> HIDE DEF a
<1>4. /\ a \o t \in Seq(M) /\ Len(a \o t) = Len(a) + Len(t)
      /\ \A i \in 1 .. Len(a) + Len(t) : (a \o t)[i] = IF i <= Len(a) THEN a[i] ELSE t[i - Len(a)]
  BY <1>1, <1>3, ConcatProperties
<1>5. /\ q \o b \in Seq(M) /\ Len(q \o b) = Len(q) + Len(b)
      /\ \A i \in 1 .. Len(q) + Len(b) : (q \o b)[i] = IF i <= Len(q) THEN q[i] ELSE b[i - Len(q)]
  BY ConcatProperties
<1>6. Len(a) + Len(t) = Len(q) + Len(b)
  BY <1>1, <1>2, <1>3
<1>7. ASSUME NEW i \in 1 .. Len(q) + Len(b) PROVE (a \o t)[i] = (q \o b)[i]
  <2>1. CASE i <= Len(q)
    BY <1>1, <1>3, <1>4, <1>5, <1>6, <2>1
  <2>2. CASE i = Len(q) + 1
    <3>1. (a \o t)[i] = m
      BY <1>1, <1>3, <1>4, <1>6, <2>2
    <3>2. i - Len(q) = 1 /\ ~(i <= Len(q))
      BY <1>1, <2>2
    <3> QED BY <1>1, <1>5, <3>1, <3>2
  <2>3. CASE i > Len(q) + 1
    <3>1. i - Len(a) \in 1 .. Len(t) /\ ~(i <= Len(a)) /\ ~(i <= Len(q)) /\ (i - Len(a)) + 1 = i - Len(q)
      BY <1>1, <1>2, <1>3, <2>3
    <3>2. (a \o t)[i] = t[i - Len(a)] /\ (q \o b)[i] = b[i - Len(q)]
      BY <1>4, <1>5, <1>6, <3>1
    <3>3. t[i - Len(a)] = b[(i - Len(a)) + 1]
      BY <1>1, <3>1
    <3> QED BY <3>1, <3>2, <3>3
  <2>4. i <= Len(q) \/ i = Len(q) + 1 \/ i > Len(q) + 1
    <3> DEFINE l == Len(q)
               k == Len(b)
    <3>1. l \in Nat /\ k \in Nat /\ i \in 1 .. l + k
      BY <1>1
    <3> HIDE DEF l, k
    <3>2. i <= l \/ i = l + 1 \/ i > l + 1
      BY <3>1
    <3> QED BY <3>2 DEF l
  <2> QED BY <2>1, <2>2, <2>3, <2>4, Zenon
<1>8. a \o t = q \o b
  <2>1. Len(a \o t) = Len(q \o b) /\ \A i \in 1 .. Len(a \o t) : (a \o t)[i] = (q \o b)[i]
    BY <1>4, <1>5, <1>6, <1>7
  <2> QED BY <1>4, <1>5, <2>1, SeqEqual
<1> QED BY <1>8 DEF a, m, t

-----------------------------------------------------------------------------
(* The broadcasts are numbered in the order of the pushes. *)

BroadcastsOf(q, n) == {i \in 1 .. n : q[i].to = NoChannel}

LEMMA BroadcastsFinite ==
    ASSUME NEW q, NEW n \in Nat
    PROVE  IsFiniteSet(BroadcastsOf(q, n)) /\ Cardinality(BroadcastsOf(q, n)) \in Nat
<1>1. IsFiniteSet(1 .. n)
  BY FS_Interval
<1>2. BroadcastsOf(q, n) \in SUBSET (1 .. n)
  BY DEF BroadcastsOf
<1> QED BY <1>1, <1>2, FS_Subset, FS_CardinalityType

LEMMA OrdinalBounds ==
    ASSUME ServerTypes
    PROVE  /\ Broadcasts \in Nat
           /\ \A n \in DOMAIN pushes : Ordinal(n) \in Nat /\ Ordinal(n) <= Broadcasts
           /\ Len(pushes) \in DOMAIN pushes => Ordinal(Len(pushes)) = Broadcasts
<1>1. Len(pushes) \in Nat /\ DOMAIN pushes = 1 .. Len(pushes)
  BY DEF ServerTypes
<1>2. Broadcasts = Cardinality(BroadcastsOf(pushes, Len(pushes)))
  BY <1>1 DEF Broadcasts, BroadcastsOf
<1>3. \A n : Ordinal(n) = Cardinality(BroadcastsOf(pushes, n))
  BY DEF Ordinal, BroadcastsOf
<1>4. ASSUME NEW n \in DOMAIN pushes PROVE Ordinal(n) \in Nat /\ Ordinal(n) <= Broadcasts
  <2>1. n \in Nat /\ \A i \in 1 .. n : i \in 1 .. Len(pushes)
    BY <1>1
  <2>2. BroadcastsOf(pushes, n) \in SUBSET BroadcastsOf(pushes, Len(pushes))
    BY <2>1 DEF BroadcastsOf
  <2>3. Cardinality(BroadcastsOf(pushes, n)) <= Cardinality(BroadcastsOf(pushes, Len(pushes)))
    <3>1. IsFiniteSet(BroadcastsOf(pushes, Len(pushes)))
      BY <1>1, BroadcastsFinite, Zenon
    <3> QED BY <2>2, <3>1, FS_Subset
  <2> QED BY <1>2, <1>3, <2>1, <2>3, BroadcastsFinite
<1> QED BY <1>1, <1>2, <1>3, <1>4, BroadcastsFinite

(* What the pushes are for is never changed. *)
LEMMA OrdinalsKept ==
    ASSUME ServerTypes, ServerTypes', Len(pushes) <= Len(pushes'),
           \A n \in DOMAIN pushes : pushes'[n].to = pushes[n].to
    PROVE  /\ \A n \in DOMAIN pushes : Ordinal(n)' = Ordinal(n)
           /\ Len(pushes') = Len(pushes) => Broadcasts' = Broadcasts
           /\ Len(pushes') = Len(pushes) + 1 =>
                Broadcasts' = Broadcasts + (IF pushes'[Len(pushes')].to = NoChannel THEN 1 ELSE 0)
<1> DEFINE q == pushes
           r == pushes'
           n == Len(q)
<1>1. n \in Nat /\ DOMAIN q = 1 .. n /\ Len(r) \in Nat /\ DOMAIN r = 1 .. Len(r)
  BY DEF ServerTypes
<1>2. /\ \A i : Ordinal(i) = Cardinality(BroadcastsOf(q, i))
      /\ \A i : Ordinal(i)' = Cardinality(BroadcastsOf(r, i))
      /\ Broadcasts = Cardinality(BroadcastsOf(q, n))
      /\ Broadcasts' = Cardinality(BroadcastsOf(r, Len(r)))
  BY <1>1 DEF Broadcasts, Ordinal, BroadcastsOf
<1>3. \A i \in 1 .. n : r[i].to = q[i].to
  BY <1>1
<1>4. n <= Len(r)
  OBVIOUS
<1> HIDE DEF q, r, n
<1>5. ASSUME NEW i \in 0 .. n PROVE BroadcastsOf(r, i) = BroadcastsOf(q, i)
  BY <1>1, <1>3 DEF BroadcastsOf
<1>6. ASSUME Len(r) = n + 1
      PROVE  Broadcasts' = Broadcasts + (IF r[Len(r)].to = NoChannel THEN 1 ELSE 0)
  <2> DEFINE S == BroadcastsOf(q, n)
  <2>1. IsFiniteSet(S) /\ Cardinality(S) \in Nat /\ n + 1 \notin S
    <3>1. n + 1 \notin 1 .. n
      BY <1>1
    <3> QED BY <1>1, <3>1, BroadcastsFinite, Zenon DEF BroadcastsOf
  <2>2. BroadcastsOf(r, n) = S
    <3>1. n \in 0 .. n
      BY <1>1
    <3> QED BY <1>5, <3>1
  <2>3. BroadcastsOf(r, Len(r)) = S \union (IF r[n + 1].to = NoChannel THEN {n + 1} ELSE {})
    <3>1. \A i : i \in 1 .. (n + 1) <=> i \in 1 .. n \/ i = n + 1
      BY <1>1
    <3> QED BY <1>6, <2>2, <3>1 DEF BroadcastsOf
  <2> HIDE DEF S
  <2>4. CASE r[n + 1].to = NoChannel
    <3>1. Cardinality(S \union {n + 1}) = Cardinality(S) + 1
      BY <2>1, FS_AddElement
    <3> QED BY <1>2, <1>6, <2>3, <2>4, <3>1 DEF S
  <2>5. CASE r[n + 1].to # NoChannel
    <3>1. BroadcastsOf(r, Len(r)) = S
      BY <2>3, <2>5
    <3> QED BY <1>2, <1>6, <2>1, <2>5, <3>1 DEF S
  <2> QED BY <2>4, <2>5
<1>7. \A i \in 1 .. n : Ordinal(i)' = Ordinal(i)
  BY <1>1, <1>2, <1>5
<1>8. Len(r) = n => Broadcasts' = Broadcasts
  BY <1>1, <1>2, <1>5
<1> QED BY <1>1, <1>6, <1>7, <1>8, ZenonT(30) DEF q, r, n
-----------------------------------------------------------------------------
(* The push under way. *)

(* Its message is the newest, and was refused nowhere yet; a broadcast goes *)
(* to the channels that have joined before it began.                        *)
UnderWay ==
    server.at = "push" =>
        /\ server.message = Len(pushes) /\ Len(pushes) \in DOMAIN pushes
        /\ pushes[Len(pushes)].refusedAt = MaxChannels
        /\ server.next <= server.end
        /\ \/ /\ pushes[Len(pushes)].to = NoChannel /\ server.end <= active
              /\ \A c \in Channels : c < active => (c < server.end <=> joinedAt[c] < Broadcasts)
           \/ /\ pushes[Len(pushes)].to \in Channels
              /\ server.end = pushes[Len(pushes)].to + 1
              /\ pushes[Len(pushes)].to <= server.next

JoinedBefore == \A c \in Channels : joinedAt[c] <= Broadcasts

OrderInv == UnderWay /\ JoinedBefore /\ EachInOrder

LEMMA PushFields ==
    ASSUME ServerTypes
    PROVE  /\ Len(pushes) \in Nat /\ DOMAIN pushes = 1 .. Len(pushes)
           /\ server.at = "push" => server.next \in Nat /\ server.end \in Nat
           /\ \A c \in Channels : joinedAt[c] \in Nat
<1> DEFINE M == 1 .. Len(pushes)
<1>1. Len(pushes) \in Nat /\ DOMAIN pushes = M /\ server \in ServerStates(M)
  BY DEF ServerTypes, MessageTypes
<1>2. \A c \in Channels : joinedAt[c] \in Nat
  BY BroadcastAssumption DEF ServerTypes
<1> HIDE DEF M
<1>3. server.at = "push" => server.next \in Nat /\ server.end \in Nat
  BY <1>1 DEF ServerStates, Idle
<1> QED BY <1>1, <1>2, <1>3 DEF M

LEMMA CarriedTypes ==
    ASSUME ServerTypes, NEW c \in Channels
    PROVE  /\ received[c] \in Seq(1 .. Len(pushes)) /\ ring[c] \in Seq(1 .. Len(pushes))
           /\ backPressure[c] \in Seq(1 .. Len(pushes))
           /\ Carried(c) \in Seq(Nat) /\ Carried(c) \in Seq(1 .. Len(pushes))
<1> DEFINE M == 1 .. Len(pushes)
<1>1. received[c] \in Seq(M) /\ ring[c] \in Seq(M) /\ backPressure[c] \in Seq(M) /\ M \subseteq Nat
  BY DEF ServerTypes, MessageTypes
<1> HIDE DEF M
<1>2. Carried(c) \in Seq(M)
  BY <1>1, ConcatProperties DEF Carried
<1>3. Carried(c) \in Seq(Nat)
  BY <1>1, <1>2, SeqMonotonic
<1> QED BY <1>1, <1>2, <1>3 DEF M

(* What has been promised, and what has been carried, is as before. *)
LEMMA OrderStill ==
    ASSUME EachInOrder, \A c \in Channels : PromisedTo(c)' = PromisedTo(c) /\ Carried(c)' = Carried(c)
    PROVE  EachInOrder'
BY DEF EachInOrder

LEMMA PromisedStill ==
    ASSUME pushes' = pushes, NEW c \in Channels, \A n \in DOMAIN pushes : Promised(n, c)' <=> Promised(n, c)
    PROVE  PromisedTo(c)' = PromisedTo(c)
BY DEF PromisedTo

(* The clients. *)
LEMMA ClientOrder ==
    ASSUME AllocationInv, ServerTypes, ServerTypes', OrderInv, NEW k \in Clients, ClientStep(k)
    PROVE  OrderInv'
<1>1. UNCHANGED serverVars
  BY DEF ClientStep, Lock, Examine, NameChannel, Activate, Unlock, Die, Dispatch
<1>2. UNCHANGED <<server, backPressure, pushes>> /\ Broadcasts' = Broadcasts
      /\ \A n : Ordinal(n)' = Ordinal(n)
      /\ \A i, c : Reached(i, c)' <=> Reached(i, c)
  BY <1>1 DEF serverVars, queueVars, Broadcasts, Ordinal, Reached
<1>3. UnderWay /\ JoinedBefore /\ EachInOrder
  BY DEF OrderInv
<1>4. CASE UNCHANGED <<active, joinedAt>>
  <2>1. UnderWay' /\ JoinedBefore'
    BY <1>2, <1>3, <1>4 DEF UnderWay, JoinedBefore
  <2>2. ASSUME NEW c \in Channels PROVE PromisedTo(c)' = PromisedTo(c)
    BY <1>2, <1>4 DEF PromisedTo, Promised
  <2>3. ASSUME NEW c \in Channels PROVE Carried(c)' = Carried(c)
    <3>1. CASE UNCHANGED <<ring, received>>
      BY <1>2, <3>1 DEF Carried
    <3>2. CASE Dispatch(k) /\ c = seen[k]
      <4>1. ring[c] # <<>> /\ received[c] \in Seq(1 .. Len(pushes)) /\ ring[c] \in Seq(1 .. Len(pushes))
        BY <3>2, CarriedTypes DEF Dispatch
      <4>2. received'[c] = Append(received[c], Head(ring[c])) /\ ring'[c] = Tail(ring[c])
        BY <3>2 DEF Dispatch, ServerTypes, MessageTypes
      <4>3. received'[c] \o ring'[c] = received[c] \o ring[c]
        BY <4>1, <4>2, Moved
      <4> QED BY <1>2, <4>3 DEF Carried
    <3>3. CASE Dispatch(k) /\ c # seen[k]
      <4>1. received'[c] = received[c] /\ ring'[c] = ring[c]
        BY <3>3 DEF Dispatch, ServerTypes, MessageTypes
      <4> QED BY <1>2, <4>1 DEF Carried
    <3>4. Dispatch(k) \/ UNCHANGED <<ring, received>>
      BY DEF ClientStep, Lock, Examine, NameChannel, Activate, Unlock, Die
    <3> QED BY <3>1, <3>2, <3>3, <3>4
  <2> QED BY <1>3, <2>1, <2>2, <2>3, OrderStill DEF OrderInv
<1>5. CASE Activate(k)
  <2>1. /\ active' = active + 1 /\ active \in Channels
        /\ joinedAt' = [joinedAt EXCEPT ![active] = Broadcasts] /\ UNCHANGED <<ring, received>>
    <3>1. client[k] = "named" => seen[k] = active /\ active < MaxChannels
      BY DEF AllocationInv, Exclusive
    <3> QED BY <1>5, <3>1, BroadcastAssumption DEF Activate, AllocationInv, AllocationTypes, Channels
  <2>2. /\ joinedAt'[active] = Broadcasts /\ \A c \in Channels : c # active => joinedAt'[c] = joinedAt[c]
        /\ \A c \in Channels : c < active' <=> c < active \/ c = active
        /\ ~(active < active)
    <3>1. joinedAt'[active] = Broadcasts /\ \A c \in Channels : c # active => joinedAt'[c] = joinedAt[c]
      BY <2>1 DEF ServerTypes
    <3>2. ~(active < active) /\ \A c \in Channels : c < active' <=> c < active \/ c = active
      BY <2>1, BroadcastAssumption DEF Channels
    <3> QED BY <3>1, <3>2
  <2>3. Broadcasts \in Nat /\ \A n \in DOMAIN pushes : Ordinal(n) \in Nat /\ Ordinal(n) <= Broadcasts
    BY OrdinalBounds
  <2>4. ASSUME NEW c \in Channels, NEW n \in DOMAIN pushes PROVE Promised(n, c)' <=> Promised(n, c)
    <3>1. c < active' /\ Ordinal(n)' > joinedAt'[c] <=> c < active /\ Ordinal(n) > joinedAt[c]
      <4>1. CASE c = active
        <5>1. ~(Ordinal(n)' > joinedAt'[c])
          BY <1>2, <2>2, <2>3, <4>1
        <5> QED BY <2>2, <4>1, <5>1
      <4>2. CASE c # active
        BY <1>2, <2>2, <4>2
      <4> QED BY <4>1, <4>2
    <3> QED BY <1>2, <3>1 DEF Promised
  <2>5. \A c \in Channels : PromisedTo(c)' = PromisedTo(c) /\ Carried(c)' = Carried(c)
    BY <1>2, <2>1, <2>4, PromisedStill DEF Carried
  <2>6. JoinedBefore'
    BY <1>2, <1>3, <2>2, <2>3 DEF JoinedBefore
  <2>7. UnderWay'
    <3> SUFFICES ASSUME server'.at = "push" PROVE UnderWay'
      BY DEF UnderWay
    <3>1. server.at = "push" /\ server.end \in Nat /\ active \in Nat
      BY <1>2, PushFields DEF AllocationInv, AllocationTypes
    <3>2. CASE pushes[Len(pushes)].to = NoChannel /\ server.end <= active
               /\ \A c \in Channels : c < active => (c < server.end <=> joinedAt[c] < Broadcasts)
      <4>1. server.end <= active' /\ ~(active < server.end) /\ ~(joinedAt'[active] < Broadcasts)
        BY <2>1, <2>2, <2>3, <3>1, <3>2
      <4>2. \A c \in Channels : c < active' => (c < server.end <=> joinedAt'[c] < Broadcasts)
        BY <2>2, <3>2, <4>1
      <4> QED BY <1>2, <1>3, <3>1, <3>2, <4>1, <4>2 DEF UnderWay
    <3> QED BY <1>2, <1>3, <3>1, <3>2 DEF UnderWay
  <2> QED BY <1>3, <2>5, <2>6, <2>7, OrderStill DEF OrderInv
<1>6. Activate(k) \/ UNCHANGED <<active, joinedAt>>
  BY DEF ClientStep, Lock, Examine, NameChannel, Unlock, Die, Dispatch, allocVars
<1> QED BY <1>4, <1>5, <1>6
(* The server: a push begins.  Its message is promised to nobody yet. *)
LEMMA PushBeginsOrder ==
    ASSUME AllocationInv, ServerTypes, ServerTypes', OrderInv, NEW h \in Handlers,
           Broadcast(h) \/ \E c \in Channels : PushTo(c, h)
    PROVE  OrderInv'
<1>1. PICK first, last, to :
        /\ server' = [at |-> "push", message |-> Len(pushes) + 1, handler |-> h,
                      next |-> first, end |-> last]
        /\ pushes' = Append(pushes, [to |-> to, refusedAt |-> MaxChannels])
        /\ \/ to = NoChannel /\ first = 0 /\ last = active
           \/ to \in Channels /\ first = to /\ last = to + 1
  <2>1. CASE Broadcast(h)
    BY <2>1 DEF Broadcast
  <2>2. ASSUME NEW c \in Channels, PushTo(c, h)
        PROVE  \E first, last, to :
                 /\ server' = [at |-> "push", message |-> Len(pushes) + 1, handler |-> h,
                               next |-> first, end |-> last]
                 /\ pushes' = Append(pushes, [to |-> to, refusedAt |-> MaxChannels])
                 /\ \/ to = NoChannel /\ first = 0 /\ last = active
                    \/ to \in Channels /\ first = to /\ last = to + 1
    BY <2>2 DEF PushTo
  <2> QED BY <2>1, <2>2
<1>2. server.at = "idle" /\ UNCHANGED <<active, joinedAt, received, ring, backPressure>>
  <2>1. ASSUME NEW c \in Channels, PushTo(c, h)
        PROVE  server = Idle /\ UNCHANGED <<active, joinedAt, received, ring, backPressure>>
    BY <2>1 DEF PushTo, allocVars, readerVars, queueVars
  <2>2. CASE Broadcast(h)
    BY <2>2 DEF Broadcast, Idle, allocVars, readerVars, queueVars
  <2> QED BY <2>1, <2>2 DEF Idle
<1>12. PICK m \in Nat : m = Len(pushes) + 1
  BY DEF ServerTypes
<1>3. /\ Len(pushes) \in Nat /\ DOMAIN pushes = 1 .. Len(pushes)
      /\ Len(pushes') = m /\ DOMAIN pushes' = 1 .. m
      /\ pushes'[m] = [to |-> to, refusedAt |-> MaxChannels]
      /\ \A n \in DOMAIN pushes : pushes'[n] = pushes[n]
  <2>1. pushes \in Seq(Pushed) /\ pushes' \in Seq(Pushed)
    BY DEF ServerTypes
  <2>2. Len(pushes') = m
    BY <1>1, <1>12, <2>1
  <2>3. DOMAIN pushes' = 1 .. m /\ Len(pushes) \in Nat /\ DOMAIN pushes = 1 .. Len(pushes)
    BY <2>1, <2>2
  <2>4. /\ Append(pushes, [to |-> to, refusedAt |-> MaxChannels])[m] = [to |-> to, refusedAt |-> MaxChannels]
        /\ \A n \in 1 .. Len(pushes) : Append(pushes, [to |-> to, refusedAt |-> MaxChannels])[n] = pushes[n]
    BY <1>12, <2>1
  <2> QED BY <1>1, <2>2, <2>3, <2>4
<1>4. \A n : n \in DOMAIN pushes' <=> n \in DOMAIN pushes \/ n = m
  <2> DEFINE l == Len(pushes)
  <2>1. l \in Nat /\ m = l + 1 /\ DOMAIN pushes = 1 .. l
    BY <1>3, <1>12
  <2> HIDE DEF l
  <2>2. \A n : n \in 1 .. m <=> n \in 1 .. l \/ n = m
    BY <2>1
  <2> QED BY <1>3, <2>1, <2>2
<1>5. m \in Nat /\ Len(pushes) <= m /\ m # Len(pushes) /\ m \notin DOMAIN pushes /\ m \in DOMAIN pushes'
  <2>1. Len(pushes) <= m /\ m # Len(pushes) /\ m \notin 1 .. Len(pushes) /\ m \in 1 .. m
    <3> DEFINE l == Len(pushes)
    <3>1. l \in Nat /\ m = l + 1
      BY <1>3, <1>12
    <3> HIDE DEF l
    <3>2. l <= m /\ m # l /\ m \notin 1 .. l /\ m \in 1 .. m
      BY <3>1
    <3> QED BY <3>2 DEF l
  <2> QED BY <1>3, <2>1
<1>6. /\ \A n \in DOMAIN pushes : Ordinal(n)' = Ordinal(n)
      /\ Broadcasts' = Broadcasts + (IF to = NoChannel THEN 1 ELSE 0)
  <2>1. \A n \in DOMAIN pushes : pushes'[n].to = pushes[n].to
    <3>1. \A n \in DOMAIN pushes : pushes'[n] = pushes[n]
      BY <1>3
    <3> QED BY <3>1, Zenon
  <2>2. Len(pushes) <= Len(pushes') /\ Len(pushes') = Len(pushes) + 1 /\ pushes'[Len(pushes')].to = to
    <3>1. pushes'[m].to = to
      BY <1>3
    <3>2. Len(pushes') = m
      BY <1>3
    <3> QED BY <1>5, <1>12, <3>1, <3>2
  <2>3. /\ \A n \in DOMAIN pushes : Ordinal(n)' = Ordinal(n)
        /\ Len(pushes') = Len(pushes) + 1 =>
             Broadcasts' = Broadcasts + (IF pushes'[Len(pushes')].to = NoChannel THEN 1 ELSE 0)
    BY <2>1, <2>2, OrdinalsKept
  <2> QED BY <2>2, <2>3
<1>7. Broadcasts \in Nat /\ \A c \in Channels : c \in Nat /\ joinedAt[c] \in Nat /\ joinedAt[c] <= Broadcasts
  BY OrdinalBounds, PushFields DEF OrderInv, JoinedBefore, Channels
<1>8. UnderWay'
  <2>1. /\ server'.message = Len(pushes') /\ Len(pushes') \in DOMAIN pushes'
        /\ pushes'[Len(pushes')].to = to /\ pushes'[Len(pushes')].refusedAt = MaxChannels
        /\ server'.next = first /\ server'.end = last
    <3>1. server'.message = Len(pushes) + 1 /\ server'.next = first /\ server'.end = last
      BY <1>1
    <3>2. pushes'[m].to = to /\ pushes'[m].refusedAt = MaxChannels
      BY <1>3
    <3> QED BY <1>3, <1>5, <1>12, <3>1, <3>2
  <2>2. CASE to = NoChannel /\ first = 0 /\ last = active
    <3>1. active \in Nat /\ active' = active
      BY <1>2 DEF AllocationInv, AllocationTypes
    <3>2. \A c \in Channels : joinedAt'[c] < Broadcasts'
      BY <1>2, <1>6, <1>7, <2>2
    <3> QED BY <2>1, <2>2, <3>1, <3>2 DEF UnderWay
  <2>3. CASE to \in Channels /\ first = to /\ last = to + 1
    <3>1. first <= last /\ to <= first
      BY <1>7, <2>3
    <3>2. pushes'[Len(pushes')].to \in Channels /\ pushes'[Len(pushes')].to <= server'.next
          /\ server'.end = pushes'[Len(pushes')].to + 1 /\ server'.next <= server'.end
      BY <2>1, <2>3, <3>1
    <3> QED BY <2>1, <3>2 DEF UnderWay
  <2> QED BY <1>1, <2>2, <2>3, SMTT(30)
<1>9. JoinedBefore'
  BY <1>2, <1>6, <1>7 DEF JoinedBefore
<1>10. ASSUME NEW c \in Channels PROVE PromisedTo(c)' = PromisedTo(c)
  <2>1. ~Promised(m, c)'
    <3>1. CASE to = NoChannel /\ first = 0
      <4>1. ~(c < 0)
        BY <1>7
      <4>2. ~Reached(m, c)'
        BY <1>1, <1>12, <3>1, <4>1 DEF Reached
      <4> QED BY <4>2 DEF Promised
    <3>2. CASE to \in Channels /\ first = to
      <4>1. to # NoChannel /\ ~(to < to)
        BY <1>7, <3>2, BroadcastAssumption
      <4>2. c = to => ~Reached(m, c)'
        BY <1>1, <1>12, <3>2, <4>1 DEF Reached
      <4>3. pushes'[m].to = to
        BY <1>3
      <4> QED BY <3>2, <4>1, <4>2, <4>3 DEF Promised
    <3> QED BY <1>1, <3>1, <3>2
  <2>2. ASSUME NEW n \in DOMAIN pushes PROVE Promised(n, c)' <=> Promised(n, c)
    <3>1. Reached(n, c)' /\ Reached(n, c)
      BY <1>1, <1>2, <1>5, <1>12 DEF Reached
    <3>2. pushes'[n] = pushes[n] /\ Ordinal(n)' = Ordinal(n)
      BY <1>3, <1>6
    <3> QED BY <1>2, <3>1, <3>2 DEF Promised
  <2> QED BY <1>4, <2>1, <2>2 DEF PromisedTo
<1>11. \A c \in Channels : Carried(c)' = Carried(c)
  BY <1>2 DEF Carried
<1> QED BY <1>8, <1>9, <1>10, <1>11, OrderStill DEF OrderInv

(* A push ends, having come to the last channel or been refused by one: it  *)
(* goes no further than it has come.                                        *)
LEMMA PushEndsOrder ==
    ASSUME AllocationInv, ServerTypes, ServerTypes', OrderInv, PushInvalid \/ PushRejected \/ PushDone
    PROVE  OrderInv'
<1>8. PICK m \in Nat : m = Len(pushes)
  BY DEF ServerTypes
<1>1. /\ server.at = "push" /\ server' = Idle /\ server.message = m
      /\ UNCHANGED <<active, joinedAt, received, ring, backPressure>>
  BY <1>8 DEF PushInvalid, PushRejected, PushDone, allocVars, readerVars, queueVars, OrderInv, UnderWay
<1>2. /\ m \in Nat /\ DOMAIN pushes = 1 .. m /\ m \in DOMAIN pushes
      /\ server.next \in Nat /\ server.end \in Nat
      /\ pushes[m].refusedAt = MaxChannels
  BY <1>1, <1>8, PushFields DEF OrderInv, UnderWay
<1>3. /\ Len(pushes') = m /\ DOMAIN pushes' = DOMAIN pushes
      /\ \A n \in DOMAIN pushes : pushes'[n].to = pushes[n].to
      /\ \A n \in DOMAIN pushes : n # m => pushes'[n] = pushes[n]
      /\ \/ PushDone /\ pushes' = pushes
         \/ pushes'[m].refusedAt = server.next
  <2>1. CASE PushDone
    BY <1>2, <1>8, <2>1 DEF PushDone
  <2>2. CASE PushInvalid \/ PushRejected
    <3>1. pushes' = [pushes EXCEPT ![m].refusedAt = server.next]
      BY <1>1, <2>2 DEF PushInvalid, PushRejected
    <3>2. pushes \in Seq(Pushed)
      BY DEF ServerTypes
    <3>3. pushes'[m].refusedAt = server.next /\ pushes'[m].to = pushes[m].to
      <4>1. pushes[m] \in Pushed
        BY <1>2, <3>2
      <4> QED BY <1>2, <3>1, <3>2, <4>1 DEF Pushed
    <3>4. Len(pushes') = m
      <4>1. server.next \in Nat /\ m \in 1 .. Len(pushes)
        BY <1>2, <1>8
      <4> QED BY <1>8, <3>1, <3>2, <4>1, Refused, SMTT(30)
    <3> QED BY <1>2, <1>8, <3>1, <3>2, <3>3, <3>4
  <2> QED BY <2>1, <2>2
<1>4. Broadcasts' = Broadcasts /\ \A n \in DOMAIN pushes : Ordinal(n)' = Ordinal(n)
  <2>1. Len(pushes) <= Len(pushes') /\ Len(pushes') = Len(pushes)
    BY <1>2, <1>3, <1>8
  <2> QED BY <1>3, <2>1, OrdinalsKept
<1>5. UnderWay' /\ JoinedBefore'
  BY <1>1, <1>4 DEF UnderWay, JoinedBefore, OrderInv, Idle
<1>6. ASSUME NEW c \in Channels PROVE PromisedTo(c)' = PromisedTo(c)
  <2>1. ASSUME NEW n \in DOMAIN pushes PROVE Reached(n, c)' /\ (n # m => Reached(n, c))
    BY <1>1 DEF Reached, Idle
  <2>2. ASSUME NEW n \in DOMAIN pushes, n # m PROVE Promised(n, c)' <=> Promised(n, c)
    <3>1. pushes'[n] = pushes[n] /\ Ordinal(n)' = Ordinal(n) /\ Reached(n, c)' /\ Reached(n, c)
      BY <1>3, <1>4, <2>1, <2>2
    <3> QED BY <1>1, <3>1 DEF Promised
  <2>3. c \in Nat /\ c < MaxChannels /\ active \in Nat
    BY BroadcastAssumption DEF Channels, AllocationInv, AllocationTypes
  <2>4. Promised(m, c)' <=> Promised(m, c)
    <3>1. Reached(m, c)' /\ (Reached(m, c) <=> c < server.next)
      BY <1>1, <1>2, <2>1 DEF Reached
    <3>2. pushes'[m].to = pushes[m].to /\ Ordinal(m)' = Ordinal(m)
      BY <1>2, <1>3, <1>4
    <3>3. CASE pushes'[m].refusedAt = server.next
      BY <1>1, <1>2, <2>3, <3>1, <3>2, <3>3 DEF Promised
    <3>4. CASE PushDone /\ pushes' = pushes
      <4>1. server.next = server.end
        BY <3>4 DEF PushDone
      <4>2. pushes[m].to = c => c < server.end
        <5>1. NoChannel # c
          BY <2>3, BroadcastAssumption
        <5> QED BY <1>1, <1>2, <1>8, <2>3, <5>1 DEF OrderInv, UnderWay
      <4>3. pushes[m].to = NoChannel /\ c < active /\ Ordinal(m) > joinedAt[c] => c < server.end
        <5>1. NoChannel \notin Channels
          BY BroadcastAssumption DEF Channels
        <5>2. pushes[m].to = NoChannel => (c < active => (c < server.end <=> joinedAt[c] < Broadcasts))
          BY <1>1, <1>8, <5>1 DEF OrderInv, UnderWay
        <5>3. Ordinal(m) = Broadcasts /\ Broadcasts \in Nat /\ joinedAt[c] \in Nat
          BY <1>2, <1>8, OrdinalBounds, PushFields
        <5> QED BY <5>2, <5>3
      <4> QED BY <1>1, <1>2, <2>3, <3>1, <3>2, <3>4, <4>1, <4>2, <4>3 DEF Promised
    <3> QED BY <1>3, <3>3, <3>4
  <2> QED BY <1>3, <2>2, <2>4 DEF PromisedTo
<1>7. \A c \in Channels : Carried(c)' = Carried(c)
  BY <1>1 DEF Carried
<1> QED BY <1>5, <1>6, <1>7, OrderStill DEF OrderInv
(* A push comes to the next channel: its message is appended to what that   *)
(* channel carries, after older messages only.                              *)
LEMMA PushGoesOnOrder ==
    ASSUME AllocationInv, ServerTypes, ServerTypes', OrderInv, PushThrough \/ PushBuffered
    PROVE  OrderInv'
<1>1. PICK m \in Nat : m = Len(pushes)
  BY DEF ServerTypes
<1>2. PICK c \in Channels : c = server.next
  BY PushFields, BroadcastAssumption
     DEF PushThrough, PushBuffered, AllocationInv, AllocationTypes, Channels
<1>3. /\ server.at = "push" /\ c < server.end /\ c < active /\ server' = NextChannel /\ server.message = m
      /\ UNCHANGED <<active, joinedAt, received, pushes>>
  BY <1>1, <1>2
     DEF PushThrough, PushBuffered, allocVars, readerVars, queueVars, OrderInv, UnderWay
<1>4. /\ DOMAIN pushes = 1 .. m /\ m \in DOMAIN pushes
      /\ server.next \in Nat /\ server.end \in Nat
      /\ pushes[m].refusedAt = MaxChannels
  BY <1>1, <1>3, PushFields DEF OrderInv, UnderWay
<1>5. server'.at = "push" /\ server'.message = m /\ server'.next = c + 1 /\ server'.end = server.end
  <2> DEFINE M == 1 .. Len(pushes)
  <2>1. server \in ServerStates(M)
    BY DEF ServerTypes, MessageTypes
  <2> HIDE DEF M
  <2>2. server \in [at : {"push"}, message : M, handler : Handlers, next : Nat, end : Nat]
    BY <1>3, <2>1 DEF ServerStates, Idle
  <2> QED BY <1>2, <1>3, <2>2 DEF NextChannel
<1>6. Broadcasts' = Broadcasts /\ \A n : Ordinal(n)' = Ordinal(n)
  BY <1>3 DEF Broadcasts, Ordinal
<1>7. /\ c \in Nat /\ active \in Nat /\ c < MaxChannels
      /\ Ordinal(m) = Broadcasts /\ Broadcasts \in Nat /\ joinedAt[c] \in Nat
  BY <1>1, <1>4, OrdinalBounds, PushFields, BroadcastAssumption
     DEF Channels, AllocationInv, AllocationTypes
<1>8. c + 1 <= server.end /\ c < c + 1 /\ \A d \in Channels : d # c => (d < c + 1 <=> d < c)
  BY <1>3, <1>4, <1>7 DEF Channels
<1>9. JoinedBefore'
  BY <1>3, <1>6 DEF OrderInv, JoinedBefore
<1>10. /\ \/ pushes[m].to = NoChannel /\ server.end <= active
             /\ \A d \in Channels : d < active => (d < server.end <=> joinedAt[d] < Broadcasts)
          \/ pushes[m].to \in Channels /\ server.end = pushes[m].to + 1 /\ pushes[m].to <= c
  BY <1>1, <1>2, <1>3 DEF OrderInv, UnderWay
<1>11. UnderWay'
  <2>1. pushes[m].to \in Channels /\ pushes[m].to <= c => pushes[m].to <= c + 1
    BY <1>7 DEF Channels
  <2> QED BY <1>1, <1>3, <1>4, <1>5, <1>6, <1>8, <1>10, <2>1 DEF UnderWay
<1>12. \/ pushes[m].to = c
       \/ pushes[m].to = NoChannel /\ Ordinal(m) > joinedAt[c]
  <2>1. CASE /\ pushes[m].to = NoChannel
             /\ \A d \in Channels : d < active => (d < server.end <=> joinedAt[d] < Broadcasts)
    BY <1>3, <1>7, <2>1
  <2>2. CASE pushes[m].to \in Channels /\ server.end = pushes[m].to + 1 /\ pushes[m].to <= c
    BY <1>3, <1>7, <2>2 DEF Channels
  <2> QED BY <1>10, <2>1, <2>2
<1>13. ASSUME NEW d \in Channels, NEW n \in DOMAIN pushes, n # m \/ d # c
       PROVE  Promised(n, d)' <=> Promised(n, d)
  <2>1. Reached(n, d)' <=> Reached(n, d)
    BY <1>2, <1>3, <1>5, <1>8, <1>13 DEF Reached
  <2> QED BY <1>3, <1>6, <2>1 DEF Promised
<1>14. Promised(m, c)' /\ ~Promised(m, c)
  <2>1. Reached(m, c)' /\ ~Reached(m, c)
    <3>1. ~(c < c)
      BY <1>7
    <3> QED BY <1>2, <1>3, <1>5, <1>8, <3>1 DEF Reached
  <2> QED BY <1>3, <1>4, <1>6, <1>7, <1>12, <2>1 DEF Promised
<1>15. /\ PromisedTo(c)' = PromisedTo(c) \union {m}
       /\ \A d \in Channels : d # c => PromisedTo(d)' = PromisedTo(d)
       /\ \A x \in PromisedTo(c) : x < m
  <2>1. \A x \in PromisedTo(c) : x < m
    <3>1. \A x \in 1 .. m : x # m => x < m
      BY <1>1
    <3> QED BY <1>4, <1>14, <3>1 DEF PromisedTo
  <2> QED BY <1>3, <1>4, <1>13, <1>14, <2>1 DEF PromisedTo
<1>16. /\ Carried(c)' = Append(Carried(c), m)
       /\ \A d \in Channels : d # c => Carried(d)' = Carried(d)
  <2>1. /\ received[c] \in Seq(1 .. m) /\ ring[c] \in Seq(1 .. m) /\ backPressure[c] \in Seq(1 .. m)
        /\ m \in 1 .. m
    BY <1>1, <1>4, CarriedTypes
  <2>4. received[c] \o ring[c] \o Append(backPressure[c], m) = Append(Carried(c), m)
    <3> DEFINE M == 1 .. m
    <3>1. received[c] \in Seq(M) /\ ring[c] \in Seq(M) /\ backPressure[c] \in Seq(M) /\ m \in M
      BY <2>1
    <3> HIDE DEF M
    <3>3. ASSUME NEW r \in Seq(M), NEW q \in Seq(M), NEW b \in Seq(M)
          PROVE  r \o q \o Append(b, m) = Append(r \o q \o b, m)
      <4>1. m \in M
        BY <3>1
      <4> QED BY <4>1, AppendedLast
    <3>2. received[c] \o ring[c] \o Append(backPressure[c], m)
            = Append(received[c] \o ring[c] \o backPressure[c], m)
      BY <3>1, <3>3, Zenon
    <3> QED BY <3>2 DEF Carried
  <2>5. received[c] \o Append(ring[c], m) \o << >> = Append(received[c] \o ring[c] \o << >>, m)
    <3>1. ASSUME NEW M, NEW r \in Seq(M), NEW q \in Seq(M), m \in M
          PROVE  r \o Append(q, m) \o << >> = Append(r \o q \o << >>, m)
      BY <3>1, AppendedMiddle
    <3> QED BY <2>1, <3>1
  <2>2. CASE PushThrough
    <3>1. /\ backPressure[c] = <<>> /\ backPressure' = backPressure
          /\ ring' = [ring EXCEPT ![c] = Append(ring[c], m)]
      BY <1>2, <1>3, <2>2 DEF PushThrough, Congested, queueVars
    <3>2. ring'[c] = Append(ring[c], m) /\ \A d \in Channels : d # c => ring'[d] = ring[d]
      BY <3>1 DEF ServerTypes, MessageTypes
    <3>3. received[c] \o Append(ring[c], m) \o backPressure[c] = Append(Carried(c), m)
      BY <2>5, <3>1 DEF Carried
    <3> QED BY <1>3, <3>1, <3>2, <3>3 DEF Carried
  <2>3. CASE PushBuffered
    <3>1. ring' = ring /\ backPressure' = [backPressure EXCEPT ![c] = Append(backPressure[c], m)]
      BY <1>2, <1>3, <2>3 DEF PushBuffered, DefaultHandler, StartBackPressureQueue
    <3>2. backPressure'[c] = Append(backPressure[c], m)
          /\ \A d \in Channels : d # c => backPressure'[d] = backPressure[d]
      BY <3>1 DEF ServerTypes, MessageTypes
    <3>3. received[c] \o ring[c] \o Append(backPressure[c], m) = Append(Carried(c), m)
      BY <2>4
    <3> QED BY <1>3, <3>1, <3>2, <3>3 DEF Carried
  <2> QED BY <2>2, <2>3
<1>17. EachInOrder'
  <2>1. ASSUME NEW d \in Channels PROVE Range(Carried(d))' = PromisedTo(d)' /\ InOrder(Carried(d))'
    <3>1. Range(Carried(d)) = PromisedTo(d) /\ InOrder(Carried(d)) /\ Carried(d) \in Seq(Nat)
      BY CarriedTypes DEF OrderInv, EachInOrder
    <3>2. CASE d = c
      <4>1. InOrder(Append(Carried(c), m)) /\ Range(Append(Carried(c), m)) = Range(Carried(c)) \union {m}
        BY <1>15, <3>1, <3>2, AppendInOrder
      <4> QED BY <1>15, <1>16, <3>1, <3>2, <4>1
    <3>3. CASE d # c
      BY <1>15, <1>16, <3>1, <3>3
    <3> QED BY <3>2, <3>3
  <2> QED BY <2>1 DEF EachInOrder
<1> QED BY <1>9, <1>11, <1>17 DEF OrderInv

(* The asynchronous action moves the messages that wait, in their order. *)
LEMMA DrainOrder ==
    ASSUME AllocationInv, ServerTypes, ServerTypes', OrderInv,
           Drain \/ DrainOne \/ DrainRetry \/ DrainDone
    PROVE  OrderInv'
<1>1. /\ server.at # "push" /\ server'.at # "push"
      /\ UNCHANGED <<active, joinedAt, received, pushes>>
  BY DEF Drain, DrainOne, DrainRetry, DrainDone, Idle, allocVars, readerVars
<1>2. /\ UnderWay' /\ JoinedBefore'
      /\ \A c \in Channels : PromisedTo(c)' = PromisedTo(c)
  <2>1. Broadcasts' = Broadcasts /\ \A n : Ordinal(n)' = Ordinal(n)
    BY <1>1 DEF Broadcasts, Ordinal
  <2>2. \A n, c : Reached(n, c)' /\ Reached(n, c)
    BY <1>1 DEF Reached
  <2>3. \A c \in Channels, n \in DOMAIN pushes : Promised(n, c)' <=> Promised(n, c)
    BY <1>1, <2>1, <2>2 DEF Promised
  <2> QED BY <1>1, <2>1, <2>3 DEF UnderWay, JoinedBefore, OrderInv, PromisedTo
<1>3. ASSUME NEW c \in Channels PROVE Carried(c)' = Carried(c)
  <2>1. CASE UNCHANGED <<ring, backPressure>>
    BY <1>1, <2>1 DEF Carried
  <2>2. CASE DrainOne
    <3> DEFINE q == ring[c]
               b == backPressure[c]
    <3>1. CASE c = server.channel
      <4>1. b # <<>> /\ ring'[c] = Append(q, Head(b)) /\ backPressure'[c] = Tail(b)
        BY <2>2, <3>1 DEF DrainOne, ServerTypes, MessageTypes
      <4>2. /\ received[c] \in Seq(1 .. Len(pushes)) /\ q \in Seq(1 .. Len(pushes))
            /\ b \in Seq(1 .. Len(pushes))
        BY CarriedTypes
      <4> DEFINE M == 1 .. Len(pushes)
                 r == received[c]
                 a == Append(q, Head(b))
                 t == Tail(b)
      <4>3. r \in Seq(M) /\ q \in Seq(M) /\ b \in Seq(M) /\ a \in Seq(M) /\ t \in Seq(M)
        BY <4>1, <4>2, HeadTailProperties, AppendProperties
      <4>4. a \o t = q \o b
        BY <4>1, <4>2, Moved
      <4>5. Carried(c)' = r \o a \o t /\ Carried(c) = r \o q \o b
        BY <1>1, <4>1 DEF Carried
      <4> HIDE DEF M, r, a, t, q, b
      <4>6. r \o a \o t = r \o (a \o t) /\ r \o q \o b = r \o (q \o b)
        <5>1. \A x, y, z \in Seq(M) : x \o y \o z = x \o (y \o z)
          BY ConcatAssociative
        <5>2. r \o a \o t = r \o (a \o t)
          BY <4>3, <5>1, ZenonT(60)
        <5>3. r \o q \o b = r \o (q \o b)
          BY <4>3, <5>1, ZenonT(60)
        <5> QED BY <5>2, <5>3
      <4> QED BY <4>4, <4>5, <4>6
    <3>2. CASE c # server.channel
      <4>1. ring'[c] = ring[c] /\ backPressure'[c] = backPressure[c]
        BY <2>2, <3>2 DEF DrainOne, ServerTypes, MessageTypes
      <4> QED BY <1>1, <4>1 DEF Carried
    <3> QED BY <3>1, <3>2
  <2> QED BY <2>1, <2>2 DEF Drain, DrainRetry, DrainDone, queueVars
<1> QED BY <1>2, <1>3, OrderStill DEF OrderInv

LEMMA OrderInit == Init => OrderInv
<1> SUFFICES ASSUME Init PROVE OrderInv
  OBVIOUS
<1>1. pushes = <<>> /\ DOMAIN pushes = {} /\ server.at = "idle"
  BY DEF Init, Idle
<1>2. \A c \in Channels : joinedAt[c] = 0 /\ Carried(c) = <<>>
  <2>1. \A c \in Channels : received[c] = <<>> /\ ring[c] = <<>> /\ backPressure[c] = <<>>
    BY DEF Init
  <2>2. << >> \o << >> \o << >> = << >>
    BY ConcatEmptySeq, EmptySeq
  <2> QED BY <2>1, <2>2 DEF Init, Carried
<1>3. Broadcasts = 0
  <2>1. {n \in DOMAIN pushes : pushes[n].to = NoChannel} = {}
    BY <1>1
  <2> QED BY <2>1, FS_EmptySet DEF Broadcasts
<1>4. UnderWay /\ JoinedBefore
  BY <1>1, <1>2, <1>3 DEF UnderWay, JoinedBefore
<1>5. EachInOrder
  <2>1. \A c \in Channels : PromisedTo(c) = {}
    BY <1>1 DEF PromisedTo
  <2>2. DOMAIN << >> = {}
    OBVIOUS
  <2> QED BY <1>2, <2>1, <2>2 DEF EachInOrder, Range, InOrder
<1> QED BY <1>4, <1>5 DEF OrderInv

LEMMA OrderStep == AllocationInv /\ ServerTypes /\ ServerTypes' /\ OrderInv /\ [Next]_vars => OrderInv'
<1> SUFFICES ASSUME AllocationInv, ServerTypes, ServerTypes', OrderInv, [Next]_vars PROVE OrderInv'
  OBVIOUS
<1>1. CASE PushThrough \/ PushBuffered
  BY <1>1, PushGoesOnOrder
<1>2. CASE PushInvalid \/ PushRejected \/ PushDone
  BY <1>2, PushEndsOrder
<1>3. CASE Drain \/ DrainOne \/ DrainRetry \/ DrainDone
  BY <1>3, DrainOrder
<1>4. ASSUME NEW h \in Handlers, Broadcast(h) \/ \E c \in Channels : PushTo(c, h) PROVE OrderInv'
  BY <1>4, PushBeginsOrder
<1>5. ASSUME NEW k \in Clients, ClientStep(k) PROVE OrderInv'
  BY <1>5, ClientOrder
<1>6. CASE Prepare \/ UNCHANGED vars
  <2>1. UNCHANGED <<active, joinedAt, received, ring, backPressure, server, pushes>>
    BY <1>6 DEF Prepare, vars, allocVars, readerVars, serverVars, queueVars
  <2>2. Broadcasts' = Broadcasts /\ \A n : Ordinal(n)' = Ordinal(n)
    BY <2>1 DEF Broadcasts, Ordinal
  <2>3. \A c \in Channels : PromisedTo(c)' = PromisedTo(c) /\ Carried(c)' = Carried(c)
    BY <2>1, <2>2 DEF PromisedTo, Promised, Reached, Carried
  <2>4. UnderWay' /\ JoinedBefore'
    BY <2>1, <2>2 DEF OrderInv, UnderWay, JoinedBefore
  <2> QED BY <2>3, <2>4, OrderStill DEF OrderInv
<1> QED BY <1>1, <1>2, <1>3, <1>4, <1>5, <1>6 DEF Next, ServerWork

(* A channel carries each message it was promised once and in the order of  *)
(* the pushes, whichever of the three ways a message took, while clients    *)
(* join and die, handlers refuse and the asynchronous actions try again.    *)
THEOREM MessagesInOrder == Spec => []EachInOrder
<1>1. Init => AllocationInv /\ ServerTypes /\ OrderInv
  BY AllocationInit, TypesInit, OrderInit
<1>2. AllocationInv /\ ServerTypes /\ OrderInv /\ [Next]_vars
        => (AllocationInv /\ ServerTypes /\ OrderInv)'
  BY AllocationStep, TypesStep, OrderStep
<1>3. OrderInv => EachInOrder
  BY DEF OrderInv
<1> QED BY <1>1, <1>2, <1>3, PTL DEF Spec
=============================================================================
