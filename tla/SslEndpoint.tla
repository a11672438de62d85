---------------------------- MODULE SslEndpoint ----------------------------
(***************************************************************************)
(* An SSL endpoint (sockets/live/SSLLiveEndpoint.hpp) with what it uses of *)
(* its connection manager and poll manager.                                *)
(*                                                                         *)
(* Everything runs on the thread of one event queue: the handshake, the    *)
(* sending of asynchronous payloads and the close are asynchronous actions *)
(* of that queue, run in their order and posted again until done; the poll *)
(* reports the events of a registered socket; the application calls the    *)
(* endpoint from its own actions, and from the callbacks of this one.  One *)
(* of them, onPayloadSend, runs in the middle of a send: what the send has *)
(* checked may no longer hold when it goes on.                             *)
(*                                                                         *)
(* A send is a number, in the order in which onPayloadSend returned.       *)
(* maxMessagesPerSecond is left out: timeBufferPending compares with       *)
(* _lastSendTime, which is the epoch at the first send, and gives the time *)
(* buffer up for good.                                                     *)
(***************************************************************************)
EXTENDS Integers, Sequences, FiniteSets

CONSTANTS
    MaxBackpressureBytes,   \* kMaxBackpressureBytes
    Sizes,                  \* of the payloads that are sent
    MaxSends,               \* bound: payloads onPayloadSend is called for
    MaxOpens,               \* bound: connections
    MaxCloses,              \* bound: closeEndpoint calls that post their action
    None                    \* no send

ASSUME SslAssumption ==
    /\ MaxBackpressureBytes \in Nat /\ Sizes \subseteq Nat
    /\ MaxSends \in Nat /\ MaxOpens \in Nat \ {0} /\ MaxCloses \in Nat
    /\ None \notin Nat

VARIABLES
    serverSide,             \* created by a listener for an accepted descriptor
    sslState,               \* _sslState
    sslSocket,              \* _sslSocket is set
    registered,             \* the descriptor is registered with the poll manager
    posted,                 \* the endpoint's actions on the event queue
    outboundBuffer,         \* its size
    asyncBytesSent,
    asyncSendInProgress,
    activeFinishCB,         \* the send it belongs to
    pendingAsyncSends,
    queuedBackpressureBytes,
    stage,                  \* what the loop thread is doing
    asking,                 \* sends in their onPayloadSend callback, the innermost last
    syncSend,               \* the payload send() is writing, and what is left of it
    sends,                  \* history: each send, and how many there were at its check
    refusals,               \* history: how many sends onPayloadSend has refused
    refused,                \* history: the event queue refused the action of the active send
    finished,               \* history: how often each finishCB was called
    dropped,                \* history: sends discarded by a disconnect
    doomed,                 \* history: sends the endpoint cannot keep its word for
    wire,                   \* history: for each byte written, connection and send
    connection,             \* how many connections there have been
    closes,                 \* how many close actions have been posted
    awaited                 \* history: an open has not been answered by a callback

asyncVars == <<outboundBuffer, asyncBytesSent, asyncSendInProgress, activeFinishCB,
               pendingAsyncSends, queuedBackpressureBytes, dropped, refused>>
socketVars == <<sslSocket, registered, awaited>>
countVars == <<serverSide, connection, closes>>
callVars == <<asking, syncSend, sends, refusals, doomed>>
vars == <<countVars, sslState, socketVars, posted, asyncVars, stage, callVars,
          finished, wire>>

Ids == 1 .. MaxSends
Actions == {"handshake", "drive", "close"}
(* "finish" and "lost" are the callbacks that processAsyncSendQueue calls   *)
(* and goes on after; in "ended" the event loop has returned an error.      *)
Stages == {"idle", "finish", "lost", "ended"}

(* A client endpoint nobody has opened, or one for an accepted connection.  *)
Init ==
    /\ serverSide \in BOOLEAN
    /\ sslState = IF serverSide THEN "RemoteClientConnecting" ELSE "Disconnected"
    /\ sslSocket = serverSide /\ registered = serverSide
    /\ posted = IF serverSide THEN <<"handshake">> ELSE <<>>
    /\ outboundBuffer = 0 /\ asyncBytesSent = 0 /\ asyncSendInProgress = FALSE
    /\ activeFinishCB = None /\ pendingAsyncSends = <<>> /\ queuedBackpressureBytes = 0
    /\ stage = "idle" /\ asking = <<>> /\ syncSend = None
    /\ sends = <<>> /\ finished = [i \in Ids |-> 0] /\ dropped = {} /\ doomed = {}
    /\ refused = FALSE /\ refusals = 0
    /\ wire = <<>>
    /\ connection = IF serverSide THEN 1 ELSE 0
    /\ closes = 0 /\ awaited = serverSide

isActive == sslState = "Connected"

-----------------------------------------------------------------------------
(* Losing the connection.                                                   *)

(* The sends the endpoint has accepted and still has to finish.             *)
Held ==
    {i \in Ids : asyncSendInProgress /\ activeFinishCB = i /\ finished[i] = 0}
      \union {i \in Ids : \E n \in DOMAIN pendingAsyncSends : pendingAsyncSends[n] = i}

(* Mutated: the count of the queued bytes is kept. *)
M_ClearKeepsCount ==
    /\ outboundBuffer' = 0 /\ asyncBytesSent' = 0 /\ asyncSendInProgress' = FALSE
    /\ activeFinishCB' = None /\ pendingAsyncSends' = <<>>
    /\ dropped' = dropped \union Held /\ refused' = FALSE
    /\ UNCHANGED queuedBackpressureBytes

(* Mutated: the finish callback is kept. *)
M_ClearKeepsCallback ==
    /\ outboundBuffer' = 0 /\ asyncBytesSent' = 0 /\ asyncSendInProgress' = FALSE
    /\ pendingAsyncSends' = <<>> /\ queuedBackpressureBytes' = 0
    /\ dropped' = dropped \union Held /\ refused' = FALSE
    /\ UNCHANGED activeFinishCB

ClearAsyncSendState ==
    /\ outboundBuffer' = 0 /\ asyncBytesSent' = 0 /\ asyncSendInProgress' = FALSE
    /\ activeFinishCB' = None /\ pendingAsyncSends' = <<>> /\ queuedBackpressureBytes' = 0
    /\ dropped' = dropped \union Held /\ refused' = FALSE

(* onDisconnected, up to the application's handler: the state is not        *)
(* changed.  SSL_shutdown of a null socket reports an error, like every     *)
(* call on one, and is ignored.                                             *)
OnDisconnected ==
    /\ ClearAsyncSendState
    /\ sslSocket' = FALSE /\ registered' = FALSE
    /\ awaited' = FALSE

-----------------------------------------------------------------------------
(* The application's calls, from its own actions and from callbacks.        *)
MayCall == stage # "ended" /\ syncSend = None

ClosePosted == \E n \in DOMAIN posted : posted[n] = "close"

(* (An open of the socket that fails before SSL_new changes nothing.)  The  *)
(* event queue refuses an asynchronous action while a payload is prepared   *)
(* on it: the call then fails and there is nobody to do the handshake.      *)
OpenEndpoint ==
    /\ MayCall /\ ~serverSide /\ connection < MaxOpens
    /\ ~isActive
    /\ sslSocket' = TRUE /\ registered' = FALSE
    /\ sslState' = "ConnectingToRemote"
    /\ \/ posted' = Append(posted, "handshake") /\ awaited' = ~ClosePosted
       \/ UNCHANGED <<posted, awaited>>
    /\ connection' = connection + 1
    /\ doomed' = IF asyncBytesSent > 0 THEN doomed \union {activeFinishCB} ELSE doomed
    /\ UNCHANGED <<serverSide, asyncVars, stage, asking, syncSend, sends, refusals, finished,
                   wire, closes>>

(* SSL_set_fd fails: the descriptor is closed but the SSL socket stays.     *)
OpenEndpointFails ==
    /\ MayCall /\ ~serverSide /\ connection < MaxOpens
    /\ ~isActive
    /\ sslSocket' = TRUE /\ registered' = FALSE
    /\ UNCHANGED awaited
    /\ connection' = connection + 1
    /\ doomed' = IF asyncBytesSent > 0 THEN doomed \union {activeFinishCB} ELSE doomed
    /\ UNCHANGED <<serverSide, sslState, posted, asyncVars, stage, asking, syncSend, sends,
                   refusals, finished, wire, closes>>

(* (onCloseEndpoint is called first; the socket is looked at again after.)  *)
CloseEndpoint ==
    /\ MayCall /\ closes < MaxCloses
    /\ sslSocket /\ isActive
    /\ posted' = Append(posted, "close")
    /\ closes' = closes + 1
    /\ UNCHANGED <<serverSide, sslState, socketVars, asyncVars, stage, callVars, finished,
                   wire, connection>>

Backpressure ==
    queuedBackpressureBytes
      + (IF asyncSendInProgress THEN outboundBuffer - asyncBytesSent ELSE 0)

(* A send that passed its checks calls onPayloadSend, from which the        *)
(* application may make any other call.                                     *)
Ask(bytes, way) ==
    /\ Len(sends) + Len(asking) + refusals < MaxSends
    /\ asking' = Append(asking, [bytes |-> bytes, way |-> way, at |-> Len(sends)])
    /\ UNCHANGED <<socketVars, posted, asyncVars, syncSend, sends, refusals, doomed>>

(* verifyBackpressureLimit disconnects; the closeEndpoint that follows      *)
(* finds no socket and fails.                                               *)
ExceedLimit(bytes) ==
    /\ Backpressure + bytes > MaxBackpressureBytes
    /\ OnDisconnected
    /\ UNCHANGED <<posted, callVars>>

(* sendAsync, which does not look whether the endpoint is open.             *)
SendAsync(bytes) ==
    \/ Backpressure + bytes <= MaxBackpressureBytes /\ Ask(bytes, "async")
    \/ ExceedLimit(bytes)

CallSendAsync(bytes) ==
    /\ MayCall
    /\ SendAsync(bytes)
    /\ UNCHANGED <<countVars, sslState, stage, finished, wire>>

(* Mutated: send() does not look for an asynchronous send in progress. *)
M_CallSend(bytes) ==
    /\ MayCall /\ sslSocket
    /\ Ask(bytes, "sync")
    /\ UNCHANGED <<countVars, sslState, stage, finished, wire>>

CallSend(bytes) ==
    /\ MayCall /\ sslSocket
    /\ \/ asyncSendInProgress /\ SendAsync(bytes)
       \/ ~asyncSendInProgress /\ Ask(bytes, "sync")
    /\ UNCHANGED <<countVars, sslState, stage, finished, wire>>

(* The innermost onPayloadSend returns. *)
asked == asking[Len(asking)]
Answer ==
    /\ asking # <<>> /\ syncSend = None
    /\ asking' = SubSeq(asking, 1, Len(asking) - 1)
    /\ UNCHANGED <<countVars, sslState, socketVars, stage, finished, wire>>

(* It has failed, and so does the send. *)
PayloadRefused ==
    /\ Answer
    /\ refusals' = refusals + 1
    /\ UNCHANGED <<posted, asyncVars, syncSend, sends, doomed>>

(* It has not: the send gets its number. *)
Accepted(way) ==
    /\ Answer
    /\ asked.way = way
    /\ sends' = Append(sends, asked)
    /\ UNCHANGED refusals

(* The rest of sendAsync, which looks for an asynchronous send only now and *)
(* at the limit no more.  A send that becomes the active one while          *)
(* processAsyncSendQueue calls the application is overwritten when that     *)
(* goes on.  One whose action the event queue refuses is reported as failed *)
(* and stays the active one.                                                *)
QueueAsync ==
    /\ Accepted("async")
    /\ \/ /\ asyncSendInProgress
          /\ pendingAsyncSends' = Append(pendingAsyncSends, Len(sends'))
          /\ queuedBackpressureBytes' = queuedBackpressureBytes + asked.bytes
          /\ UNCHANGED <<outboundBuffer, asyncBytesSent, asyncSendInProgress,
                         activeFinishCB, dropped, refused, doomed, posted>>
       \/ /\ ~asyncSendInProgress
          /\ outboundBuffer' = asked.bytes /\ asyncBytesSent' = 0
          /\ asyncSendInProgress' = TRUE /\ activeFinishCB' = Len(sends')
          /\ \/ posted' = Append(posted, "drive") /\ UNCHANGED refused
             \/ refused' = TRUE /\ UNCHANGED posted
          /\ doomed' = IF stage = "idle" THEN doomed ELSE doomed \union {Len(sends')}
          /\ UNCHANGED <<pendingAsyncSends, queuedBackpressureBytes, dropped>>
    /\ UNCHANGED syncSend

(* The rest of send(), which writes whatever the callback has called. *)
BeginSync ==
    /\ Accepted("sync")
    /\ syncSend' = IF asked.bytes = 0 THEN None ELSE [id |-> Len(sends'), left |-> asked.bytes]
    /\ UNCHANGED <<posted, asyncVars, doomed>>

(* SSL_write has written n bytes of send i.                                 *)
Written(i, n) == wire' = wire \o [k \in 1 .. n |-> <<connection, i>>]

(* send() goes on until all is written, whatever else the loop has to do.   *)
SyncWrite ==
    /\ syncSend # None
    /\ \/ \E n \in 1 .. syncSend.left :
            /\ sslSocket
            /\ Written(syncSend.id, n)
            /\ syncSend' = IF n = syncSend.left THEN None ELSE [syncSend EXCEPT !.left = @ - n]
            /\ UNCHANGED <<socketVars, asyncVars>>
       \/ /\ OnDisconnected
          /\ syncSend' = None
          /\ UNCHANGED wire
    /\ UNCHANGED <<countVars, sslState, posted, stage, asking, sends, refusals, doomed,
                   finished>>

-----------------------------------------------------------------------------
(* The actions on the event queue.                                          *)

AtRest == syncSend = None /\ asking = <<>>

Runs(a) == stage = "idle" /\ AtRest /\ posted # <<>> /\ Head(posted) = a
Done == posted' = Tail(posted)

(* An action that is not done is posted again; when the event queue refuses *)
(* it, because a payload is prepared, the loop ends.                        *)
Repost(rest, a) ==
    \/ posted' = Append(rest, a) /\ stage' = "idle"
    \/ posted' = rest /\ stage' = "ended"
Again == Repost(Tail(posted), Head(posted))

(* The application's handler may fail, which ends the loop. *)
Disconnected(next) == OnDisconnected /\ stage' \in {next, "ended"}

HandshakeWants ==
    /\ Runs("handshake") /\ sslSocket
    /\ Again
    /\ UNCHANGED <<countVars, sslState, socketVars, asyncVars, callVars, finished, wire>>

(* Mutated: a handshake that wants to read or write is not tried again. *)
M_HandshakeEnds ==
    /\ Runs("handshake")
    /\ Done
    /\ registered' = sslSocket
    /\ UNCHANGED awaited
    /\ UNCHANGED <<countVars, sslState, sslSocket, asyncVars, stage, callVars, finished,
                   wire>>

HandshakeEnds ==
    /\ Runs("handshake")
    /\ Done
    /\ \/ /\ ~sslSocket
          /\ UNCHANGED <<sslState, socketVars, asyncVars, stage>>
       \/ /\ sslSocket
          /\ sslState' = "Connected" /\ registered' = TRUE
          /\ awaited' = FALSE
          /\ stage' \in {"idle", "ended"}
          /\ UNCHANGED <<sslSocket, asyncVars>>
       \/ /\ sslSocket
          /\ sslState' = "Disconnected"
          /\ Disconnected("idle")
    /\ UNCHANGED <<countVars, callVars, finished, wire>>

(* processAsyncSendQueue takes the next payload, if any, and waits for the  *)
(* next cycle with it.                                                      *)
TakeNext(rest) ==
    \/ /\ pendingAsyncSends = <<>>
       /\ posted' = rest /\ stage' = "idle"
       /\ asyncSendInProgress' = FALSE /\ activeFinishCB' = None
       /\ refused' = FALSE
       /\ UNCHANGED <<outboundBuffer, asyncBytesSent, pendingAsyncSends,
                      queuedBackpressureBytes>>
    \/ /\ pendingAsyncSends # <<>>
       /\ Repost(rest, "drive")
       /\ activeFinishCB' = Head(pendingAsyncSends)
       /\ outboundBuffer' = sends[activeFinishCB'].bytes
       /\ queuedBackpressureBytes' = queuedBackpressureBytes - outboundBuffer'
       /\ pendingAsyncSends' = Tail(pendingAsyncSends)
       /\ asyncBytesSent' = 0 /\ asyncSendInProgress' = TRUE
       /\ refused' = FALSE

(* An action that was posted by a send that is over. *)
DriveIdle ==
    /\ Runs("drive") /\ ~asyncSendInProgress
    /\ TakeNext(Tail(posted))
    /\ UNCHANGED <<countVars, sslState, socketVars, dropped, callVars, finished, wire>>

DriveWants ==
    /\ Runs("drive") /\ asyncSendInProgress
    /\ outboundBuffer > 0 /\ sslSocket
    /\ Again
    /\ UNCHANGED <<countVars, sslState, socketVars, asyncVars, callVars, finished, wire>>

(* The finish callback is called when the last byte is written.             *)
DriveWrites ==
    /\ Runs("drive") /\ asyncSendInProgress
    /\ sslSocket
    /\ \E n \in 1 .. outboundBuffer - asyncBytesSent :
          /\ Written(activeFinishCB, n)
          /\ \/ /\ asyncBytesSent + n < outboundBuffer
                /\ asyncBytesSent' = asyncBytesSent + n
                /\ Again
                /\ UNCHANGED <<outboundBuffer, finished>>
             \/ /\ asyncBytesSent + n = outboundBuffer
                /\ outboundBuffer' = 0 /\ asyncBytesSent' = 0
                /\ Done
                /\ finished' = [finished EXCEPT ![activeFinishCB] = @ + 1]
                /\ stage' = "finish"
    /\ UNCHANGED <<countVars, sslState, socketVars, asyncSendInProgress, activeFinishCB,
                   pendingAsyncSends, queuedBackpressureBytes, dropped, refused, callVars>>

(* An empty payload is taken for no payload, and the loop ends.             *)
DriveEmpty ==
    /\ Runs("drive") /\ asyncSendInProgress
    /\ outboundBuffer = 0
    /\ Done /\ stage' = "ended"
    /\ UNCHANGED <<countVars, sslState, socketVars, asyncVars, callVars, finished, wire>>

DriveFails ==
    /\ Runs("drive") /\ asyncSendInProgress
    /\ outboundBuffer > 0
    /\ Disconnected("lost")
    /\ Done
    /\ UNCHANGED <<countVars, sslState, callVars, finished, wire>>

(* After the application's disconnect handler: sendAsyncCont reports that   *)
(* it is done, and whatever finish callback there is now is called.         *)
LeaveLost ==
    /\ stage = "lost" /\ AtRest
    /\ \/ /\ activeFinishCB # None
          /\ finished' = [finished EXCEPT ![activeFinishCB] = @ + 1]
          /\ stage' = "finish"
          /\ UNCHANGED <<asyncVars, posted>>
       \/ /\ activeFinishCB = None
          /\ TakeNext(posted)
          /\ UNCHANGED <<finished, dropped>>
    /\ UNCHANGED <<countVars, sslState, socketVars, callVars, wire>>

(* Mutated: the next payload is left for the action of the next send. *)
M_LeaveFinish ==
    /\ stage = "finish" /\ AtRest
    /\ stage' = "idle"
    /\ asyncSendInProgress' = FALSE /\ activeFinishCB' = None /\ refused' = FALSE
    /\ UNCHANGED <<countVars, sslState, socketVars, posted, outboundBuffer, asyncBytesSent,
                   pendingAsyncSends, queuedBackpressureBytes, dropped, callVars, finished, wire>>

LeaveFinish ==
    /\ stage = "finish" /\ AtRest
    /\ \/ TakeNext(posted)
       \/ /\ stage' = "ended"
          /\ UNCHANGED <<posted, outboundBuffer, asyncBytesSent, asyncSendInProgress,
                         activeFinishCB, pendingAsyncSends, queuedBackpressureBytes, refused>>
    /\ UNCHANGED <<countVars, sslState, socketVars, dropped, callVars, finished, wire>>

(* The action of closeRemoteConnection.  An SSL error counts as closed and  *)
(* leaves state and descriptor as they are.                                 *)
CloseAction ==
    /\ Runs("close")
    /\ \/ /\ sslSocket
          /\ Again
          /\ UNCHANGED <<sslState, socketVars>>
       \/ /\ Done
          /\ sslSocket' = FALSE
          /\ UNCHANGED <<sslState, registered, awaited, stage>>
       \/ /\ sslSocket
          /\ Done
          /\ sslState' = "Disconnected"
          /\ sslSocket' = FALSE /\ registered' = FALSE
          /\ UNCHANGED <<awaited, stage>>
    /\ UNCHANGED <<countVars, asyncVars, callVars, finished, wire>>

-----------------------------------------------------------------------------
(* The poll: a hangup, a failed read, or a read of no bytes, the only one   *)
(* that changes the state.  (A read that delivers a payload changes         *)
(* nothing here; what the application then calls it also calls otherwise.)  *)
PollLosesConnection ==
    /\ stage = "idle" /\ AtRest /\ registered
    /\ sslState' \in {sslState} \union (IF sslSocket THEN {"Disconnected"} ELSE {})
    /\ Disconnected("idle")
    /\ UNCHANGED <<countVars, posted, callVars, finished, wire>>

Rest ==
    /\ stage = "ended" \/ posted = <<>>
    /\ UNCHANGED vars

Call ==
    \/ OpenEndpoint \/ OpenEndpointFails \/ CloseEndpoint
    \/ \E bytes \in Sizes : CallSend(bytes) \/ CallSendAsync(bytes)

Drive == DriveIdle \/ DriveWants \/ DriveWrites \/ DriveEmpty \/ DriveFails
LoopStep ==
    \/ HandshakeWants \/ HandshakeEnds
    \/ Drive \/ LeaveLost \/ LeaveFinish
    \/ CloseAction
    \/ PayloadRefused \/ QueueAsync \/ BeginSync \/ SyncWrite

Next == Call \/ LoopStep \/ PollLosesConnection \/ Rest

Spec == Init /\ [][Next]_vars

(* The event queue keeps running what is posted, callbacks return, and the  *)
(* peer reads and answers in the end: writes and handshakes do not want     *)
(* for ever.                                                                *)
FairSpec ==
    /\ Spec
    /\ WF_vars(LoopStep)
    /\ SF_vars(HandshakeEnds)
    /\ SF_vars(DriveWrites \/ DriveFails)

-----------------------------------------------------------------------------
TypeOK ==
    /\ serverSide \in BOOLEAN /\ sslSocket \in BOOLEAN /\ registered \in BOOLEAN
    /\ sslState \in {"Disconnected", "ConnectingToRemote", "RemoteClientConnecting", "Connected"}
    /\ posted \in Seq(Actions)
    /\ outboundBuffer \in Sizes \union {0} /\ asyncBytesSent \in 0 .. outboundBuffer
    /\ asyncSendInProgress \in BOOLEAN /\ activeFinishCB \in Ids \union {None}
    /\ pendingAsyncSends \in Seq(Ids) /\ queuedBackpressureBytes \in Nat
    /\ stage \in Stages
    /\ asking \in Seq([bytes : Sizes, way : {"sync", "async"}, at : Nat])
    /\ syncSend \in [id : Ids, left : Nat] \union {None}
    /\ sends \in Seq([bytes : Sizes, way : {"sync", "async"}, at : Nat])
    /\ refusals \in Nat /\ refused \in BOOLEAN
    /\ finished \in [Ids -> Nat] /\ dropped \subseteq Ids /\ doomed \subseteq Ids
    /\ wire \in Seq((0 .. MaxOpens) \X Ids)
    /\ connection \in 0 .. MaxOpens /\ closes \in 0 .. MaxCloses /\ awaited \in BOOLEAN

BytesOf(i) == sends[i].bytes

(* The sizes of the sends in queue, added up from the last to the first,    *)
(* come to bytes.                                                           *)
AddUpTo(queue, bytes) ==
    \E rest \in [1 .. (Len(queue) + 1) -> 0 .. bytes] :
        /\ rest[1] = bytes /\ rest[Len(queue) + 1] = 0
        /\ \A k \in DOMAIN queue : rest[k] = BytesOf(queue[k]) + rest[k + 1]

(* The last payload in the endpoint's buffers. *)
LastHeld ==
    IF pendingAsyncSends = <<>> THEN activeFinishCB
    ELSE pendingAsyncSends[Len(pendingAsyncSends)]

(* Another send was accepted between the check of send i and its queueing.  *)
Overtaken(i) == \E j \in (sends[i].at + 1) .. (i - 1) : sends[j].way = "async"

(* What the endpoint takes for its back pressure is what it buffers: the    *)
(* payloads that wait and the rest of the active one.  It never buffers     *)
(* more than the limit, through partial writes, sends from callbacks,       *)
(* disconnects and sends on a closed endpoint, unless the last payload it   *)
(* buffers was checked before others that its onPayloadSend callback sent   *)
(* (lines 260 to 283), which the code does not check again.                 *)
BackpressureBounded ==
    /\ AddUpTo(pendingAsyncSends, queuedBackpressureBytes)
    /\ Backpressure <= MaxBackpressureBytes \/ Overtaken(LastHeld)

(* An asynchronous send that was accepted is still held, or its finish      *)
(* callback has been called, once, or a disconnect has discarded it: never  *)
(* two of these and never none.                                             *)
EachSendOnce ==
    stage # "ended" =>
        \A i \in DOMAIN sends : sends[i].way = "async" /\ i \notin doomed =>
            finished[i] + Cardinality({i} \intersect dropped) + Cardinality({i} \intersect Held) = 1

(* The bytes of sends leave in the order in which the sends were accepted,  *)
(* whether send() or sendAsync() was called; only a send() leaves before    *)
(* what its own onPayloadSend callback sent.  No byte leaves between two    *)
(* bytes of another send.  And a finish callback means that all the bytes   *)
(* have left on one connection.                                             *)
WireOrder ==
    /\ \A m, n \in DOMAIN wire : m < n =>
          LET first == wire[m][2]  later == wire[n][2]
          IN  first <= later \/ (sends[first].way = "sync" /\ sends[first].at < later)
    /\ \A m, n \in DOMAIN wire : m < n /\ wire[m][2] = wire[n][2] =>
          \A k \in m .. n : wire[k][2] = wire[m][2]
    /\ \A i \in DOMAIN sends : finished[i] > 0 /\ i \notin doomed =>
          \E c \in 0 .. MaxOpens :
              Cardinality({n \in DOMAIN wire : wire[n] = <<c, i>>}) = BytesOf(i)

(* What is accepted does not wait for ever: when no more sends are made,    *)
(* the buffers run empty, unless the event queue refused the action that    *)
(* was to send it (line 285) or the loop has ended.                         *)
AsyncCompletes == Held # {} ~> Held = {} \/ stage = "ended" \/ refused

(* An open that succeeded is answered: the endpoint becomes active or the   *)
(* disconnect handler is called.  (Unless the close of an earlier           *)
(* connection is still posted: it destroys the socket of the new one.)      *)
OpenAnswered == awaited ~> ~awaited \/ stage = "ended"

-----------------------------------------------------------------------------
(* "Endpoint {} is already open" is what openEndpoint answers when the      *)
(* endpoint is active: it then has a connection.  The code does not keep    *)
(* it: a hangup, or a read or write that fails, resets the socket and not   *)
(* the state (line 489).                                                    *)
ActiveIsOpen == isActive => sslSocket
=============================================================================
