-------------------------- MODULE WebSocketEndpoint --------------------------
(***************************************************************************)
(* A WebSocket endpoint, client or server                                  *)
(* (sockets/live/WebSocketLiveEndpoint.hpp): upgrade of an HTTP            *)
(* connection, frames reassembled from reads that end anywhere, messages   *)
(* of several frames, pings, the close frame, and what is reset between    *)
(* connections.                                                            *)
(*                                                                         *)
(* A frame is two tokens of header and one for each piece of payload.  The *)
(* upgrade message is one token: how HTTP messages are read is the module  *)
(* HttpEndpoint.  The peer keeps to the protocol, its frames are masked if *)
(* it is the client.  A frame's masking key is the frame it came with.     *)
(***************************************************************************)
EXTENDS Integers, Sequences, FiniteSets

CONSTANTS
    Kinds,          \* of messages of the peer
    Lengths,        \* of payloads whose encoding is looked at
    MaxMessages,    \* bound: messages of the peer
    MaxOpens,       \* bound: connections
    None

ASSUME WebSocketAssumption ==
    /\ Kinds \subseteq {"text", "empty", "fragmented", "interrupted", "ping", "close"}
    /\ Lengths \subseteq Nat /\ MaxMessages \in Nat /\ MaxOpens \in Nat
    /\ None \notin Nat \union {"text", "empty", "fragmented", "interrupted", "ping", "close"}
    /\ None \notin {"Text", "Continuation", "Ping", "ClosedConnection"}

VARIABLES
    serverSide,
    upgraded,       \* _upgraded, and the HTTP state WebsocketPassthrough
    handshake,      \* our part of the upgrade: "none", "queued", "sent"
    pendingContent, \* _pendingWSFrameContent
    finalFrame,     \* _finalFrame
    firstOp,        \* *_firstOp
    continuation,   \* _continuationBuffer
    maskingKey,     \* *_maskingKey
    frameReadTime,  \* _frameReadTime is set
    prepended,      \* the inbound buffer up to _inboundWriteOffset
    input,          \* what is left of the current read
    polling,        \* what onPayloadReady reads: "nothing", "http", "frames"
    calling,        \* the application's handler runs
    loop,           \* "running", "ended" or "passthrough" by an error, "misread"
    open,           \* the base connection is established
    stream,         \* bytes of the peer that have not been read
    connection,     \* how many connections there have been
    messages,       \* history: messages of the peer
    delivered,      \* history: what the payload handler was given
    situations      \* history: what this code does not handle

frameVars == <<pendingContent, finalFrame, firstOp, continuation, maskingKey>>
callVars == <<calling, loop, situations>>
peerVars == <<open, stream, connection, messages>>
vars == <<serverSide, upgraded, handshake, frameVars, frameReadTime, prepended, input, polling,
          callVars, peerVars, delivered>>

Init ==
    /\ serverSide \in BOOLEAN
    /\ upgraded = FALSE /\ handshake = "none"
    /\ pendingContent = 0 /\ finalFrame = FALSE /\ firstOp = None /\ continuation = <<>>
    /\ maskingKey = None /\ frameReadTime = FALSE
    /\ prepended = <<>> /\ input = <<>> /\ polling = "nothing"
    /\ calling = FALSE /\ loop = "running"
    /\ open = serverSide /\ stream = <<>>
    /\ connection = IF serverSide THEN 1 ELSE 0
    /\ messages = <<>> /\ delivered = <<>> /\ situations = {}

-----------------------------------------------------------------------------
(* The header of a frame that is sent.  The size is cast to 16 bits, and    *)
(* the branch of the 64 bit length is never taken.                          *)
Cast16(n) == n % 65536

(* clientSendFramedPayload: the frame is masked.                            *)
ClientHeader(n) ==
    IF Cast16(n) <= 125 THEN [mask |-> TRUE, short |-> Cast16(n), extended |-> 0]
    ELSE [mask |-> TRUE, short |-> 126, extended |-> Cast16(n)]

(* Mutated: the short form is used for one size more. *)
M_ServerHeader(n) ==
    IF Cast16(n) <= 126 THEN [mask |-> FALSE, short |-> Cast16(n), extended |-> 0]
    ELSE [mask |-> FALSE, short |-> 126, extended |-> Cast16(n)]

(* serverSendFramedPayload                                                  *)
ServerHeader(n) ==
    IF Cast16(n) <= 125 THEN [mask |-> FALSE, short |-> Cast16(n), extended |-> 0]
    ELSE [mask |-> FALSE, short |-> 126, extended |-> Cast16(n)]

(* handleWebsocketPayload                                                   *)
LengthRead(header) == IF header.short < 126 THEN header.short ELSE header.extended

-----------------------------------------------------------------------------
(* Frames of the peer's messages.                                           *)
Frame(op, fin, size) == [op |-> op, fin |-> fin, size |-> size]
Frames(kind) ==
    CASE kind = "text" -> <<Frame("Text", TRUE, 2)>>
      [] kind = "empty" -> <<Frame("Text", TRUE, 0)>>
      [] kind = "fragmented" -> <<Frame("Text", FALSE, 1), Frame("Continuation", TRUE, 1)>>
      [] kind = "interrupted" -> <<Frame("Text", FALSE, 1), Frame("Ping", TRUE, 1),
                                   Frame("Continuation", TRUE, 1)>>
      [] kind = "ping" -> <<Frame("Ping", TRUE, 1)>>
      [] kind = "close" -> <<Frame("ClosedConnection", TRUE, 0)>>

HeaderSize == 2
Upgrade == [m |-> 0, f |-> 0, k |-> 0]
(* A message has three frames at most. *)
FrameTokens(m, kind, f) ==
    IF f \in DOMAIN Frames(kind)
      THEN [k \in 1 .. HeaderSize + Frames(kind)[f].size |-> [m |-> m, f |-> f, k |-> k]]
      ELSE <<>>
Tokens(m, kind) == FrameTokens(m, kind, 1) \o FrameTokens(m, kind, 2) \o FrameTokens(m, kind, 3)
FrameOf(t) == Frames(messages[t.m].kind)[t.f]
KeyOf(t) == [m |-> t.m, f |-> t.f]
FramePayload(m, f) ==
    LET tokens == FrameTokens(m, messages[m].kind, f) IN SubSeq(tokens, HeaderSize + 1, Len(tokens))
PayloadOf(m) == FramePayload(m, 1) \o FramePayload(m, 2) \o FramePayload(m, 3)

-----------------------------------------------------------------------------
(* Losing the connection.                                                   *)

(* Mutated: the part of a message that has been read is kept. *)
M_ResetWebsocketState ==
    /\ upgraded' = FALSE /\ frameReadTime' = FALSE
    /\ maskingKey' = None /\ continuation' = continuation /\ pendingContent' = 0
    /\ finalFrame' = FALSE

(* resetWebsocketState, which leaves _firstOp and the prepended bytes.      *)
ResetWebsocketState ==
    /\ upgraded' = FALSE /\ frameReadTime' = FALSE
    /\ maskingKey' = None /\ continuation' = <<>> /\ pendingContent' = 0 /\ finalFrame' = FALSE

(* onDisconnected, closeEndpoint and disconnectEndpoint alike.              *)
Lose ==
    /\ ResetWebsocketState
    /\ open' = FALSE /\ stream' = <<>> /\ handshake' = "none"

-----------------------------------------------------------------------------
(* Reading.                                                                 *)
Idle == loop = "running" /\ polling = "nothing"
Parsing == loop = "running" /\ ~calling /\ input # <<>>

(* onPayloadReady: the poll reports the socket, the first read.  An SSL     *)
(* base goes on reading while there are decrypted records.                  *)
Read ==
    /\ loop = "running" /\ open /\ ~calling /\ input = <<>>
    /\ \E n \in 1 .. Len(stream) :
          /\ input' = prepended \o SubSeq(stream, 1, n)
          /\ stream' = SubSeq(stream, n + 1, Len(stream))
    /\ prepended' = <<>>
    /\ frameReadTime' = (frameReadTime \/ (upgraded /\ polling = "nothing"))
    /\ polling' = IF upgraded THEN "frames" ELSE "http"
    /\ situations' = situations \union (IF polling # "nothing" THEN {"records"} ELSE {})
    /\ UNCHANGED <<serverSide, upgraded, handshake, frameVars, calling, loop, open, connection,
                   messages, delivered>>

PollReturns ==
    /\ loop = "running" /\ ~calling /\ input = <<>> /\ polling # "nothing"
    /\ polling' = "nothing"
    /\ UNCHANGED <<serverSide, upgraded, handshake, frameVars, frameReadTime, prepended, input,
                   callVars, peerVars, delivered>>

(* handleBaseSocketInboundPayload: the upgrade request, which is answered,  *)
(* or the upgrade response; then the application's onActive handler.  What  *)
(* else is in the read meets the state WebsocketPassthrough in the parser   *)
(* of HTTP messages, an error.                                              *)
GetUpgraded ==
    /\ Parsing /\ polling = "http" /\ Head(input) = Upgrade
    /\ upgraded' = TRUE
    /\ handshake' = IF serverSide THEN "queued" ELSE handshake
    /\ input' = <<>>
    /\ loop' = IF Len(input) > 1 THEN "passthrough" ELSE "running"
    /\ UNCHANGED <<serverSide, frameVars, frameReadTime, prepended, polling, calling, situations,
                   peerVars, delivered>>

Unmasked(payload, key) ==
    \A n \in DOMAIN payload : serverSide => KeyOf(payload[n]) = key

(* The payload handler is called before the state of the message is reset.  *)
(* The payload of a ping is passed on, and answered, as it came.            *)
CallHandler(op, payload, key) ==
    /\ calling' = TRUE
    /\ delivered' = Append(delivered,
         [op |-> op, payload |-> payload, open |-> open', timed |-> frameReadTime',
          plain |-> IF op = "Text" THEN Unmasked(payload, key)
                    ELSE ~serverSide \/ payload = <<>>])

(* A frame has been read to its end: a fragment is kept, a message goes to  *)
(* the switch over _firstOp.                                                *)
FrameEnds(fin, op, payload, key, rest) ==
    \/ /\ ~fin
       /\ continuation' = continuation \o payload
       /\ pendingContent' = 0 /\ finalFrame' = fin /\ firstOp' = op /\ maskingKey' = key
       /\ input' = rest
       /\ UNCHANGED <<upgraded, handshake, frameReadTime, open, stream, situations, calling,
                      delivered>>
    \/ /\ fin
       /\ op \in {"ClosedConnection", "Continuation"}
       /\ Lose
       /\ firstOp' = op
       /\ input' = <<>>
       /\ UNCHANGED <<situations, calling, delivered>>
    \/ /\ fin
       /\ op \in {"Text", "Ping"}
       /\ maskingKey' = IF op = "Text" THEN None ELSE key
       /\ continuation' = IF continuation = <<>> THEN <<>> ELSE continuation \o payload
       /\ pendingContent' = 0 /\ finalFrame' = fin /\ firstOp' = op
       /\ input' = rest
       /\ UNCHANGED <<upgraded, handshake, frameReadTime, open, stream, situations>>
       /\ CallHandler(op, continuation \o payload, key)
    \/ (* The pong finds the connection gone; the handler is called all the same. *)
       /\ fin /\ op = "Ping"
       /\ Lose
       /\ firstOp' = op
       /\ input' = rest
       /\ situations' = situations \union {"pongLost"}
       /\ CallHandler(op, continuation \o payload, key)

ParseUnchanged == UNCHANGED <<serverSide, prepended, polling, loop, connection, messages>>
(* (Also after a handler has closed the endpoint.)                          *)
InFrames == Parsing /\ polling = "frames"
AtFrame == input[1].k = 1 /\ (Len(input) > 1 => input[2] = [input[1] EXCEPT !.k = 2])

(* shiftIncompleteHdrToFrontForNextRead                                     *)
ShiftIncompleteHeader ==
    /\ InFrames /\ pendingContent = 0 /\ Len(input) < HeaderSize /\ AtFrame
    /\ prepended' = input /\ input' = <<>>
    /\ UNCHANGED <<serverSide, upgraded, handshake, frameVars, frameReadTime, polling, callVars,
                   peerVars, delivered>>

(* The header of the next frame, and as much of it as has been read.        *)
NextFrame ==
    /\ InFrames /\ pendingContent = 0 /\ Len(input) >= HeaderSize /\ AtFrame
    /\ LET frame == FrameOf(input[1])
           size == HeaderSize + frame.size
           key == IF serverSide THEN KeyOf(input[1]) ELSE maskingKey
           op == IF firstOp = None THEN frame.op ELSE firstOp
       IN  \/ /\ Len(input) < size
              /\ pendingContent' = size - Len(input)
              /\ finalFrame' = frame.fin /\ firstOp' = op /\ maskingKey' = key
              /\ continuation' = continuation \o SubSeq(input, HeaderSize + 1, Len(input))
              /\ input' = <<>>
              /\ UNCHANGED <<upgraded, handshake, frameReadTime, open, stream, situations,
                             calling, delivered>>
           \/ /\ Len(input) >= size
              /\ FrameEnds(frame.fin, op, SubSeq(input, HeaderSize + 1, size), key,
                           SubSeq(input, size + 1, Len(input)))
    /\ ParseUnchanged

(* Mutated: a read that ends with the frame leaves it pending. *)
M_PendingFrame ==
    /\ InFrames /\ pendingContent > 0
    /\ \/ /\ Len(input) <= pendingContent
          /\ pendingContent' = pendingContent - Len(input)
          /\ continuation' = continuation \o input
          /\ input' = <<>>
          /\ UNCHANGED <<upgraded, handshake, finalFrame, firstOp, maskingKey, frameReadTime,
                         open, stream, situations, calling, delivered>>
       \/ /\ Len(input) > pendingContent
          /\ FrameEnds(finalFrame, firstOp, SubSeq(input, 1, pendingContent), maskingKey,
                       SubSeq(input, pendingContent + 1, Len(input)))
    /\ ParseUnchanged

(* The rest of a frame of an earlier read.                                  *)
PendingFrame ==
    /\ InFrames /\ pendingContent > 0
    /\ \/ /\ Len(input) < pendingContent
          /\ pendingContent' = pendingContent - Len(input)
          /\ continuation' = continuation \o input
          /\ input' = <<>>
          /\ UNCHANGED <<upgraded, handshake, finalFrame, firstOp, maskingKey, frameReadTime,
                         open, stream, situations, calling, delivered>>
       \/ /\ Len(input) >= pendingContent
          /\ FrameEnds(finalFrame, firstOp, SubSeq(input, 1, pendingContent), maskingKey,
                       SubSeq(input, pendingContent + 1, Len(input)))
    /\ ParseUnchanged

(* The parser takes for a header, or for an HTTP message, what is none.     *)
Misread ==
    /\ Parsing
    /\ \/ polling = "http" /\ Head(input) # Upgrade
       \/ InFrames /\ pendingContent = 0 /\ ~AtFrame
    /\ loop' = "misread"
    /\ UNCHANGED <<serverSide, upgraded, handshake, frameVars, frameReadTime, prepended, input,
                   polling, calling, situations, peerVars, delivered>>

(* The handler returns, an error ends the loop.                             *)
HandlerReturns ==
    /\ loop = "running" /\ calling
    /\ calling' = FALSE
    /\ firstOp' = None /\ continuation' = <<>>
    /\ frameReadTime' = (input # <<>>)
    /\ loop' \in {"running", "ended"}
    /\ UNCHANGED <<serverSide, upgraded, handshake, pendingContent, finalFrame, maskingKey,
                   prepended, input, polling, situations, peerVars, delivered>>

-----------------------------------------------------------------------------
(* The application, the base endpoint and the peer.                         *)
Unread == UNCHANGED <<serverSide, prepended, input, polling, calling, loop, messages, delivered>>

(* openEndpoint; the base's onActive then has a client send its request.    *)
OpenEndpoint ==
    /\ Idle /\ ~serverSide /\ ~open /\ connection < MaxOpens
    /\ open' = TRUE /\ stream' = <<>> /\ connection' = connection + 1
    /\ handshake' = "queued"
    /\ situations' = situations \union
         (IF prepended # <<>> THEN {"leftover"} ELSE {})
    /\ UNCHANGED <<upgraded, frameVars, frameReadTime>>
    /\ Unread

(* closeEndpoint, disconnectEndpoint, or a send that finds the connection   *)
(* gone, also from a handler that has not been given all of a read.         *)
CloseEndpoint ==
    /\ Idle \/ (loop = "running" /\ calling)
    /\ open
    /\ Lose
    /\ situations' = situations \union (IF input # <<>> THEN {"closedInRead"} ELSE {})
    /\ UNCHANGED <<connection, firstOp>>
    /\ Unread

(* The poll finds a hangup or a failed read.                                *)
LoseConnection ==
    /\ Idle /\ open
    /\ Lose
    /\ UNCHANGED <<connection, firstOp, situations>>
    /\ Unread

WriteHandshake ==
    /\ Idle /\ open /\ handshake = "queued"
    /\ handshake' = "sent"
    /\ UNCHANGED <<upgraded, frameVars, frameReadTime, open, stream, connection, situations>>
    /\ Unread

(* A client asks for the upgrade first, a server answers it; and frames     *)
(* follow the answer.                                                       *)
PeerUpgraded == \E m \in DOMAIN messages : messages[m] = [kind |-> None, connection |-> connection]

PeerUpgrades ==
    /\ open /\ ~PeerUpgraded /\ (serverSide \/ handshake = "sent")
    /\ messages' = Append(messages, [kind |-> None, connection |-> connection])
    /\ stream' = Append(stream, Upgrade)
    /\ UNCHANGED <<serverSide, upgraded, handshake, frameVars, frameReadTime, prepended, input,
                   polling, callVars, open, connection, delivered>>

(* Nothing but the upgrade has been sent on this connection.                *)
Unused == \A m \in DOMAIN messages :
             messages[m].connection = connection => messages[m].kind = None

Count == Cardinality({m \in DOMAIN messages : messages[m].kind # None})
(* The first message of a connection may find the opcode of the one that    *)
(* was being read when the last connection was lost.                        *)
PeerSends(kind) ==
    /\ open /\ PeerUpgraded /\ handshake = "sent" /\ Count < MaxMessages
    /\ messages' = Append(messages, [kind |-> kind, connection |-> connection])
    /\ stream' = stream \o Tokens(Len(messages'), kind)
    /\ situations' = situations \union
         (IF Unused /\ firstOp \notin {None, Frames(kind)[1].op} THEN {"leftover"} ELSE {})
    /\ UNCHANGED <<serverSide, upgraded, handshake, frameVars, frameReadTime, prepended, input,
                   polling, calling, loop, open, connection, delivered>>

ParseStep ==
    \/ GetUpgraded \/ ShiftIncompleteHeader \/ NextFrame \/ PendingFrame \/ Misread

Next ==
    \/ Read \/ PollReturns \/ ParseStep \/ HandlerReturns
    \/ OpenEndpoint \/ CloseEndpoint \/ LoseConnection \/ WriteHandshake
    \/ PeerUpgrades \/ \E kind \in Kinds : PeerSends(kind)

Spec == Init /\ [][Next]_vars

(* The loop polls, and the handler returns.                                 *)
FairSpec == Spec /\ WF_vars(Read) /\ WF_vars(PollReturns) /\ WF_vars(ParseStep) /\ WF_vars(HandlerReturns)

-----------------------------------------------------------------------------
(* Messages this endpoint gets right: a server unmasks a whole message with *)
(* the key of its last frame, and a ping not at all.  A control frame       *)
(* between two frames of a message is never kept apart from it.             *)
Handled(m) ==
    messages[m].kind \in {None, "text", "empty", "close"}
                           \union (IF serverSide THEN {} ELSE {"fragmented", "ping"})
AllHandled == \A m \in DOMAIN messages : Handled(m)

Content == {m \in DOMAIN messages : messages[m].kind \notin {None, "close"}}
Whole(d, m) ==
    /\ d.payload = PayloadOf(m) /\ d.plain /\ d.open
    /\ d.timed \/ "records" \in situations
    /\ d.op = (IF messages[m].kind = "ping" THEN "Ping" ELSE "Text")

(* The messages the payload handler is given are messages of the peer, in   *)
(* order, whole, with their opcode and unmasked, on a connection that has   *)
(* not been lost, and with the time they were read, though reads end        *)
(* anywhere, messages share a read and connections are lost or closed in    *)
(* the middle of a message and opened again: no part, count or key of it    *)
(* comes into the next.  Its opcode does, and half a header: when the first *)
(* message of the new connection has another opcode, or there is half a     *)
(* header, that is the exception "leftover".  The others are the time, if   *)
(* one poll reads several SSL records; frames in a read with one whose      *)
(* handler closed the endpoint; and a ping whose pong could not be sent.    *)
MessagesWhole ==
    AllHandled /\ situations \subseteq {"records"} =>
        /\ loop # "misread"
        /\ \E from \in [DOMAIN delivered -> Content] :
              /\ \A i \in DOMAIN delivered : Whole(delivered[i], from[i])
              /\ \A i, j \in DOMAIN delivered : i < j => from[i] < from[j]

(* "WebsocketPassthrough state should not reach this point": what the error *)
(* of the HTTP parser says.  The code does not keep it: a frame that comes  *)
(* in the read of the upgrade gets there.                                   *)
NeverPassedThrough == loop # "passthrough"

(* Payloads up to 65535 bytes arrive with the length they were sent with,   *)
(* at every boundary between the forms of the length.                       *)
LengthsKept ==
    \A n \in Lengths : upgraded /\ n < 65536 => LengthRead(ClientHeader(n)) = n /\ LengthRead(ServerHeader(n)) = n

(* A message that has arrived whole and has not been delivered.             *)
Waiting(m) ==
    /\ loop = "running" /\ open /\ AllHandled /\ situations \subseteq {"records"}
    /\ m \in DOMAIN messages
    /\ messages[m].connection = connection /\ messages[m].kind \notin {None, "close"}
    /\ \A n \in DOMAIN messages : messages[n].kind # "close"
    /\ \A i \in DOMAIN delivered : delivered[i].payload # PayloadOf(m)

(* Every message is delivered in the end, also one without payload, unless  *)
(* its connection or the loop ends before.                                  *)
EachDelivered == \A m \in 1 .. MaxMessages + MaxOpens : Waiting(m) ~> ~Waiting(m)
=============================================================================
